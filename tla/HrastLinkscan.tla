--------------------------- MODULE HrastLinkscan ---------------------------
(***************************************************************************)
(* The linkscan registration table of the hrast server                     *)
(* (c_projects/logging/hrast.c): Callback[], reg_callbacks and the one     *)
(* handler hrast registers at the BCM API for all of its clients.          *)
(*                                                                         *)
(* Two threads write this state and nothing serialises them:               *)
(*   - the main thread, which serves init, detach, register and unregister *)
(*     requests one at a time (variables m_...);                           *)
(*   - the keep-alive thread, which checks every entry in turn and drops   *)
(*     the ones that do not answer (variables k_...).                      *)
(* A step makes at most one access to a shared variable; reg_callbacks++   *)
(* and reg_callbacks-- are a load and a store.                             *)
(***************************************************************************)
EXTENDS Integers, FiniteSets

CONSTANTS
  Pids,          (* process ids of the clients, the c_pid values           *)
  NoPid,         (* c_pid = 0: the entry is free                           *)
  MaxCallbacks   (* MAX_CALLBACKS                                          *)

ASSUME LinkscanAssumption ==
  /\ NoPid \notin Pids
  /\ MaxCallbacks \in Nat \ {0}

VARIABLES
  Callback,       (* the table: slot -> client or NoPid                    *)
  reg_callbacks,  (* "number of registered callbacks", -1: not initialised *)
  bcm_handler,    (* hrast_linkscan_callback is registered at the BCM API  *)
  keep_alive,     (* hrast_init has created the keep-alive thread          *)
  m_pc,           (* main thread: where it is in the handler               *)
  m_op,           (* ... mcmd of the request                               *)
  m_pid,          (* ... mpid of the request                               *)
  m_idx,          (* ... mparam[1], or the loop index i                    *)
  m_cnt,          (* ... reg_callbacks as loaded by ++ or --               *)
  reply,          (* the last confirm: what the client learns              *)
  k_pc,           (* keep-alive thread: where it is in its sweep           *)
  k_i,            (* ... loop index i                                      *)
  k_pid,          (* ... local c_pid                                       *)
  k_cnt,          (* ... reg_callbacks as loaded by --                     *)
  overlap,        (* history: a request has overlapped a sweep             *)
  strayed         (* history: an unregister has been accepted for an entry *)
                  (* beyond the table, and init has not run since          *)

table  == <<Callback, reg_callbacks, bcm_handler>>
main   == <<m_pc, m_op, m_pid, m_idx, m_cnt, reply>>
keeper == <<k_pc, k_i, k_pid, k_cnt>>
vars   == <<table, keep_alive, main, keeper, overlap, strayed>>

Slots == 0 .. MaxCallbacks - 1

\* mparam[1] of an unregister is used as an index unchecked.  Beyond stands for
\* every value outside the table, among them the MAX_CALLBACKS a client is given
\* when the table is full.
Beyond  == MaxCallbacks
Indices == Slots \cup {Beyond}

Owner == Pids \cup {NoPid}
Ops   == {"init", "detach", "register", "unregister"}

\* Outcome of a handler as the client sees it: bcm_rv, or CMD_ERROR in mstatus.
Results == {"none", "BCM_E_NONE", "BCM_E_INIT", "BCM_E_MEMORY", "bcm_error",
            "CMD_ERROR"}

MainPc == {"idle", "bcm_init", "clear", "set_zero", "bcm_detach", "set_down",
           "dup_scan", "free_scan", "reg_test", "bcm_register", "save",
           "inc_load", "inc_store", "match", "unreg_test", "bcm_unregister",
           "dec_load", "dec_store", "release"}
KeepPc == {"sleep", "scan", "copy", "check", "dec_load", "dec_store", "release",
           "test", "bcm_unregister"}

Init ==
  /\ Callback = [s \in Slots |-> NoPid]
  /\ keep_alive \in BOOLEAN
  /\ reg_callbacks = IF keep_alive THEN 0 ELSE -1
  /\ bcm_handler = FALSE
  /\ m_pc = "idle" /\ m_op = "init" /\ m_pid = NoPid /\ m_idx = 0 /\ m_cnt = 0
  /\ reply = "none"
  /\ k_pc = "sleep" /\ k_i = 0 /\ k_pid = NoPid /\ k_cnt = 0
  /\ overlap = FALSE /\ strayed = FALSE

-----------------------------------------------------------------------------
(* Main thread.                                                            *)

Goto(pc) == m_pc' = pc

\* The handler returns and the main loop sends the confirm message.
Confirm(result) == m_pc' = "idle" /\ reply' = result

\* The main loop takes a request; register and unregister first test
\* reg_callbacks < 0.
Dispatch(op, p, idx) ==
  /\ m_pc = "idle"
  /\ m_op' = op /\ m_pid' = p
  /\ CASE op = "init"   -> Goto("bcm_init")   /\ m_idx' = 0 /\ reply' = "none"
       [] op = "detach" -> Goto("bcm_detach") /\ m_idx' = 0 /\ reply' = "none"
       [] op \in {"register", "unregister"} ->
            /\ m_idx' = IF op = "unregister" THEN idx ELSE 0
            /\ IF reg_callbacks < 0
                 THEN Confirm("BCM_E_INIT")
                 ELSE /\ Goto(IF op = "register" THEN "dup_scan" ELSE "match")
                      /\ reply' = "none"
  /\ UNCHANGED <<table, m_cnt>>

\* bcm_linkscan_init(): the BCM API may keep or forget its handlers.
BcmInit ==
  /\ m_pc = "bcm_init"
  /\ \/ Confirm("bcm_error") /\ UNCHANGED bcm_handler
     \/ Goto("clear") /\ bcm_handler' \in {bcm_handler, FALSE} /\ UNCHANGED reply
  /\ UNCHANGED <<Callback, reg_callbacks, m_op, m_pid, m_idx, m_cnt>>

ClearSlot ==
  /\ m_pc = "clear"
  /\ Callback' = [Callback EXCEPT ![m_idx] = NoPid]
  /\ IF m_idx + 1 \in Slots
       THEN m_idx' = m_idx + 1 /\ UNCHANGED m_pc
       ELSE m_idx' = 0 /\ Goto("set_zero")
  /\ UNCHANGED <<reg_callbacks, bcm_handler, m_op, m_pid, m_cnt, reply>>

SetZero ==
  /\ m_pc = "set_zero"
  /\ reg_callbacks' = 0
  /\ Confirm("BCM_E_NONE")
  /\ UNCHANGED <<Callback, bcm_handler, m_op, m_pid, m_idx, m_cnt>>

BcmDetach ==
  /\ m_pc = "bcm_detach"
  /\ \/ Confirm("bcm_error") /\ UNCHANGED bcm_handler
     \/ Goto("set_down") /\ bcm_handler' \in {bcm_handler, FALSE} /\ UNCHANGED reply
  /\ UNCHANGED <<Callback, reg_callbacks, m_op, m_pid, m_idx, m_cnt>>

\* Only the counter is reset: the entries stay in the table.
SetDown ==
  /\ m_pc = "set_down"
  /\ reg_callbacks' = -1
  /\ Confirm("BCM_E_NONE")
  /\ UNCHANGED <<Callback, bcm_handler, m_op, m_pid, m_idx, m_cnt>>

\* Mutant: the loop is left after the first entry.
DupScanFirstOnly ==
  /\ m_pc = "dup_scan"
  /\ IF Callback[m_idx] = m_pid
       THEN Confirm("CMD_ERROR")
       ELSE Goto("free_scan") /\ UNCHANGED reply
  /\ UNCHANGED <<table, m_op, m_pid, m_idx, m_cnt>>

\* Only one registration per client is allowed.
DupScan ==
  /\ m_pc = "dup_scan"
  /\ IF Callback[m_idx] = m_pid
       THEN Confirm("CMD_ERROR") /\ UNCHANGED m_idx
       ELSE /\ IF m_idx + 1 \in Slots
                 THEN m_idx' = m_idx + 1 /\ UNCHANGED m_pc
                 ELSE m_idx' = 0 /\ Goto("free_scan")
            /\ UNCHANGED reply
  /\ UNCHANGED <<table, m_op, m_pid, m_cnt>>

\* Mutant: the test for a full table is missing.
FreeScanNotFull ==
  /\ m_pc = "free_scan"
  /\ IF Callback[m_idx] # NoPid /\ m_idx + 1 \in Slots
       THEN m_idx' = m_idx + 1 /\ UNCHANGED m_pc
       ELSE Goto("reg_test") /\ UNCHANGED m_idx
  /\ UNCHANGED <<table, m_op, m_pid, m_cnt, reply>>

\* The first free entry, or BCM_E_MEMORY with mparam[1] = MAX_CALLBACKS.
FreeScan ==
  /\ m_pc = "free_scan"
  /\ CASE Callback[m_idx] = NoPid ->
            Goto("reg_test") /\ UNCHANGED <<m_idx, reply>>
       [] Callback[m_idx] # NoPid /\ m_idx + 1 \in Slots ->
            m_idx' = m_idx + 1 /\ UNCHANGED <<m_pc, reply>>
       [] Callback[m_idx] # NoPid /\ m_idx + 1 \notin Slots ->
            Confirm("BCM_E_MEMORY") /\ UNCHANGED m_idx
  /\ UNCHANGED <<table, m_op, m_pid, m_cnt>>

\* More than one registered: the BCM API is not called.
RegTest ==
  /\ m_pc = "reg_test"
  /\ Goto(IF reg_callbacks > 1 THEN "save" ELSE "bcm_register")
  /\ UNCHANGED <<table, m_op, m_pid, m_idx, m_cnt, reply>>

\* Mutant: reg_callbacks++ although the BCM call has failed.
BcmRegisterCountsFailure ==
  /\ m_pc = "bcm_register"
  /\ \/ Goto("inc_load") /\ UNCHANGED bcm_handler
     \/ Goto("save") /\ bcm_handler' = TRUE
  /\ UNCHANGED <<Callback, reg_callbacks, m_op, m_pid, m_idx, m_cnt, reply>>

BcmRegister ==
  /\ m_pc = "bcm_register"
  /\ \/ Confirm("bcm_error") /\ UNCHANGED bcm_handler
     \/ Goto("save") /\ bcm_handler' = TRUE /\ UNCHANGED reply
  /\ UNCHANGED <<Callback, reg_callbacks, m_op, m_pid, m_idx, m_cnt>>

Save ==
  /\ m_pc = "save"
  /\ Callback' = [Callback EXCEPT ![m_idx] = m_pid]
  /\ Goto("inc_load")
  /\ UNCHANGED <<reg_callbacks, bcm_handler, m_op, m_pid, m_idx, m_cnt, reply>>

IncLoad ==
  /\ m_pc = "inc_load"
  /\ m_cnt' = reg_callbacks
  /\ Goto("inc_store")
  /\ UNCHANGED <<table, m_op, m_pid, m_idx, reply>>

IncStore ==
  /\ m_pc = "inc_store"
  /\ reg_callbacks' = m_cnt + 1
  /\ Confirm("BCM_E_NONE")
  /\ UNCHANGED <<Callback, bcm_handler, m_op, m_pid, m_idx, m_cnt>>

\* Mutant: any client's entry may be named.
MatchAnyone ==
  /\ m_pc = "match"
  /\ \/ /\ m_idx \in Slots => Callback[m_idx] = NoPid
        /\ Confirm("CMD_ERROR")
     \/ /\ m_idx \in Slots => Callback[m_idx] # NoPid
        /\ Goto("unreg_test") /\ UNCHANGED reply
  /\ UNCHANGED <<table, m_op, m_pid, m_idx, m_cnt>>

\* The entry the client names must be its own.  The memory beyond the table may
\* hold anything, the client's pid too.
Match ==
  /\ m_pc = "match"
  /\ \/ /\ m_idx \in Slots => Callback[m_idx] # m_pid
        /\ Confirm("CMD_ERROR")
     \/ /\ m_idx \in Slots => Callback[m_idx] = m_pid
        /\ Goto("unreg_test") /\ UNCHANGED reply
  /\ UNCHANGED <<table, m_op, m_pid, m_idx, m_cnt>>

UnregTest ==
  /\ m_pc = "unreg_test"
  /\ Goto(IF reg_callbacks > 1 THEN "dec_load" ELSE "bcm_unregister")
  /\ UNCHANGED <<table, m_op, m_pid, m_idx, m_cnt, reply>>

BcmUnregister ==
  /\ m_pc = "bcm_unregister"
  /\ \/ Confirm("bcm_error") /\ UNCHANGED bcm_handler
     \/ Goto("dec_load") /\ bcm_handler' = FALSE /\ UNCHANGED reply
  /\ UNCHANGED <<Callback, reg_callbacks, m_op, m_pid, m_idx, m_cnt>>

DecLoad ==
  /\ m_pc = "dec_load"
  /\ m_cnt' = reg_callbacks
  /\ Goto("dec_store")
  /\ UNCHANGED <<table, m_op, m_pid, m_idx, reply>>

DecStore ==
  /\ m_pc = "dec_store"
  /\ reg_callbacks' = m_cnt - 1
  /\ Goto("release")
  /\ UNCHANGED <<Callback, bcm_handler, m_op, m_pid, m_idx, m_cnt, reply>>

\* Beyond the table some other word of the server is cleared.
Release ==
  /\ m_pc = "release"
  /\ Callback' = [s \in Slots |-> IF s = m_idx THEN NoPid ELSE Callback[s]]
  /\ Confirm("BCM_E_NONE")
  /\ UNCHANGED <<reg_callbacks, bcm_handler, m_op, m_pid, m_idx, m_cnt>>

HandlerStep ==
  \/ BcmInit \/ ClearSlot \/ SetZero \/ BcmDetach \/ SetDown
  \/ DupScan \/ FreeScan \/ RegTest \/ BcmRegister \/ Save \/ IncLoad \/ IncStore
  \/ Match \/ UnregTest \/ BcmUnregister \/ DecLoad \/ DecStore \/ Release

MainStep ==
  /\ \/ \E op \in Ops, p \in Pids, idx \in Indices : Dispatch(op, p, idx)
     \/ HandlerStep
  /\ UNCHANGED <<keep_alive, keeper>>

-----------------------------------------------------------------------------
(* Keep-alive thread.                                                      *)

KeepGoto(pc) == k_pc' = pc

\* The next iteration of the for loop, or usleep(KEEP_ALIVE_PERIOD).
NextSlot ==
  IF k_i + 1 \in Slots
    THEN k_i' = k_i + 1 /\ KeepGoto("scan")
    ELSE k_i' = 0 /\ KeepGoto("sleep")

Wake ==
  /\ keep_alive
  /\ k_pc = "sleep"
  /\ reg_callbacks > 0
  /\ KeepGoto("scan")
  /\ k_i' = 0
  /\ UNCHANGED <<table, k_pid, k_cnt>>

Scan ==
  /\ k_pc = "scan"
  /\ IF Callback[k_i] # NoPid
       THEN KeepGoto("copy") /\ UNCHANGED k_i
       ELSE NextSlot
  /\ UNCHANGED <<table, k_pid, k_cnt>>

\* c_pid = Callback[i].c_pid, a second read.
Copy ==
  /\ k_pc = "copy"
  /\ k_pid' = Callback[k_i]
  /\ KeepGoto("check")
  /\ UNCHANGED <<table, k_i, k_cnt>>

\* hrast_linkscan_connectivity_check. Its outcome is open here; a message
\* of type 0 cannot be sent, so the check of NoPid fails.
Check ==
  /\ k_pc = "check"
  /\ \/ k_pid # NoPid /\ NextSlot
     \/ KeepGoto("dec_load") /\ UNCHANGED k_i
  /\ UNCHANGED <<table, k_pid, k_cnt>>

KeepDecLoad ==
  /\ k_pc = "dec_load"
  /\ k_cnt' = reg_callbacks
  /\ KeepGoto("dec_store")
  /\ UNCHANGED <<table, k_i, k_pid>>

KeepDecStore ==
  /\ k_pc = "dec_store"
  /\ reg_callbacks' = k_cnt - 1
  /\ KeepGoto("release")
  /\ UNCHANGED <<Callback, bcm_handler, k_i, k_pid, k_cnt>>

\* The entry is cleared whoever holds it by now.
KeepRelease ==
  /\ k_pc = "release"
  /\ Callback' = [Callback EXCEPT ![k_i] = NoPid]
  /\ KeepGoto("test")
  /\ UNCHANGED <<reg_callbacks, bcm_handler, k_i, k_pid, k_cnt>>

\* Mutant: the last but one client takes the BCM handler with it.
KeepTestTooEarly ==
  /\ k_pc = "test"
  /\ IF reg_callbacks <= 1
       THEN KeepGoto("bcm_unregister") /\ UNCHANGED k_i
       ELSE NextSlot
  /\ UNCHANGED <<table, k_pid, k_cnt>>

KeepTest ==
  /\ k_pc = "test"
  /\ IF reg_callbacks = 0
       THEN KeepGoto("bcm_unregister") /\ UNCHANGED k_i
       ELSE NextSlot
  /\ UNCHANGED <<table, k_pid, k_cnt>>

\* The status of the BCM call is only printed.
KeepBcmUnregister ==
  /\ k_pc = "bcm_unregister"
  /\ bcm_handler' \in {bcm_handler, FALSE}
  /\ NextSlot
  /\ UNCHANGED <<Callback, reg_callbacks, k_pid, k_cnt>>

KeepStep ==
  /\ \/ Wake \/ Scan \/ Copy \/ Check \/ KeepDecLoad \/ KeepDecStore
     \/ KeepRelease \/ KeepTest \/ KeepBcmUnregister
  /\ UNCHANGED <<keep_alive, main>>

-----------------------------------------------------------------------------
\* History: a handler and a sweep have been under way at the same time.
Overlapping == m_pc # "idle" /\ k_pc # "sleep"

\* History: an unregister is let through for an entry beyond the table; init
\* empties the table and counts from 0 again.
Straying == m_pc = "unreg_test" /\ m_idx \notin Slots
Emptied  == m_pc = "set_zero" /\ m_pc' = "idle"

Next ==
  /\ MainStep \/ KeepStep
  /\ overlap' = (overlap \/ Overlapping')
  /\ strayed' = (Straying' \/ (strayed /\ ~Emptied))

Spec == Init /\ [][Next]_vars
-----------------------------------------------------------------------------
(* Properties.                                                             *)

\* Init and register use an index of their own.
Scanning == {"bcm_init", "clear", "dup_scan", "free_scan", "reg_test", "bcm_register",
             "save", "inc_load", "inc_store"}

\* Every variable keeps the type the code gives it; the counter is an int
\* that may leave -1 .. MAX_CALLBACKS when the two threads collide.
TypeOK ==
  /\ Callback \in [Slots -> Owner]
  /\ reg_callbacks \in Int
  /\ bcm_handler \in BOOLEAN /\ keep_alive \in BOOLEAN
  /\ overlap \in BOOLEAN /\ strayed \in BOOLEAN
  /\ m_pc \in MainPc /\ m_op \in Ops /\ m_pid \in Owner
  /\ m_idx \in Indices /\ (m_pc \in Scanning => m_idx \in Slots)
  /\ m_cnt \in Int /\ reply \in Results
  /\ k_pc \in KeepPc /\ k_i \in Slots /\ k_pid \in Owner /\ k_cnt \in Int

\* "Only one registration per client allowed" (hrast_linkscan_register): no
\* client holds two entries, although the keep-alive thread clears entries
\* while the main thread scans the table.
OnePerClient ==
  \A s, t \in Slots : s # t /\ Callback[s] = Callback[t] => Callback[s] = NoPid

\* The table holds clients or nothing, and each of them once, and the index that
\* init and register use stays within it, whatever the sweep does meanwhile and
\* whatever index a client names: only an unregister may leave the table.
TableSound == TypeOK /\ OnePerClient

\* An entry that belongs to a client is never handed to another one: it is
\* freed first, whatever the two threads do between the scan and the store.
EntryNotStolen ==
  [][\A s \in Slots : Callback[s] # NoPid => Callback'[s] \in {Callback[s], NoPid}]_Callback

AtRest     == m_pc = "idle" /\ k_pc = "sleep"
Occupied(t) == {s \in Slots : t[s] # NoPid}
Registered == Occupied(Callback)

\* As long as no handler has run during a sweep and no unregister has been
\* accepted for an entry beyond the table, the counter at rest is the number of
\* entries, or -1 when linkscan is down: dup, full, error and detach paths leave
\* the two in step, and init brings them back in step.
CountExactIfSerial ==
  ~overlap /\ ~strayed /\ AtRest => reg_callbacks \in {-1, Cardinality(Registered)}

\* As long as no handler has run during a sweep, a server with registered
\* clients has its handler at the BCM API, so link events reach it: the call
\* that is skipped for the second, third, ... client is never the needed one.
HandlerIfSerial ==
  ~overlap /\ AtRest /\ reg_callbacks > 0 => bcm_handler
-----------------------------------------------------------------------------
(* Refinement of the registry the clients see.                             *)

Restarting == m_pc \in {"clear", "set_zero"}
InService  == reg_callbacks >= 0 \/ Restarting

\* The entries that count: an entry is taken when the confirm says so.
Seated(s) ==
  /\ InService /\ ~Restarting
  /\ ~(m_pc \in {"inc_load", "inc_store"} /\ s = m_idx)

SeatMap == [s \in Slots |-> IF Seated(s) THEN Callback[s] ELSE NoPid]
IdxMap  == IF m_op = "unregister" \/ reply = "BCM_E_NONE" THEN m_idx ELSE 0

Registry == INSTANCE LinkscanRegistry WITH
  Seats <- Slots,
  Names <- Indices,
  up    <- InService,
  seat  <- SeatMap,
  busy  <- m_pc # "idle",
  op    <- m_op,
  pid   <- m_pid,
  idx   <- IdxMap

\* Without the keep-alive thread (linkscan was not up at boot) the table of
\* entries, the counter, the two scans and the BCM calls together behave as the
\* registry: every confirm tells the truth about it, also the one for an index
\* beyond the table.  The exception is the unregister of such an index that finds
\* the client's pid there: its confirm reports success, and the counter no longer
\* fits the table until the next init.
ImplementsRegistry ==
  /\ ~keep_alive => Registry!Init
  /\ [][~keep_alive /\ ~strayed' => Registry!Next]_(Registry!vars)
-----------------------------------------------------------------------------
(* Inductive strengthenings, for the proofs.                               *)

\* What the scans of hrast_linkscan_register have established so far stays
\* true until the entry is stored: the other thread only clears entries.
RegisterInv ==
  /\ OnePerClient
  /\ m_pc # "idle" => m_pid \in Pids
  /\ m_pc = "dup_scan" => \A s \in Slots : s < m_idx => Callback[s] # m_pid
  /\ m_pc \in {"free_scan", "reg_test", "bcm_register", "save"} =>
       \A s \in Slots : Callback[s] # m_pid
  /\ m_pc \in {"reg_test", "bcm_register", "save"} => Callback[m_idx] = NoPid

\* How far the counter is ahead of or behind the table inside a handler.
CounterInHandler ==
  LET n == Cardinality(Registered) IN
  /\ ~strayed =>
       /\ m_pc \in {"idle", "bcm_init", "bcm_detach"} => reg_callbacks \in {-1, n}
       /\ m_pc \in {"dup_scan", "free_scan", "reg_test", "bcm_register", "save", "match",
                     "unreg_test", "bcm_unregister", "dec_load", "dec_store"} =>
            reg_callbacks = n
       /\ m_pc \in {"inc_load", "inc_store"} => reg_callbacks = n - 1
       /\ m_pc = "release" => reg_callbacks = n - 1
       /\ m_pc \in {"unreg_test", "bcm_unregister", "dec_load", "dec_store", "release"} =>
            m_idx \in Slots /\ Callback[m_idx] = m_pid
  /\ m_pc \in {"inc_store", "dec_store"} => m_cnt = reg_callbacks
  /\ m_pc = "bcm_init" => m_idx = 0
  /\ m_pc = "clear" => \A s \in Slots : s < m_idx => Callback[s] = NoPid
  /\ m_pc = "set_zero" => n = 0

\* The same inside a sweep.
CounterInSweep ==
  LET n == Cardinality(Registered) IN
  /\ ~strayed => reg_callbacks = IF k_pc = "release" THEN n - 1 ELSE n
  /\ k_pc \in {"copy", "check", "dec_load", "dec_store", "release"} => Callback[k_i] # NoPid
  /\ k_pc = "dec_store" => k_cnt = reg_callbacks
  /\ k_pc = "bcm_unregister" => reg_callbacks = 0

\* When the BCM handler must be registered, inside a handler.
HandlerInHandler ==
  /\ m_pc \in {"idle", "bcm_init", "bcm_detach", "dup_scan", "free_scan", "reg_test",
                "bcm_register", "match", "unreg_test", "bcm_unregister", "release"} =>
       (reg_callbacks > 0 => bcm_handler)
  /\ m_pc \in {"save", "inc_load", "inc_store"} => bcm_handler
  /\ m_pc \in {"dec_load", "dec_store"} => (reg_callbacks > 1 => bcm_handler)
  /\ m_pc = "bcm_unregister" => reg_callbacks <= 1

\* Without the keep-alive thread: what a handler knows of its request, and
\* what has been passed in the search for a free entry.
RegistryInv ==
  ~keep_alive =>
    /\ k_pc = "sleep" /\ ~overlap
    /\ m_pc # "idle" => reply = "none"
    /\ m_pc \in {"bcm_init", "clear", "set_zero"} => m_op = "init"
    /\ m_pc \in {"bcm_detach", "set_down"} => m_op = "detach"
    /\ m_pc \in {"dup_scan", "free_scan", "reg_test", "bcm_register", "save", "inc_load", "inc_store"} =>
         m_op = "register"
    /\ m_pc \in {"match", "unreg_test", "bcm_unregister", "dec_load", "dec_store", "release"} =>
         m_op = "unregister"
    /\ m_pc \in {"bcm_init", "set_zero", "bcm_detach", "set_down"} => m_idx = 0
    /\ m_pc = "free_scan" => \A s \in Slots : s < m_idx => Callback[s] # NoPid
    /\ m_pc = "bcm_register" => reg_callbacks <= 1
    /\ m_pc \in {"inc_load", "inc_store"} => Callback[m_idx] = m_pid

SerialInv ==
  /\ RegisterInv
  /\ ~overlap =>
       /\ m_pc = "idle" \/ k_pc = "sleep"
       /\ k_pc = "sleep" => CounterInHandler
       /\ k_pc # "sleep" => CounterInSweep
       /\ HandlerInHandler
=============================================================================
