----------------------------- MODULE HrastCommands -----------------------------
(***************************************************************************)
(* The commands of the hrast server and the kind of handler each one has   *)
(* (hrast.c, the functions hrast_init's switch calls).  What a handler     *)
(* computes is left out; its kind says how it deals with the message:      *)
(*                                                                         *)
(*   "call"    one BCM call; its status is put into bcm_rv, its results    *)
(*             into mparam when the status is BCM_E_NONE; returns 0        *)
(*   "report"  as "call", and the result is written into the extension     *)
(*             buffer, which is cleared first                              *)
(*   "data"    as "call", with the extension of the request as its input   *)
(*   "early"   as "call", but it may return an error before bcm_rv is set  *)
(*   "value"   as "call", but what the BCM call returns is the answer      *)
(*   "local"   a variable of the server is read or written, no error       *)
(*   "flag"    bcm_rv is never set, no error                               *)
(*                                                                         *)
(* Lossy names the handlers with a step whose failure they do not report.  *)
(***************************************************************************)
EXTENDS Integers, TLC

Of(kind, commands) == [c \in commands |-> kind]

SwitchChecks == Of("call", {"SWITCH_INIT_CHECK", "SWITCH_ATTACH_CHECK"})
PortGets     == Of("call", {"PORT_LINK_STATUS_GET", "PORT_ADVERT_REMOTE_GET"})
PortReports  == Of("report", {"PORT_INFO_GET", "PORT_SELECTIVE_INFO_GET", "PORT_VLAN_INFO_GET"})
PortSpeeds   == Of("call", {"PORT_MAX_SPEED_GET", "PORT_SPEED_SET", "PORT_SPEED_GET", "PORT_DUPLEX_SET"})
PortFrames   == Of("call", {"PORT_DUPLEX_GET", "PORT_MAX_FRAME_SIZE_GET"})
PortModes    == Of("call", {"PORT_INTERFACE_MODE_SET"})
PortRates    == Of("call", {"PORT_MAX_FRAME_SIZE_SET", "PORT_AUTONEG_SET", "PORT_RATE_EGRESS_SET",
                            "PORT_RATE_INGRESS_SET"})
PortStates   == Of("call", {"PORT_RATE_EGRESS_GET", "PORT_RATE_INGRESS_GET", "PORT_STP_STATE_GET",
                            "PORT_STP_STATE_SET"})
TrunkCreates == Of("call", {"TRUNK_INIT", "TRUNK_CREATE"})
TrunkSets    == Of("early", {"TRUNK_SET"})
TrunkOthers  == Of("call", {"TRUNK_DETACH", "TRUNK_PSC_GET", "PORT_IFILTER_GET", "PORT_IFILTER_SET"})
VlanCalls    == Of("call", {"VLAN_CREATE", "VLAN_DESTROY", "PORT_VLAN_GET", "PORT_VLAN_ADD"})
VlanPorts    == Of("call", {"PORT_VLAN_REMOVE", "PORT_UNTAG_VLAN_SET", "PORT_UNTAG_VLAN_GET"})
PortStats    == Of("call", {"PORT_ENABLE_SET", "PORT_ENABLE_GET", "STAT_GET32", "STAT_CLEAR"})
Linkscans    == Of("call", {"LINKSCAN_MODE_GET", "LINKSCAN_MODE_SET", "LINKSCAN_ENABLE_GET",
                            "LINKSCAN_ENABLE_SET"})
LinkscanPort == Of("call", {"LINKSCAN_ENABLE_PORT_GET"})
LinkscanInit == Of("call", {"LINKSCAN_INIT"})
LinkscanStop == Of("call", {"LINKSCAN_DETACH"})
Registers    == Of("early", {"LINKSCAN_REGISTER", "LINKSCAN_UNREGISTER"})
StatusShow   == Of("call", {"PORT_STATUS_SHOW"})
VlanShow     == Of("report", {"VLAN_SHOW"})
DiagData     == Of("data", {"DIAG_MEM_SET"})
DiagMemory   == Of("report", {"DIAG_MEM_GET"})
DiagFilters  == Of("call", {"DIAG_FILTER_SET", "DIAG_FILTER_DESTROY_BY_PORT"})
DiagCams     == Of("report", {"DIAG_CAM_SEL_COUNT_GET", "DIAG_CAM_ENTRY_GET"})
DiagTimers   == Of("call", {"DIAG_CAM_AGE_TIMER_GET", "DIAG_CAM_AGE_TIMER_SET", "DIAG_TABLE_SIZE_GET"})
DiagCounts   == Of("call", {"DIAG_TABLE_COUNT_GET"})
DiagCos      == Of("report", {"DIAG_IN_COS_PKT_COUNT_GET", "DIAG_OUT_COS_PKT_COUNT_GET"})
DiagCongest  == Of("call", {"DIAG_CONGESTION_PKT_DISC_COUNT_GET"})
DiagAll      == Of("report", {"DIAG_CONGESTION_PKT_DISC_COUNT_GET_ALL"})
Settings     == Of("local", {"DIAG_CONGESTION_PKT_DISC_THRESHOLD_SET", "DIAG_TABLE_COUNT_SET",
                             "DIAG_TEST_DEBUG_MODE_SET", "DIAG_TEST_DEBUG_MODE_GET",
                             "DEBUG_LEVEL_GET", "DEBUG_LEVEL_SET"})
Flags        == Of("flag", {"DIAG_DEBUG_FLAG_ON", "DIAG_DEBUG_FLAG_OFF", "BCM_SHUTDOWN"})
Transmit     == Of("data", {"TX_RSTP"})
RxStarts     == Of("call", {"RX_START"})
RxActive     == Of("value", {"RX_ACTIVE"})
RxCalls      == Of("call", {"RX_UNREGISTER_RSTP", "PORT_STP_SET", "L2_ADDR_DEL_PORT"})
RxRegister   == Of("early", {"RX_REGISTER_RSTP"})
MirrorModes  == Of("call", {"MIRROR_INIT", "MIRROR_MODE_GET", "MIRROR_MODE_SET", "MIRROR_TO_GET"})
MirrorPorts  == Of("call", {"MIRROR_TO_SET", "MIRROR_INGRESS_GET", "MIRROR_INGRESS_SET",
                            "MIRROR_EGRESS_GET"})
SwitchCtrls  == Of("call", {"MIRROR_EGRESS_SET", "SWITCH_CONTROL_GET", "SWITCH_CONTROL_SET"})
MirrorGets   == Of("call", {"MIRROR_PORT_GET"})
MirrorDests  == Of("call", {"MIRROR_PORT_DEST_ADD"})
MirrorSets   == Of("early", {"MIRROR_PORT_SET"})

Kind ==
  SwitchChecks @@ PortGets @@ PortReports @@ PortSpeeds @@ PortFrames @@ PortModes @@ PortRates @@ PortStates
  @@ TrunkCreates @@ TrunkSets @@ TrunkOthers @@ VlanCalls @@ VlanPorts @@ PortStats
  @@ Linkscans @@ LinkscanPort @@ LinkscanInit
  @@ LinkscanStop @@ Registers @@ StatusShow @@ VlanShow @@ DiagData @@ DiagMemory
  @@ DiagFilters @@ DiagCams @@ DiagTimers @@ DiagCounts @@ DiagCos @@ DiagCongest @@ DiagAll
  @@ Settings @@ Flags @@ Transmit @@ RxStarts @@ RxActive @@ RxCalls @@ RxRegister @@ MirrorModes @@ MirrorPorts
  @@ SwitchCtrls @@ MirrorGets @@ MirrorSets @@ MirrorDests

Known == DOMAIN Kind

\* Commands the switch confirms with HRAST_MESSAGE_FROM_APPL_CONFIRM_E.
PortConfirmE == {"PORT_INFO_GET", "PORT_SELECTIVE_INFO_GET", "PORT_VLAN_INFO_GET"}
DiagConfirmE == {"VLAN_SHOW", "DIAG_MEM_SET", "DIAG_MEM_GET", "DIAG_CAM_SEL_COUNT_GET",
                 "DIAG_CAM_ENTRY_GET", "DIAG_IN_COS_PKT_COUNT_GET", "DIAG_OUT_COS_PKT_COUNT_GET",
                 "DIAG_CONGESTION_PKT_DISC_COUNT_GET_ALL"}
ConfirmE == PortConfirmE \cup DiagConfirmE

\* The switch and the handlers agree: an extended confirm is announced where
\* the handler fills the extension buffer or has got it with the request.
ASSUME ConfirmFitsHandler ==
  ConfirmE = {c \in Known : Kind[c] = "report" \/ (Kind[c] = "data" /\ c = "DIAG_MEM_SET")}

\* Commands whose requests are sent with an extension (HRAST_MESSAGE_FROM_APPL_E).
RequestE == {c \in Known : Kind[c] = "data"}

\* A mode that is neither of the two, a list cut off at the size of the buffer,
\* an index beyond the table, an entry that cannot be read, bcm_rx_active and
\* bcm_rx_stop that fail: bcm_rv tells nothing of them.
Lossy == {"PORT_INTERFACE_MODE_SET", "PORT_VLAN_INFO_GET", "LINKSCAN_UNREGISTER", "VLAN_SHOW",
          "DIAG_TABLE_COUNT_GET", "RX_REGISTER_RSTP", "RX_UNREGISTER_RSTP"}

\* Reports that are put together line by line, up to the first error.
Listings == {"PORT_VLAN_INFO_GET", "VLAN_SHOW"}

\* How the steps of a handler may go: the test of its arguments, the BCM call
\* whose status it keeps, and what else it does.
Courses(cmd) ==
  {r \in [tested : BOOLEAN, called : BOOLEAN, rest : BOOLEAN] :
     /\ r.tested \/ Kind[cmd] = "early"
     /\ r.called \/ Kind[cmd] \notin {"local", "flag"}
     /\ r.rest \/ cmd \in Lossy}

\* The bcm_rv that a BCM call leaves.
Status(cmd, called) ==
  IF ~called THEN {-1} ELSE IF Kind[cmd] = "value" THEN {0, 1} ELSE {0}

\* What a handler may come to: the value it returns, the bcm_rv it leaves (a
\* client sends 0), and whether the command has been carried out in full.
Outcomes(cmd) ==
  {o \in [rv : {0, -1}, bcm_rv : {0, 1, -1}, done : BOOLEAN] :
     \E r \in Courses(cmd) :
       /\ o.rv = IF r.tested THEN 0 ELSE -1
       /\ o.bcm_rv \in IF r.tested THEN Status(cmd, r.called) ELSE {0}
       /\ o.done = (r.tested /\ r.called /\ r.rest)}
=============================================================================
