---------------------------- MODULE UsbTransfer ----------------------------
(***************************************************************************)
(* What a backend of libusbx promises for asynchronous transfers: a        *)
(* submission that is accepted is answered by exactly one callback.        *)
(* One callback too many is possible while the device goes away: the       *)
(* disconnection walks the transfers without a lock (io.c, "FIXME: is this *)
(* still potentially racy?") and meets a submission about to fail.         *)
(***************************************************************************)
EXTENDS Integers

CONSTANT Transfers

VARIABLES
  state,    (* "idle" or "flying"                                          *)
  gone,     (* the device is disconnected                                  *)
  calls     (* callbacks of the transfer, modulo 2                         *)

vars == <<state, gone, calls>>

Init ==
  /\ state = [t \in Transfers |-> "idle"]
  /\ gone = FALSE
  /\ calls = [t \in Transfers |-> 0]

Submit(t) ==
  /\ state[t] = "idle"
  /\ state' = [state EXCEPT ![t] = "flying"]
  /\ UNCHANGED <<gone, calls>>

Disconnect ==
  /\ gone' = TRUE
  /\ UNCHANGED <<state, calls>>

Complete(t) ==
  /\ state[t] = "flying" \/ gone
  /\ state' = [state EXCEPT ![t] = "idle"]
  /\ calls' = [calls EXCEPT ![t] = 1 - @]
  /\ UNCHANGED gone

Next == Disconnect \/ \E t \in Transfers : Submit(t) \/ Complete(t)

Spec == Init /\ [][Next]_vars
=============================================================================
