-------------------------- MODULE LinkscanRegistry --------------------------
(***************************************************************************)
(* What the linkscan commands of the hrast server promise to their clients:*)
(* a registry with a bounded number of seats, at most one per client, where*)
(* each request is answered exactly once and the answer says what happened *)
(* to the registry.  Register, unregister and detach take effect at the    *)
(* answer; init takes effect, in one step, before it.                      *)
(***************************************************************************)
EXTENDS Integers

CONSTANTS
  Pids,    (* clients          *)
  NoPid,   (* a seat is free   *)
  Seats,   (* seats            *)
  Names    (* what a request may name: the seats, and places that are none *)

VARIABLES
  up,      (* linkscan is initialised             *)
  seat,    (* seat -> client or NoPid             *)
  busy,    (* a request is being served           *)
  op, pid, (* that request, or the last one       *)
  idx,     (* seat it names, or was given         *)
  reply    (* answer to the last request          *)

vars == <<up, seat, busy, op, pid, idx, reply>>

Taken   == {s \in Seats : seat[s] # NoPid}
Holders == {seat[s] : s \in Taken}
AllFree == [s \in Seats |-> NoPid]

Init ==
  /\ up \in BOOLEAN
  /\ seat = AllFree
  /\ ~busy /\ op = "init" /\ pid = NoPid /\ idx = 0 /\ reply = "none"

Ask(o, p, s) ==
  /\ ~busy
  /\ busy' = TRUE /\ reply' = "none"
  /\ op' = o /\ pid' = p
  /\ idx' = IF o = "unregister" THEN s ELSE 0
  /\ o \in {"register", "unregister"} => up
  /\ UNCHANGED <<up, seat>>

\* Register and unregister need linkscan.
Refuse(o, p, s) ==
  /\ ~busy /\ ~up
  /\ o \in {"register", "unregister"}
  /\ op' = o /\ pid' = p
  /\ idx' = IF o = "unregister" THEN s ELSE 0
  /\ reply' = "BCM_E_INIT"
  /\ UNCHANGED <<up, seat, busy>>

Answer(o, result) ==
  /\ busy /\ op = o
  /\ busy' = FALSE /\ reply' = result
  /\ UNCHANGED <<op, pid>>

Join(s) ==
  /\ Answer("register", "BCM_E_NONE")
  /\ up /\ pid \notin Holders /\ s \notin Taken
  /\ seat' = [seat EXCEPT ![s] = pid]
  /\ idx' = s
  /\ UNCHANGED up

Twice ==
  /\ Answer("register", "CMD_ERROR")
  /\ pid \in Holders
  /\ UNCHANGED <<up, seat, idx>>

Full ==
  /\ Answer("register", "BCM_E_MEMORY")
  /\ pid \notin Holders /\ Taken = Seats
  /\ UNCHANGED <<up, seat, idx>>

Leave ==
  /\ Answer("unregister", "BCM_E_NONE")
  /\ up /\ idx \in Seats /\ seat[idx] = pid
  /\ seat' = [seat EXCEPT ![idx] = NoPid]
  /\ UNCHANGED <<up, idx>>

NotYours ==
  /\ Answer("unregister", "CMD_ERROR")
  /\ idx \in Seats => seat[idx] # pid
  /\ UNCHANGED <<up, seat, idx>>

\* The BCM API refuses. It is asked only when nobody or one client is seated.
Fail(o) ==
  /\ Answer(o, "bcm_error")
  /\ o = "register" => pid \notin Holders /\ \A s, r \in Taken : s = r
  /\ o = "unregister" => Taken = {idx} /\ seat[idx] = pid
  /\ UNCHANGED <<up, seat, idx>>

\* Initialisation empties the registry, whoever is seated.
Start ==
  /\ busy /\ op = "init"
  /\ up' = TRUE /\ seat' = AllFree
  /\ UNCHANGED <<busy, op, pid, idx, reply>>

Started ==
  /\ Answer("init", "BCM_E_NONE")
  /\ up /\ seat = AllFree
  /\ UNCHANGED <<up, seat, idx>>

Stop ==
  /\ Answer("detach", "BCM_E_NONE")
  /\ up' = FALSE /\ seat' = AllFree
  /\ UNCHANGED idx

Next ==
  \/ \E o \in {"init", "detach", "register", "unregister"}, p \in Pids, s \in Names :
       Ask(o, p, s) \/ Refuse(o, p, s)
  \/ \E s \in Seats : Join(s)
  \/ \E o \in {"init", "detach", "register", "unregister"} : Fail(o)
  \/ Twice \/ Full \/ Leave \/ NotYours \/ Start \/ Started \/ Stop

Spec == Init /\ [][Next]_vars
=============================================================================
