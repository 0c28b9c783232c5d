----------------------------- MODULE MCHrastServer -----------------------------
(* HrastServer with one command of each kind that the runs are about. *)
EXTENDS HrastServer

CONSTANTS c1, c2

TwoClients == {c1, c2}

\* A report that may be cut off, a handler with an early return, and an extended
\* request whose confirm has no extension.
MixedCommands == {"PORT_VLAN_INFO_GET", "TRUNK_SET", "TX_RSTP"}

\* A plain call, a command that is not known, and the one that ends the loop.
PlainCommands == {"PORT_SPEED_SET", "UNIT_SET", "BCM_SHUTDOWN"}

\* An extended request whose confirm has an extension, and a report.
CrashCommands == {"DIAG_MEM_SET", "PORT_INFO_GET"}

\* A short queue, one that takes all that two clients can send and get, and a
\* short queue that outlives a server.
MCSystems == {[commands |-> MixedCommands, capacity |-> 3, restarts |-> 0],
               [commands |-> PlainCommands, capacity |-> 12, restarts |-> 1],
               [commands |-> CrashCommands, capacity |-> 2, restarts |-> 1]}
=============================================================================
