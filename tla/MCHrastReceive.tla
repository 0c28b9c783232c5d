--------------------------- MODULE MCHrastReceive ---------------------------
(* HrastReceive on small instances. *)
EXTENDS HrastReceive
=============================================================================
