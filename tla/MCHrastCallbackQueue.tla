------------------------- MODULE MCHrastCallbackQueue -------------------------
(* HrastCallbackQueue with two clients, of which the second may die. *)
EXTENDS HrastCallbackQueue

CONSTANTS p1, p2, msg_type

TwoClients == <<p1, p2>>
OneMortal == {p2}
=============================================================================
