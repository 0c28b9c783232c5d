----------------------------- MODULE MCHrastRx -----------------------------
(* HrastRx on a small instance: one client more than there are entries.    *)
EXTENDS HrastRx, TLC

CONSTANT CountBound   (* reg_rx_callbacks is followed within -CountBound .. CountBound *)

Symmetry == Permutations(Pids)

CountInBound == reg_rx_callbacks \in -CountBound .. CountBound
=============================================================================
