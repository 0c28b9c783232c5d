-------------------------- MODULE MCHrastLinkscan --------------------------
(* HrastLinkscan on small instances. *)
EXTENDS HrastLinkscan, TLC

CONSTANT CountBound   (* reg_callbacks is followed within -CountBound .. CountBound *)

Symmetry == Permutations(Pids)

\* Colliding updates let the counter drift without limit; beyond the bound
\* no further states are generated.  Beside a sweep the last entry is filled,
\* but not followed further; without one the table fills up.  The two histories
\* are followed apart: with both, only the drift of the counter is left to see.
InBound ==
  /\ ~(overlap /\ strayed)
  /\ reg_callbacks \in -CountBound .. CountBound
  /\ keep_alive => Callback[MaxCallbacks - 1] = NoPid
=============================================================================
