---------------------------- MODULE MCLinuxUsbfs ----------------------------
(* LinuxUsbfs on small instances: one transfer of a type that is divided   *)
(* into URBs, bulk also on a kernel without bulk continuation, or two      *)
(* control transfers.                                                      *)
EXTENDS LinuxUsbfs
CONSTANTS divided, ctrl1, ctrl2

Setting(first, others, k) == [type |-> [t \in Transfers |-> IF t = divided THEN first ELSE others], continuation |-> k]
MCSettings ==
  {Setting(k, "unused", TRUE) : k \in {"bulk", "interrupt", "iso"}}
  \cup {Setting("bulk", "unused", FALSE), Setting("unused", "control", TRUE)}
MCLengths == [t \in Transfers |-> IF t = divided THEN {0, 5} ELSE {1}]
MCPackets == {<<2, 1>>, <<1, 2, 1>>, <<1, 1, 2>>}

\* The loop that counts the URBs of an isochronous transfer agrees with the one
\* that fills them: there is one at least, and every packet is in one of them.
ASSUME PacketsAreDivided ==
  \A ps \in UNION {[1 .. n -> 0 .. MaxIso] : n \in 0 .. 6} :
    /\ IsoSizes(ps) \in Seq(Nat) \ {<<>>}
    /\ Len(IsoFill(ps)) = IsoCount(ps) /\ FoldLeft(+, 0, IsoSizes(ps)) = Len(ps)
=============================================================================
