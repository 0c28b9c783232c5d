---------------------------- MODULE MCUsbHandles ----------------------------
(* Instance of UsbHandles for TLC: two threads; the first uses handle h1    *)
(* and reads descriptors, the second one uses h1 or h2.                     *)
EXTENDS UsbHandles

CONSTANTS t1, t2, h1, h2

MCAsks == (t1 :> {Unconfigured, 2}) @@ (t2 :> {})
MCUses == (t1 :> {h1}) @@ (t2 :> {h1, h2})

I(alt, count) == [type |-> "interface", len |-> 9, alt |-> alt, count |-> count]
E(count) == [type |-> "endpoint", len |-> 7, alt |-> 0, count |-> count]
O == [type |-> "other", len |-> 3, alt |-> 0, count |-> 0]
Z == [type |-> "other", len |-> 0, alt |-> 0, count |-> 0]

Config(n, descs) == [interfaces |-> n, descs |-> descs]

Audio == Config(2, <<O, I(0, 0), O, I(1, 1), E(8), O, I(0, 2), E(8), E(8)>>)
Plain == Config(1, <<I(0, 1), E(8), O>>)
Short == Config(2, <<I(0, 2), E(8)>>)
Broken == Config(1, <<I(0, 1), E(8), Z>>)

MCDevices == {<<Audio, Plain>>, <<Short, Broken>>}

\* Every configuration of up to five of these descriptors that is well formed
\* is parsed to what it means.
Streams == UNION {[1 .. n -> {I(0, 0), I(0, 1), I(0, 2), I(1, 0), I(1, 1), E(8), O}] : n \in 1 .. 5}

ASSUME ParserReadsWhatIsMeant ==
  \A descs \in Streams, n \in 1 .. 2, zeros \in BOOLEAN :
    WellFormed(Config(n, descs)) => ParseConfiguration(Config(n, descs), zeros) = Meaning(Config(n, descs))
=============================================================================
