--------------------------- MODULE UsbDescriptors ---------------------------
(***************************************************************************)
(* How libusbx reads the descriptors of a configuration (descriptor.c).    *)
(*                                                                         *)
(* A configuration is a record: `interfaces', the bNumInterfaces of its    *)
(* header, and `descs', the descriptors that follow the header.  A         *)
(* descriptor has its type, its length, its byte 3 `alt', which is the     *)
(* bAlternateSetting of an interface, and its byte 4 `count', which is the *)
(* bNumEndpoints of an interface and a part of the wMaxPacketSize of an    *)
(* endpoint: parse_interface takes whatever it finds for an interface.     *)
(* "other" stands for the descriptors of classes and vendors.  wTotalLength*)
(* is the length of all of them.  The result of parsing names descriptors  *)
(* by their position.  A parser that runs out of descriptors reads past the*)
(* end of its buffer: `zeros' says whether it finds zeros there, or a      *)
(* length that it refuses.                                                 *)
(***************************************************************************)
EXTENDS Integers, Sequences, FiniteSets, SequencesExt

USB_MAXINTERFACES == 32
USB_MAXENDPOINTS == 32

Proper == {"interface", "endpoint", "configuration", "device"}

\* Bytes from position p to the end.
Size(descs, p) == FoldSeq(LAMBDA d, n : d.len + n, 0, SubSeq(descs, p, Len(descs)))

\* The loops over unknown descriptors: the first that is proper or too short.
Stop(descs, p) ==
  CHOOSE q \in p .. Len(descs) + 1 :
    /\ q <= Len(descs) => descs[q].len < 2 \/ descs[q].type \in Proper
    /\ \A x \in p .. q - 1 : descs[x].len >= 2 /\ descs[x].type \notin Proper

TooShort(descs, p) == p <= Len(descs) /\ descs[p].len < 2

Span(p, q) == [i \in 1 .. q - p |-> p + i - 1]

NoEndpoint == [at |-> 0, extra |-> <<>>]

\* parse_endpoint for each endpoint of an altsetting: what is no endpoint is
\* left where it is, and an endpoint of zeros takes its place.
ParseEndpoints(descs, start, count, zeros) ==
  LET parse[n \in 0 .. count] ==
        IF n = 0 THEN [ok |-> TRUE, pos |-> start, found |-> <<>>]
        ELSE LET e == parse[n - 1]
                 q == Stop(descs, e.pos + 1)
             IN IF ~e.ok \/ (e.pos > Len(descs) /\ ~zeros) THEN [e EXCEPT !.ok = FALSE]
                ELSE IF e.pos > Len(descs) \/ descs[e.pos].type # "endpoint" THEN [e EXCEPT !.found = Append(@, NoEndpoint)]
                ELSE [ok |-> ~TooShort(descs, q), pos |-> q,
                      found |-> Append(e.found, [at |-> e.pos, extra |-> Span(e.pos + 1, q)])]
  IN parse[count]

\* parse_interface: altsettings, as long as the next one is not number 0.
ParseInterface(descs, start, zeros) ==
  LET parse[p \in 1 .. Len(descs) + 1] ==
        LET q == Stop(descs, p + 1)
            ends == q <= Len(descs) /\ descs[q].type \in {"configuration", "device"}
            count == IF ends THEN 0 ELSE descs[p].count
            eps == ParseEndpoints(descs, q, count, zeros)
            setting == [at |-> p, extra |-> Span(p + 1, q), endpoints |-> eps.found]
            more == eps.pos <= Len(descs) /\ Size(descs, eps.pos) >= 9
                    /\ descs[eps.pos].type = "interface" /\ descs[eps.pos].alt # 0
        IN IF Size(descs, p) < 9 THEN [ok |-> TRUE, pos |-> p, settings |-> <<>>]
           ELSE IF TooShort(descs, q) \/ count > USB_MAXENDPOINTS \/ ~eps.ok
                THEN [ok |-> FALSE, pos |-> p, settings |-> <<>>]
           ELSE IF ~more THEN [ok |-> TRUE, pos |-> eps.pos, settings |-> <<setting>>]
           ELSE [parse[eps.pos] EXCEPT !.settings = <<setting>> \o @]
  IN parse[start]

\* parse_configuration.  Of the unknown descriptors between the interfaces
\* only the first ones are kept ("FIXME: We should realloc and append here").
ParseConfiguration(config, zeros) ==
  LET descs == config.descs
      parse[n \in 0 .. config.interfaces] ==
        IF n = 0 THEN [ok |-> TRUE, pos |-> 1, extra |-> <<>>, interfaces |-> <<>>]
        ELSE LET c == parse[n - 1]
                 q == Stop(descs, c.pos)
                 i == ParseInterface(descs, q, zeros)
             IN IF ~c.ok \/ TooShort(descs, q) \/ ~i.ok THEN [c EXCEPT !.ok = FALSE]
                ELSE [ok |-> TRUE, pos |-> i.pos,
                      extra |-> IF c.extra = <<>> THEN Span(c.pos, q) ELSE c.extra,
                      interfaces |-> Append(c.interfaces, i.settings)]
  IN IF config.interfaces > USB_MAXINTERFACES THEN [ok |-> FALSE, interfaces |-> <<>>, extra |-> <<>>]
     ELSE LET c == parse[config.interfaces]
          IN IF c.ok THEN [ok |-> TRUE, extra |-> c.extra, interfaces |-> c.interfaces]
             ELSE [ok |-> FALSE, interfaces |-> <<>>, extra |-> <<>>]

-----------------------------------------------------------------------------
(* What a configuration means, without a parser                            *)

Positions(descs, type) == {p \in DOMAIN descs : descs[p].type = type}

\* The latest of positions P before p, 0 if there is none.
Latest(P, p) == IF \A x \in P : x >= p THEN 0 ELSE CHOOSE x \in P : x < p /\ \A y \in P : y < p => y <= x

Sorted(P) == SetToSortSeq(P, LAMBDA x, y : x < y)

\* Descriptors of unknown types belong to the proper one before them.
Unknown(descs, p) ==
  Sorted({x \in Positions(descs, "other") :
            Latest(Positions(descs, "interface") \cup Positions(descs, "endpoint"), x) = p})

EndpointsOf(descs, p) == {e \in Positions(descs, "endpoint") : Latest(Positions(descs, "interface"), e) = p}

Setting(descs, p) ==
  LET eps == Sorted(EndpointsOf(descs, p))
  IN [at |-> p, extra |-> Unknown(descs, p),
      endpoints |-> [i \in DOMAIN eps |-> [at |-> eps[i], extra |-> Unknown(descs, eps[i])]]]

\* An interface is its setting 0 and the settings up to the next setting 0.
Defaults(descs) == {p \in Positions(descs, "interface") : descs[p].alt = 0}
SettingsOf(descs, p) == {x \in Positions(descs, "interface") : x = p \/ (x \notin Defaults(descs) /\ Latest(Defaults(descs), x) = p)}

Meaning(config) ==
  LET descs == config.descs
      firsts == Sorted(Defaults(descs))
  IN [ok |-> TRUE, extra |-> Unknown(descs, 0),
      interfaces |-> [i \in DOMAIN firsts |->
        LET settings == Sorted(SettingsOf(descs, firsts[i]))
        IN [j \in DOMAIN settings |-> Setting(descs, settings[j])]]]

\* The counts in the descriptors agree with what follows them.
WellFormed(config) ==
  LET descs == config.descs
  IN /\ \A p \in DOMAIN descs : descs[p].type \in {"interface", "endpoint", "other"} /\ descs[p].len >= 2
     /\ \A p \in Positions(descs, "interface") : descs[p].len >= 9
     /\ config.interfaces \in 1 .. USB_MAXINTERFACES
     /\ config.interfaces = Cardinality(Defaults(descs))
     /\ \A p \in Positions(descs, "interface") :
          /\ descs[p].count = Cardinality(EndpointsOf(descs, p))
          /\ p \in Defaults(descs) \/ Latest(Defaults(descs), p) # 0
     /\ \A e \in Positions(descs, "endpoint") : Latest(Positions(descs, "interface"), e) # 0
=============================================================================
