------------------------------ MODULE MCWinUsb ------------------------------
(* WinUsb with two interfaces of one device, and two transfers to it.     *)
EXTENDS WinUsb

\* Two WinUSB interfaces, a composite device that has both kinds of them, and
\* one whose HID interface is a keyboard and therefore comes last.
Plain == [composite |-> FALSE, api |-> [i \in Ifaces |-> "winusb"], restricted |-> {}]
Mixed == [composite |-> TRUE, api |-> [i \in Ifaces |-> IF i = 0 THEN "hid" ELSE "winusb"], restricted |-> {}]
Keyboard == [Mixed EXCEPT !.restricted = {0}]

\* One control transfer, the one with a timeout, or nothing but control transfers
MCSettings == {<<Plain, Timed>>, <<Mixed, Timed>>, <<Mixed, Transfers>>, <<Keyboard, Transfers>>}
MCIfaces == {0, 1}
MCTarget == [x \in Transfers |-> 0]
=============================================================================
