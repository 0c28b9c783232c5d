---------------------------- MODULE MCUsbDevices ----------------------------
(* UsbDevices with a root hub, a hub in its port 2 and a device in port 1   *)
(* of the hub; readdir() gives the device first.                           *)
EXTENDS UsbDevices
CONSTANTS a, b, root, hub, leaf

MCHub == [d \in Dirs |-> CASE d = root -> NoDir [] d = hub -> root [] OTHER -> hub]
MCPort == [d \in Dirs |-> CASE d = root -> 0 [] d = hub -> 2 [] OTHER -> 1]
MCFirstAddr == [d \in Dirs |-> CASE d = root -> 1 [] d = hub -> 2 [] OTHER -> 3]
MCRank == [d \in Dirs |-> CASE d = root -> 2 [] d = hub -> 3 [] OTHER -> 1]
MCPathLens == [m \in {"sysfs", "nodes", "usbfs", "names"} |-> IF m = "sysfs" THEN {1, 2} ELSE {2}]
MCGoals == [m \in {"sysfs", "nodes", "usbfs", "names"} |-> [t \in Threads |->
             IF t = a THEN {"list"} ELSE IF m = "sysfs" THEN {"vid_pid", "path"} ELSE {"vid_pid"}]]

Full == {"busnum", "devnum", "bConfigurationValue", "descriptors"}
Modern == [nodes |-> {"/dev/bus/usb"}, hubs |-> {Full}]
Broken == [nodes |-> {"/proc/bus/usb"}, hubs |-> {Full \ {"devnum"}, {}}]
Android == [nodes |-> {"/dev/usbdev"}, hubs |-> {}]
MCSystems == {Modern, Broken, Android}
MCOldSystems == {[nodes |-> {"/proc/bus/usb"}, hubs |-> {Full \ {"descriptors"}, {}}]}
=============================================================================
