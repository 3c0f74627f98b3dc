--------------------------- MODULE MCUsbfsDevice ---------------------------
(***************************************************************************)
(* UsbfsDevice for TLC: a device with two configurations, on a kernel with *)
(* sysfs and on an old one with usbfs only.                                *)
(***************************************************************************)
EXTENDS UsbfsDevice

TwoConfigurations == 1 :> {0, 1} @@ 2 :> {0}

Config(value, total) == [len |-> 9, type |-> "config", value |-> value, total |-> total]
Other(n) == [len |-> n, type |-> "other", value |-> 0, total |-> 0]

\* In sysfs configurations follow each other, whatever they say is their length.
SysfsFile(v1, v2, total) ==
    [sysfs |-> TRUE, disconnectClaim |-> TRUE, size |-> 25, values |-> <<v1, v2>>,
     at |-> 0 :> Config(v1, total) @@ 9 :> Other(7) @@ 16 :> Config(v2, 9)]

\* In usbfs they are wTotalLength apart, and the last one may be cut off.
UsbfsFile(v1, v2, size) ==
    [sysfs |-> FALSE, disconnectClaim |-> FALSE, size |-> size, values |-> <<v1, v2>>,
     at |-> 0 :> Config(v1, 18) @@ 9 :> Other(7) @@ 18 :> Config(v2, 16) @@ 27 :> Other(7)]

NewAndOld == {SysfsFile(2, 1, 20), UsbfsFile(1, 2, 30)}

Symmetry == Permutations(Thread) \cup Permutations(Handle)
============================================================================
