---------------------------- MODULE MCGoDevice -----------------------------
(* Instances of GoDevice for TLC: a device with two interfaces, or two     *)
(* devices of one kind in the ports of the same number of two hubs.        *)
EXTENDS GoDevice, TLC

CONSTANTS g1, g2, d1, d2

OnePort == d1 :> 1
OneNumber == (d1 :> 1) @@ (d2 :> 1)
============================================================================
