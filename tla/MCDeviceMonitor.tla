--------------------------- MODULE MCDeviceMonitor ---------------------------
(***************************************************************************)
(* DeviceMonitor for TLC: the contexts are interchangeable.                *)
(***************************************************************************)
EXTENDS DeviceMonitor, TLC

Contexts == Permutations(Ctx)
==============================================================================
