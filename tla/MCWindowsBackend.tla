-------------------------- MODULE MCWindowsBackend --------------------------
(* Instances of WindowsBackend. *)
EXTENDS WindowsBackend, TLC

CONSTANTS c, b

\* A control transfer and a bulk transfer of the second interface.
OneOfEach == (c :> -1) @@ (b :> 1)
TwoControls == (c :> -1) @@ (b :> -1)
OneEndpoint == (c :> 1) @@ (b :> 1)
============================================================================
