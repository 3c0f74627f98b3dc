--------------------------- MODULE MCUnixBackends ---------------------------
(* Instances of UnixBackends. *)
EXTENDS UnixBackends, TLC

CONSTANTS c, b

K(type, i, out, zero) == [type |-> type, itf |-> i, out |-> out, zero |-> zero]

\* A control transfer and a bulk transfer of the second interface.
OneOfEach == (c :> K("control", -1, FALSE, FALSE)) @@ (b :> K("bulk", 1, TRUE, FALSE))
OneEndpoint == (c :> K("interrupt", 1, FALSE, FALSE)) @@ (b :> K("bulk", 1, TRUE, FALSE))
TwoControls == (c :> K("control", -1, FALSE, FALSE)) @@ (b :> K("control", -1, TRUE, TRUE))

\* The second configuration lacks the second interface.
Configurations == (0 :> {}) @@ (1 :> {0, 1}) @@ (2 :> {0})
============================================================================
