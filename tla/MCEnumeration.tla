---------------------------- MODULE MCEnumeration ----------------------------
(***************************************************************************)
(* A root hub with one device that has an interface of its own, or with    *)
(* another device beside it.                                               *)
(***************************************************************************)
EXTENDS Enumeration, TLC

OneDevice == {"root", "d1", "itf"}
TwoDevices == OneDevice \cup {"d2"}
Tree == [n \in Node |-> CASE n = "root" -> <<>> [] n = "itf" -> <<"d1", "root">>
                           [] OTHER -> <<"root">>]
Kinds == [n \in Node |-> CASE n = "root" -> "hub" [] n = "itf" -> "interface"
                            [] OTHER -> "device"]
Threads == Permutations(Thread)
=============================================================================
