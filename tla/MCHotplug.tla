----------------------------- MODULE MCHotplug -----------------------------
(***************************************************************************)
(* Hotplug for TLC: devices differ in their product, callbacks ask for all *)
(* devices or for one product.                                             *)
(***************************************************************************)
EXTENDS Hotplug

Desc(p) == [vendor |-> 1, product |-> p, class |-> 1]
Descriptors == [d \in Device |-> Desc(d)]
Filters == {[vendor |-> MatchAny, product |-> MatchAny, class |-> MatchAny],
            [vendor |-> 1, product |-> 2, class |-> MatchAny]}
============================================================================
