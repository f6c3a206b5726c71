---------------------------- MODULE MCCniChain ----------------------------
(***************************************************************************)
(* Instances of CniChain for TLC.                                          *)
(***************************************************************************)
EXTENDS CniChainInvariant, TLC

CONSTANTS p1, p2, a1, a2

(* The routes of both pods have the first destination in common. *)
SharedCidrs == (p1 :> {1, 2}) @@ (p2 :> {1})

(* The first destination is not among the routes of the second pod. *)
FewerCidrs == (p1 :> {1, 2}) @@ (p2 :> {2})

AllConfigs == [chained : BOOLEAN, ipMasq : BOOLEAN]
ExampleConfig == {[chained |-> TRUE, ipMasq |-> TRUE]}
=============================================================================
