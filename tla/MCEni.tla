------------------------------- MODULE MCEni -------------------------------
(***************************************************************************)
(* Instances of Eni for TLC.                                               *)
(***************************************************************************)
EXTENDS EniInvariant, TLC

CONSTANTS h, c, e1, e2

(* The instance boots without a pod interface: both can be attached before *)
(* anything is removed, the second one while the metadata misses the first. *)
BootIndexes == {(e1 :> 0) @@ (e2 :> 0)}

Lives == (Limits :> 1) @@ (Subnets :> 0) @@ (Vpc :> 0)
=============================================================================
