------------------------------ MODULE MCIpam ------------------------------
(***************************************************************************)
(* Instances of Ipam for TLC.                                              *)
(***************************************************************************)
EXTENDS IpamInvariant, TLC

CONSTANTS a1, a2, a3, eth0, eth1, p1, p2

EniOf2 == (a1 :> eth0) @@ (a2 :> eth0)
EniOfEach == (a1 :> eth0) @@ (a2 :> eth1)
EniOf3 == (a1 :> eth0) @@ (a2 :> eth1) @@ (a3 :> eth1)

PodSymmetry == Permutations(Pod)
=============================================================================
