--------------------------- MODULE MCIpamHistory ---------------------------
(***************************************************************************)
(* Instances of IpamHistory for TLC.                                       *)
(***************************************************************************)
EXTENDS IpamHistoryInvariant, TLC

CONSTANTS a1, a2, eth0, p1, p2

EniOfBoth == [ip \in IP |-> eth0]

PodSymmetry == Permutations(Pod)
=============================================================================
