------------------------ MODULE IpamHistoryInvariant ------------------------
(***************************************************************************)
(* What the history variables of IpamHistory have to do with the state of *)
(* Ipam: the invariants behind RestToTheSecond and ReapBudget.             *)
(***************************************************************************)
EXTENDS IpamHistory, IpamInvariant

(* An address that a DEL gave up and the instance kept is shown by the     *)
(* metadata, and its entry, if it has one, is not older than that.         *)
Resting ==
    /\ now >= Start
    /\ gaveUp \in [IP -> Nat]
    /\ \A ip \in IP : gaveUp[ip] > 0 =>
         /\ gaveUp[ip] <= now /\ ip \in ec2 \cap meta
         /\ regExists /\ Fresh(ip, gaveUp[ip])

(* An allocation does not come upon such an address, and an address that   *)
(* is about to be handed out has rested.                                   *)
Rested ==
    /\ pc = "locate" => \A ip \in On(eni, IP) \ base : gaveUp[ip] = 0
    /\ pc = "attach" => \A ip \in On(eni, IP) : gaveUp[ip] = 0
    /\ pc = "finish" => now > gaveUp[alloc] + Wait - (Second - 1)

(* A DEL that is still to mark its address as free has not unassigned it. *)
GivingUp ==
    /\ pc \in Deleting => stage[lock] \in {"deleting", "released", "off"}
    /\ pc = "deltrack" /\ stage[lock] = "deleting" =>
         SkipDeallocation /\ alloc \in ec2 \cap meta

(* While registry-gc runs, what it has taken off its budget is what EC2    *)
(* has lost since it began, but for a release that is being recorded.      *)
Reaping ==
    lock = Gc /\ MaxReap > 0 =>
        /\ reap >= 1 /\ ec2 \subseteq before
        /\ IsFiniteSet(before \ ec2)
        /\ Cardinality(before \ ec2) = MaxReap - reap + (IF pc = "gcforget" THEN 1 ELSE 0)

(* The inductive invariant of the histories, where deaths do not count. *)
HInv == IInv /\ Resting /\ Rested /\ GivingUp /\ Reaping
=============================================================================
