---------------------------- MODULE IpamHistory ----------------------------
(***************************************************************************)
(* Ipam with history variables, for the properties that relate a step to  *)
(* an earlier one: how long an address rests between two pods, and how    *)
(* many addresses one run of registry-gc releases.                        *)
(***************************************************************************)
EXTENDS Ipam

CONSTANT CountDeaths  \* whether the loss of a sandbox that no DEL saw counts

VARIABLES
    gaveUp,   \* when the last pod that had an address gave it up, if the
              \* instance has kept the address since
    before    \* the assigned addresses when registry-gc began

history == <<gaveUp, before>>

HInit ==
    /\ Init
    /\ gaveUp = [ip \in IP |-> 0]
    /\ before = {}

(* A DEL marks the address as free, or the pod that had it bound loses it. *)
GivesUp(ip) ==
    \/ pc = "deltrack" /\ alloc = ip /\ stage[lock] = "deleting" /\ stage'[lock] # "deleting"
    \/ /\ CountDeaths
       /\ \E p \in Pod : stage[p] \in {"up", "deleting"} /\ addr[p] = ip /\ ~Owns(p, ip)'

HNext ==
    /\ Next
    /\ gaveUp' = [ip \in IP |-> IF ip \notin ec2' THEN 0
                                ELSE IF GivesUp(ip) THEN now ELSE gaveUp[ip]]
    /\ before' = IF pc = "idle" /\ pc' = "gcassigned" THEN ec2
                 ELSE IF pc' = "idle" THEN {} ELSE before

HSpec == HInit /\ [][HNext]_<<vars, history>>

(* A pod is handed an address. *)
HandedOut(p) == stage[p] # "handoff" /\ stage'[p] = "handoff"

(* "Free IP addresses are made available for reuse by Pods after being     *)
(* unused for at least" ReuseIPWait seconds: what cmdAdd's TrackedBefore   *)
(* makes of the time that cmdDel's TrackIP recorded.                       *)
RestPeriod ==
    [][\A p \in Pod : HandedOut(p) => now >= gaveUp[addr'[p]] + Wait]_<<vars, history>>

(* What holds although MarshalJSON drops the fractions of a second: what   *)
(* an address that cmdDel gave up lacks of this rest, when cmdAdd hands it *)
(* to another pod, is less than a second.                                  *)
RestToTheSecond ==
    [][\A p \in Pod : HandedOut(p) =>
          now > gaveUp[addr'[p]] + Wait - (Second - 1)]_<<vars, history>>

(* One run of registry-gc (actionRegistryGc) releases at most max-reap     *)
(* addresses, whatever fails or is in use on the way.                      *)
ReapBudget ==
    lock = Gc /\ MaxReap >= 0 => Cardinality(before \ ec2) <= MaxReap
=============================================================================
