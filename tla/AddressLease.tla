---------------------------- MODULE AddressLease ----------------------------
(***************************************************************************)
(* What the address manager promises the pods of an instance, without the *)
(* registry, the clock, the metadata or the lock: an address is lent to   *)
(* one pod at a time, only while EC2 has assigned it to the instance, and *)
(* goes back to EC2 only when no pod has it or the one that has it gives  *)
(* it up.                                                                  *)
(***************************************************************************)
CONSTANTS IP, Pod, BootIP

VARIABLES
    assigned,  \* addresses assigned to the instance
    holders    \* the pods that have each address

lease == <<assigned, holders>>

Init ==
    /\ assigned = BootIP
    /\ holders = [ip \in IP |-> {}]

Assign(new) ==
    /\ assigned' = assigned \cup new
    /\ UNCHANGED holders

Unassign(ip) ==
    /\ holders[ip] = {}
    /\ assigned' = assigned \ {ip}
    /\ UNCHANGED holders

Lend(p, ip) ==
    /\ ip \in assigned
    /\ holders[ip] = {}
    /\ holders' = [holders EXCEPT ![ip] = {p}]
    /\ UNCHANGED assigned

(* The address stays with the instance, or goes back to EC2 with it. *)
GiveBack(p, ip) ==
    /\ p \in holders[ip]
    /\ holders' = [holders EXCEPT ![ip] = @ \ {p}]
    /\ assigned' \in {assigned, assigned \ {ip}}

Next ==
    \/ \E new \in SUBSET IP : Assign(new)
    \/ \E ip \in IP : Unassign(ip)
    \/ \E p \in Pod, ip \in IP : Lend(p, ip) \/ GiveBack(p, ip)

Spec == Init /\ [][Next]_lease
=============================================================================
