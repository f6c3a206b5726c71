----------------------------- MODULE CniChain -----------------------------
(***************************************************************************)
(* The chain of plugins that the container runtime calls for a sandbox:   *)
(* the IPAM plugin, the ipvlan plugin (plugin/ipvlan) and unnumbered-ptp. *)
(* ADD runs them in this order and DEL in the reverse one.  When ipvlan   *)
(* is configured with an ipam block it runs the IPAM plugin itself.       *)
(*                                                                         *)
(* The IPAM plugin appears as what Ipam shows of it: it lends an address  *)
(* that no sandbox has, and DEL takes back the one it finds configured.   *)
(***************************************************************************)
EXTENDS PolicyRouting

CONSTANTS
    Configs,        \* configurations of the chain: [chained, ipMasq : BOOLEAN]
    NsOutlivesDel   \* the runtime keeps a namespace until its DEL succeeds

ASSUME ConfigAssumption ==
    /\ Configs \subseteq [chained : BOOLEAN, ipMasq : BOOLEAN]
    /\ NsOutlivesDel \in BOOLEAN

VARIABLES
    chained,    \* the IPAM plugin is in the list, not in ipvlan's ipam block
    leased      \* sandboxes whose address the IPAM plugin considers lent

vars == <<ptpVars, chained, leased>>

IpvlanAdd == {"ipam", "link", "addr"}

(* The sandboxes a runtime is done with, or has to call DEL for. *)
Ending == {"failed", "undeleted", "done"} \cup PtpDel \cup {"ptpdone", "unlinkdev"}

Labels == {"off", "up"} \cup IpvlanAdd \cup PtpAdd \cup Ending

-----------------------------------------------------------------------------
(* ADD.                                                                    *)

(* The runtime creates a sandbox and calls the first plugin. *)
AddBegin(p) ==
    /\ pc[p] = "off"
    /\ netns' = [netns EXCEPT ![p] = TRUE]
    /\ Goto(p, IF chained THEN "ipam" ELSE "link")
    /\ UNCHANGED <<dev, addr, kernel, choice, faults, ipMasq, chained, leased>>

(* An ADD that ends before the address is configured leaves it to no one. *)
ChainError(p) ==
    /\ Goto(p, "failed")
    /\ leased' = leased \ {p}
    /\ UNCHANGED <<dev, addr>>

(* MUTANT: only addresses that are configured count as lent. *)
IpamAddUnbound(p) ==
    /\ pc[p] = "ipam"
    /\ LET free == {a \in Addr : \A q \in leased : dev[q] = "bound" => addr[q] # a}
       IN  \/ /\ \E a \in free : addr' = [addr EXCEPT ![p] = a]
              /\ leased' = leased \cup {p}
              /\ Goto(p, IF chained THEN "link" ELSE "addr")
              /\ UNCHANGED dev
           \/ free = {} /\ ChainError(p)
    /\ UNCHANGED <<netns, kernel, choice, faults, ipMasq, chained>>

(* The IPAM plugin's ADD. *)
IpamAdd(p) ==
    /\ pc[p] = "ipam"
    /\ LET free == {a \in Addr : \A q \in leased : addr[q] # a}
       IN  \/ /\ \E a \in free : addr' = [addr EXCEPT ![p] = a]
              /\ leased' = leased \cup {p}
              /\ Goto(p, IF chained THEN "link" ELSE "addr")
              /\ UNCHANGED dev
           \/ free = {} /\ ChainError(p)
    /\ UNCHANGED <<netns, kernel, choice, faults, ipMasq, chained>>

(* createIpvlan, in a namespace that is kept open until the plugin ends. *)
CreateIpvlan(p) ==
    /\ pc[p] = "link"
    /\ \/ /\ netns[p]
          /\ dev' = [dev EXCEPT ![p] = "made"]
          /\ Goto(p, IF chained THEN "addr" ELSE "ipam")
          /\ UNCHANGED <<addr, leased>>
       \/ ~netns[p] /\ ChainError(p)
    /\ UNCHANGED <<netns, kernel, choice, faults, ipMasq, chained>>

ConfigureIface(p) ==
    /\ pc[p] = "addr"
    /\ dev' = [dev EXCEPT ![p] = "bound"]
    /\ Goto(p, "veth")
    /\ UNCHANGED <<netns, addr, kernel, choice, faults, ipMasq, chained, leased>>

(* The address is configured, and a later part of ConfigureIface or of the *)
(* plugin fails: it stays configured, and lent.                            *)
ConfigureFails(p) ==
    /\ pc[p] = "addr"
    /\ Fault
    /\ dev' = [dev EXCEPT ![p] = "bound"]
    /\ Goto(p, "failed")
    /\ UNCHANGED <<netns, addr, kernel, choice, ipMasq, chained, leased>>

ChainFault(p) ==
    /\ pc[p] \in IpvlanAdd
    /\ Fault
    /\ ChainError(p)
    /\ UNCHANGED <<netns, kernel, choice, ipMasq, chained>>

-----------------------------------------------------------------------------
(* DEL, after unnumbered-ptp.                                              *)

(* The IPAM plugin's DEL takes back the address it finds in the namespace, *)
(* whoever it is lent to by now.  A DEL that never gets the lock does      *)
(* nothing, and ends without an error all the same.                        *)
IpamDel(p) ==
    /\ pc[p] = "ptpdone"
    /\ \/ /\ leased' = IF netns[p] /\ dev[p] = "bound"
                       THEN {q \in leased : addr[q] # addr[p]} ELSE leased
          /\ UNCHANGED faults
       \/ Fault /\ UNCHANGED leased
    /\ Goto(p, IF chained THEN "done" ELSE "unlinkdev")
    /\ UNCHANGED <<netns, dev, addr, kernel, choice, ipMasq, chained>>

(* ipvlan with a master of its own removes the device, if it is there, and *)
(* an address that is configured nowhere is no one's; the namespace may be *)
(* gone by now, which is an error.                                         *)
DelDevice(p) ==
    /\ pc[p] = "unlinkdev"
    /\ dev' = [dev EXCEPT ![p] = "none"]
    /\ leased' = leased \ {p}
    /\ Goto(p, IF netns[p] THEN "done" ELSE "undeleted")
    /\ UNCHANGED <<netns, addr, kernel, choice, faults, ipMasq, chained>>

ChainDelFault(p) ==
    /\ pc[p] \in {"ptpdone", "unlinkdev"}
    /\ Fault
    /\ DelError(p)
    /\ UNCHANGED <<netns, dev, addr, ipMasq, chained, leased>>

-----------------------------------------------------------------------------
(* The runtime.                                                            *)

(* A plugin's ADD keeps the namespace open from its first step on. *)
KeptOpen(p) == pc[p] \in (PtpAdd \ {"veth"}) \cup {"addr"} \/ (pc[p] = "ipam" /\ ~chained)

(* A namespace goes, and with it all that is inside; the rule that names   *)
(* the veth stays.                                                         *)
RemoveNetns(p) ==
    /\ netns[p] /\ ~KeptOpen(p)
    /\ NsOutlivesDel => pc[p] = "done"
    /\ netns' = [netns EXCEPT ![p] = FALSE]
    /\ dev' = [dev EXCEPT ![p] = "none"]
    /\ leased' = leased \ {p}
    /\ DropVeth(p)
    /\ UNCHANGED <<addr, rule, dangling, chains, marked, npRule, pc, choice, faults, ipMasq, chained>>

(* The sandbox is forgotten.  What is left of it outside its namespace     *)
(* stays: a rule keeps its table from being chosen, a chain is no one's.   *)
Forget(p) ==
    /\ pc[p] = "done" /\ ~netns[p]
    /\ Goto(p, "off")
    /\ addr' = [addr EXCEPT ![p] = NoAddr]
    /\ dangling' = dangling \cup ({rule[p]} \ {NoTable})
    /\ rule' = [rule EXCEPT ![p] = NoTable]
    /\ chains' = chains \ {p}
    /\ UNCHANGED <<netns, dev, veth, hostRoute, via, marked, npRule, choice, faults, ipMasq, chained, leased>>

Ptp(p) == PtpStep(p) /\ UNCHANGED <<chained, leased>>

(* DEL is called for a pod that ends, and again whenever it failed. *)
CallDel(p) == DelLookup(p) /\ UNCHANGED <<chained, leased>>

Plugin(p) ==
    \/ Ptp(p)
    \/ IpamAdd(p) \/ CreateIpvlan(p) \/ ConfigureIface(p) \/ ConfigureFails(p)
    \/ ChainFault(p)
    \/ IpamDel(p) \/ DelDevice(p) \/ ChainDelFault(p)

Init ==
    /\ PtpInit
    /\ \E c \in Configs : chained = c.chained /\ ipMasq = c.ipMasq
    /\ leased = {}

Next == \E p \in Pod : Plugin(p) \/ AddBegin(p) \/ CallDel(p) \/ RemoveNetns(p) \/ Forget(p)

Spec == Init /\ [][Next]_vars

(* A plugin that was called keeps running; the runtime calls DEL for an   *)
(* ADD that failed and repeats a DEL that failed, and it takes the         *)
(* namespace of such a sandbox down and forgets it.                        *)
Fairness ==
    \A p \in Pod :
        /\ WF_vars(Plugin(p))
        /\ WF_vars(CallDel(p) /\ pc[p] # "up")
        /\ WF_vars(RemoveNetns(p) /\ pc[p] \in Ending)
        /\ WF_vars(Forget(p))

FairSpec == Spec /\ Fairness

-----------------------------------------------------------------------------
(* Types, and what the control state says about the rest. *)
TypeOK ==
    /\ netns \in [Pod -> BOOLEAN]
    /\ dev \in [Pod -> {"none", "made", "bound"}]
    /\ addr \in [Pod -> Addr \cup {NoAddr}]
    /\ veth \subseteq Pod /\ chains \subseteq Pod /\ leased \subseteq Pod
    /\ hostRoute \in [Addr -> Pod \cup {NoPod}]
    /\ via \in [Tables -> [Dst -> Pod \cup {NoPod}]]
    /\ rule \in [Pod -> Tables \cup {NoTable}]
    /\ dangling \subseteq Tables
    /\ marked \in BOOLEAN /\ npRule \in BOOLEAN
    /\ pc \in [Pod -> Labels]
    /\ table \in [Pod -> Tables \cup {NoTable}]
    /\ left \in [Pod -> SUBSET Dst]
    /\ tries \in [Pod -> 0 .. MaxTries] /\ saw \in [Pod -> BOOLEAN]
    /\ faults \in 0 .. MaxFaults
    /\ ipMasq \in BOOLEAN /\ chained \in BOOLEAN
    /\ \A p \in Pod : pc[p] = "routes" => table[p] # NoTable
    /\ \A p \in Pod : pc[p] \in PtpAdd \ {"veth"} => p \in veth /\ addr[p] # NoAddr

(* A pod's own table: addPolicyRules runs outside any lock, and yet the    *)
(* table that the rule for a pod's veth names has routes of that pod only, *)
(* so that its traffic never leaves through the veth of another.           *)
TableExclusive ==
    \A p \in veth : rule[p] # NoTable =>
        \A d \in Dst : via[rule[p]][d] \in {p, NoPod}

(* An ADD that succeeded has set everything up, whatever other ADDs and    *)
(* DELs did at the same time: while its namespace exists the pod has its   *)
(* device, the host's route to its address leads to it, its table has all *)
(* of its routes, and masquerading and NodePort marks are in place.        *)
UpComplete ==
    \A p \in Pod : pc[p] = "up" /\ netns[p] =>
        /\ p \in veth /\ dev[p] = "bound"
        /\ hostRoute[addr[p]] = p
        /\ rule[p] # NoTable
        /\ \A d \in Cidrs[p] : via[rule[p]][d] = p
        /\ ipMasq => p \in chains
        /\ marked /\ npRule

(* The host sends no packet to a sandbox whose address may be another's:   *)
(* with ipMasq, DEL removes the veth, and with it the host's route, before *)
(* the IPAM plugin takes the address back.                                 *)
RouteToHolder ==
    ipMasq => \A a \in Addr : hostRoute[a] # NoPod =>
        /\ hostRoute[a] \in leased
        /\ addr[hostRoute[a]] = a

(* A DEL that succeeded in an existing namespace of a chain with ipMasq    *)
(* leaves no rule, no veth and no chain behind outside it.  If the IPAM    *)
(* plugin never got its lock the address stays lent, but then it is still  *)
(* configured, where later scans see it.                                   *)
DelClean ==
    \A p \in Pod : ipMasq /\ pc[p] = "done" /\ netns[p] =>
        /\ rule[p] = NoTable /\ p \notin veth \cup chains
        /\ p \in leased => dev[p] = "bound"

(* With ipMasq the IPAM plugin's DEL, which looks at an address and not at *)
(* who has it, ends the lease of no other sandbox, however often DEL was  *)
(* called before and wherever it failed.                                   *)
OwnLeaseOnly ==
    [][ipMasq => \A p \in Pod : IpamDel(p) => leased \ {p} \subseteq leased']_vars

(* What the chain makes of the IPAM plugin's promise: the addresses that   *)
(* are lent, from the plugin's ADD to its DEL, the end of the namespace or *)
(* the error that ends the ADD, are lent as AddressLease says.             *)
Lease == INSTANCE AddressLease
    WITH IP <- Addr, BootIP <- Addr, assigned <- Addr,
         holders <- [a \in Addr |-> {p \in leased : addr[p] = a}]

LeaseSpec == Lease!Spec

(* Delete can be called multiple times: a sandbox whose ADD or DEL failed  *)
(* is deleted in the end, as DEL is repeated.                              *)
SandboxEnds == \A p \in Pod : pc[p] \in {"failed", "undeleted"} ~> pc[p] = "off"
=============================================================================
