------------------------- MODULE CniChainInvariant -------------------------
(***************************************************************************)
(* The inductive invariants behind the safety properties of CniChain.      *)
(***************************************************************************)
EXTENDS CniChain

(* The steps before a pod's veth exists, and before its rule does. *)
NoVethYet == {"off", "veth"} \cup IpvlanAdd
NoRuleYet == NoVethYet \cup {"host", "table", "routes"}
Routed    == {"masq", "marks", "nodeport", "up"}

(* What the control state says about addresses, attempts and routes. *)
Locals ==
    \A p \in Pod :
        /\ pc[p] \in {"addr", "veth"} => addr[p] # NoAddr
        /\ pc[p] = "link" /\ chained => addr[p] # NoAddr
        /\ pc[p] = "table" => tries[p] < MaxTries
        /\ pc[p] \notin {"table", "routes"} => tries[p] = 0
        /\ left[p] \subseteq Cidrs[p]

(* A veth lives in a namespace, and is set up and ruled in this order; the *)
(* host's route to an address leads to a veth of the pod that has it.      *)
Veths ==
    /\ \A p \in Pod :
        /\ p \in veth => netns[p]
        /\ pc[p] \in NoVethYet => p \notin veth
        /\ pc[p] \in NoRuleYet => rule[p] = NoTable
    /\ \A a \in Addr : hostRoute[a] # NoPod =>
        hostRoute[a] \in veth /\ addr[hostRoute[a]] = a

(* What an ADD has set up so far for a pod. *)
SetUpFor(p) ==
    /\ pc[p] \in PtpAdd \cup {"up"} => dev[p] = "bound"
    /\ pc[p] \in {"table", "routes"} \cup Routed =>
          p \in veth /\ addr[p] # NoAddr /\ hostRoute[addr[p]] = p
    /\ pc[p] = "routes" => \A d \in Cidrs[p] \ left[p] : via[table[p]][d] = p
    /\ pc[p] \in Routed =>
          rule[p] # NoTable /\ \A d \in Cidrs[p] : via[rule[p]][d] = p
    /\ ipMasq /\ pc[p] \in {"marks", "nodeport", "up"} => p \in chains
    /\ pc[p] \in {"nodeport", "up"} => marked
    /\ pc[p] = "nodeport" /\ saw[p] => npRule
    /\ pc[p] = "up" => npRule

SetUp == \A p \in Pod : netns[p] => SetUpFor(p)

(* With ipMasq, what a DEL has taken down so far. *)
TakenDown ==
    ipMasq => \A p \in Pod : netns[p] =>
        /\ pc[p] \in PtpDel \cup {"ptpdone"} => dev[p] = "bound"
        /\ pc[p] \in {"unrule", "unlink", "ptpdone", "unlinkdev", "done"} => p \notin chains
        /\ pc[p] \in {"unlink", "ptpdone", "unlinkdev", "done"} => rule[p] = NoTable
        /\ pc[p] \in {"ptpdone", "unlinkdev", "done"} => p \notin veth
        /\ pc[p] \in {"unlinkdev", "done"} /\ p \in leased => dev[p] = "bound"

(* An address is lent to one sandbox, and only to one that has a namespace *)
(* or is about to find out that it has none; and to none whose ADD still   *)
(* has to ask for one.                                                     *)
Leases ==
    /\ \A p, q \in leased : addr[p] = addr[q] => p = q
    /\ \A p \in leased : netns[p] \/ pc[p] = "link"
    /\ \A p \in Pod : pc[p] = "addr" \/ (pc[p] = "ipam" /\ ~chained) => netns[p]
    /\ \A p \in leased : pc[p] \notin {"off", "ipam"} /\ (pc[p] = "link" => chained)

(* With ipMasq, a sandbox that has a veth, or is on its way to or from     *)
(* having one, has its address.                                            *)
Holders ==
    ipMasq => \A p \in Pod :
        /\ p \in veth => p \in leased
        /\ netns[p] /\ pc[p] \in {"addr", "veth", "ptpdone"} => p \in leased
        /\ netns[p] /\ pc[p] = "link" /\ chained => p \in leased

ChainInv ==
    /\ TypeOK /\ Locals /\ Veths /\ SetUp
    /\ Leases /\ TakenDown /\ Holders

-----------------------------------------------------------------------------
(* A destination that is the first one of every pod's routes. *)
First(f) ==
    /\ f \in Dst
    /\ \A p \in Pod : f \in Cidrs[p] /\ \A d \in Cidrs[p] : f <= d

(* Whoever has the first route of a table has all of its routes: a pod    *)
(* that is adding routes to a table, or whose rule names it, has the first. *)
Claimed(f) ==
    /\ \A t \in Tables, d \in Dst : via[t][d] # NoPod => via[t][f] = via[t][d]
    /\ \A p \in Pod :
        /\ pc[p] = "routes" /\ f \notin left[p] => via[table[p]][f] = p
        /\ p \in veth /\ rule[p] # NoTable => via[rule[p]][f] = p
=============================================================================
