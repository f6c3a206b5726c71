--------------------------- MODULE PolicyRouting ---------------------------
(***************************************************************************)
(* The unnumbered-ptp plugin (plugin/unnumbered-ptp) and the part of the  *)
(* kernel it configures: a veth pair per pod, a host route to the pod, a  *)
(* routing table of its own with a rule that leads to it, a masquerading  *)
(* chain, and the NodePort marks that all pods share.                      *)
(*                                                                         *)
(* The plugin takes no lock: the ADDs and DELs of different pods          *)
(* interleave at every netlink call.                                       *)
(***************************************************************************)
EXTENDS Integers, FiniteSets

CONSTANTS
    Pod, NoPod,     \* pod sandboxes
    Addr, NoAddr,   \* pod addresses
    Dst,            \* destinations, numbered in the order of their CIDR strings
    Cidrs,          \* the destinations of the routes each pod's IPAM result has
    Tables, NoTable,\* routing tables from TableStart on
    Jitter,         \* largest jitter of the first table tried
    MaxTries,       \* attempts to write to an empty table
    MaxFaults       \* bound on the errors that system calls return

ASSUME RouteAssumption ==
    /\ NoPod \notin Pod
    /\ NoAddr \notin Addr
    /\ Dst \subseteq Nat
    /\ Cidrs \in [Pod -> SUBSET Dst]

ASSUME TableAssumption ==
    /\ Tables \subseteq Nat
    /\ NoTable \notin Tables
    /\ Jitter \in Nat /\ MaxTries \in Nat \ {0} /\ MaxFaults \in Nat

VARIABLES
    netns,      \* whether a sandbox's namespace exists
    dev,        \* its ipvlan device: none, made, or bound to its address
    addr,       \* the address of the chain's result
    veth,       \* sandboxes whose veth pair exists
    hostRoute,  \* per address, the sandbox whose veth the main table sends it to
    via,        \* per table and destination, the sandbox whose veth it goes to
    rule,       \* the table that the rule for a sandbox's veth names
    dangling,   \* tables named by rules of sandboxes that are no more
    chains,     \* sandboxes with a masquerading chain
    marked,     \* the NodePort marks are in the mangle table
    npRule,     \* the NodePort rule exists
    pc,         \* next step of the plugin that is run for a sandbox
    table,      \* addPolicyRules: the table chosen
    left,       \* ... routes that are not in it yet
    tries,      \* ... attempts made
    saw,        \* setupNodePortRule: whether its RuleList had the rule
    faults,     \* errors that may still occur
    ipMasq      \* the configuration's ipMasq

kernel  == <<veth, hostRoute, via, rule, dangling, chains, marked, npRule>>
choice  == <<table, left, tries, saw>>
ptpVars == <<netns, dev, addr, kernel, pc, choice, faults, ipMasq>>

PtpAdd == {"veth", "host", "table", "routes", "masq", "marks", "nodeport"}
PtpDel == {"unmasq", "unrule", "unlink"}

-----------------------------------------------------------------------------
Goto(p, label) == pc' = [pc EXCEPT ![p] = label]

(* The process ends, and with it its local variables. *)
LocalsEnd(p) ==
    /\ table' = [table EXCEPT ![p] = NoTable]
    /\ left' = [left EXCEPT ![p] = {}]
    /\ tries' = [tries EXCEPT ![p] = 0]
    /\ saw' = [saw EXCEPT ![p] = FALSE]

(* The plugin returns an error; what it did stays. *)
AddError(p) == Goto(p, "failed") /\ LocalsEnd(p) /\ UNCHANGED kernel
DelError(p) == Goto(p, "undeleted") /\ UNCHANGED <<kernel, choice>>

Fault == faults > 0 /\ faults' = faults - 1

(* The devices of a veth pair go, and with them the routes through it.  A  *)
(* rule that names a device stays.                                         *)
DropVeth(p) ==
    /\ veth' = veth \ {p}
    /\ hostRoute' = [a \in Addr |-> IF hostRoute[a] = p THEN NoPod ELSE hostRoute[a]]
    /\ via' = [t \in Tables |-> [d \in Dst |-> IF via[t][d] = p THEN NoPod ELSE via[t][d]]]

-----------------------------------------------------------------------------
(* ADD.  The plugin keeps the namespace open until it returns, so neither *)
(* it nor the veth can go away in between.                                 *)

(* setupContainerVeth; forwarding, source NAT and routes inside the        *)
(* namespace go when it goes.                                              *)
SetupContainerVeth(p) ==
    /\ pc[p] = "veth"
    /\ IF netns[p] THEN /\ veth' = veth \cup {p}
                        /\ Goto(p, "host")
                        /\ UNCHANGED <<hostRoute, via, rule, dangling, chains, marked, npRule, choice>>
                   ELSE AddError(p)
    /\ UNCHANGED <<netns, dev, addr, faults, ipMasq>>

(* setupHostVeth: a route to the pod's address in the main table, unless  *)
(* that still has one.                                                     *)
AddHostRoute(p) ==
    /\ pc[p] = "host"
    /\ IF hostRoute[addr[p]] = NoPod
       THEN /\ hostRoute' = [hostRoute EXCEPT ![addr[p]] = p]
            /\ Goto(p, "table")
            /\ UNCHANGED <<veth, via, rule, dangling, chains, marked, npRule, choice>>
       ELSE AddError(p)
    /\ UNCHANGED <<netns, dev, addr, faults, ipMasq>>

-----------------------------------------------------------------------------
(* addPolicyRules.                                                         *)

(* The tables that rules name. *)
Allocated == dangling \cup {rule[q] : q \in Pod}

(* findFreeTable: the first table from one on that no rule names. *)
FreeFrom(start) ==
    {t \in Tables : /\ t >= start
                    /\ t \notin Allocated
                    /\ \A u \in Tables : start <= u /\ u < t => u \in Allocated}

TableStart == CHOOSE t \in Tables : \A u \in Tables : t <= u

FindFreeTable(p) ==
    /\ pc[p] = "table"
    /\ \E j \in 0 .. Jitter :
         \/ \E t \in FreeFrom(TableStart + j) :
              /\ table' = [table EXCEPT ![p] = t]
              /\ left' = [left EXCEPT ![p] = Cidrs[p]]
              /\ tries' = [tries EXCEPT ![p] = @ + 1]
              /\ Goto(p, "routes")
              /\ UNCHANGED <<kernel, saw>>
         \/ FreeFrom(TableStart + j) = {} /\ AddError(p)
    /\ UNCHANGED <<netns, dev, addr, faults, ipMasq>>

(* MUTANT: the routes are added in the order the result lists them. *)
NextRoutesUnsorted(p) == left[p]

(* The route to add next: they are sorted by destination. *)
NextRoutes(p) == {d \in left[p] : \A e \in left[p] : d <= e}

(* The kernel takes a route for a destination the table does not have. *)
RouteFits(p, d) == via[table[p]][d] = NoPod

RouteAdd(p) ==
    /\ pc[p] = "routes"
    /\ \E d \in NextRoutes(p) :
         /\ RouteFits(p, d)
         /\ via' = [via EXCEPT ![table[p]][d] = p]
         /\ left' = [left EXCEPT ![p] = @ \ {d}]
    /\ UNCHANGED <<netns, dev, addr, veth, hostRoute, rule, dangling, chains, marked, npRule,
                   pc, table, tries, saw, faults, ipMasq>>

(* MUTANT: one attempt too many. *)
MayRetryOver(p) == tries[p] <= MaxTries

MayRetry(p) == tries[p] < MaxTries

(* A route is refused: another table is tried, up to a number of times, and *)
(* the routes added so far stay in this one.                               *)
RouteRefused(p) ==
    /\ pc[p] = "routes"
    /\ \E d \in NextRoutes(p) :
         \/ ~RouteFits(p, d) /\ UNCHANGED faults
         \/ Fault
    /\ \/ /\ MayRetry(p)
          /\ Goto(p, "table")
          /\ table' = [table EXCEPT ![p] = NoTable]
          /\ left' = [left EXCEPT ![p] = {}]
          /\ UNCHANGED <<kernel, tries, saw>>
       \/ ~MayRetry(p) /\ AddError(p)
    /\ UNCHANGED <<netns, dev, addr, ipMasq>>

(* MUTANT: the rule is added before the routes are. *)
RuleAddEarly(p) ==
    /\ pc[p] = "routes"
    /\ rule' = [rule EXCEPT ![p] = table[p]]
    /\ LocalsEnd(p)
    /\ Goto(p, IF ipMasq THEN "masq" ELSE "marks")
    /\ UNCHANGED <<netns, dev, addr, veth, hostRoute, via, dangling, chains, marked, npRule,
                   faults, ipMasq>>

(* All routes are in: the rule for the pod's veth names the table. *)
RuleAdd(p) ==
    /\ pc[p] = "routes"
    /\ left[p] = {}
    /\ rule' = [rule EXCEPT ![p] = table[p]]
    /\ LocalsEnd(p)
    /\ Goto(p, IF ipMasq THEN "masq" ELSE "marks")
    /\ UNCHANGED <<netns, dev, addr, veth, hostRoute, via, dangling, chains, marked, npRule,
                   faults, ipMasq>>

-----------------------------------------------------------------------------
(* Masquerading, and setupNodePortRule.                                    *)

SetupIPMasq(p) ==
    /\ pc[p] = "masq"
    /\ chains' = chains \cup {p}
    /\ Goto(p, "marks")
    /\ UNCHANGED <<netns, dev, addr, veth, hostRoute, via, rule, dangling, marked, npRule,
                   choice, faults, ipMasq>>

(* The marks are appended unless they are there; then the rules are read. *)
MarkNodePorts(p) ==
    /\ pc[p] = "marks"
    /\ marked' = TRUE
    /\ saw' = [saw EXCEPT ![p] = npRule]
    /\ Goto(p, "nodeport")
    /\ UNCHANGED <<netns, dev, addr, veth, hostRoute, via, rule, dangling, chains, npRule,
                   table, left, tries, faults, ipMasq>>

(* A rule that was not there is added; the kernel refuses a second one. *)
AddNodePortRule(p) ==
    /\ pc[p] = "nodeport"
    /\ npRule' = TRUE
    /\ Goto(p, IF npRule /\ ~saw[p] THEN "failed" ELSE "up")
    /\ LocalsEnd(p)
    /\ UNCHANGED <<netns, dev, addr, veth, hostRoute, via, rule, dangling, chains, marked,
                   faults, ipMasq>>

(* Any other call may fail, and with it the ADD. *)
AddFault(p) ==
    /\ pc[p] \in PtpAdd
    /\ pc[p] = "routes" => left[p] = {}
    /\ Fault
    /\ AddError(p)
    /\ UNCHANGED <<netns, dev, addr, ipMasq>>

-----------------------------------------------------------------------------
(* DEL.                                                                    *)

(* MUTANT: the namespace is looked up even when there is none. *)
DelLookupStrict(p) ==
    /\ pc[p] \in {"up", "failed", "undeleted"}
    /\ Goto(p, IF ~ipMasq THEN "ptpdone"
               ELSE IF netns[p] /\ p \in veth /\ dev[p] = "bound" THEN "unmasq"
               ELSE "undeleted")
    /\ UNCHANGED <<netns, dev, addr, kernel, choice, faults, ipMasq>>

(* The runtime passes an empty path once the namespace is gone, and then   *)
(* there is nothing to do, here and in the rest of the chain.  (That it    *)
(* does is an assumption: opening the path of a namespace that is gone     *)
(* would be an error.)  Without ipMasq this plugin has nothing to do.      *)
(* Else the veth's peer and the pod's address are read inside the          *)
(* namespace, and it is an error if either is missing.                     *)
DelLookup(p) ==
    /\ pc[p] \in {"up", "failed", "undeleted"}
    /\ Goto(p, IF ~netns[p] THEN "done"
               ELSE IF ~ipMasq THEN "ptpdone"
               ELSE IF p \in veth /\ dev[p] = "bound" THEN "unmasq"
               ELSE "undeleted")
    /\ UNCHANGED <<netns, dev, addr, kernel, choice, faults, ipMasq>>

(* MUTANT: the chain that is removed is not the one that was added. *)
TeardownIPMasqKept(p) ==
    /\ pc[p] = "unmasq"
    /\ Goto(p, "unrule")
    /\ UNCHANGED <<netns, dev, addr, kernel, choice, faults, ipMasq>>

TeardownIPMasq(p) ==
    /\ pc[p] = "unmasq"
    /\ chains' = chains \ {p}
    /\ Goto(p, "unrule")
    /\ UNCHANGED <<netns, dev, addr, veth, hostRoute, via, rule, dangling, marked, npRule,
                   choice, faults, ipMasq>>

(* MUTANT: a missing rule ends the DEL, without an error. *)
RuleDelLenient(p) ==
    /\ pc[p] = "unrule"
    /\ rule' = [rule EXCEPT ![p] = NoTable]
    /\ Goto(p, IF p \in veth /\ rule[p] # NoTable THEN "unlink" ELSE "ptpdone")
    /\ UNCHANGED <<netns, dev, addr, veth, hostRoute, via, dangling, chains, marked, npRule,
                   choice, faults, ipMasq>>

(* LinkByIndex, then RuleDel: a missing link or rule is an error. *)
RuleDel(p) ==
    /\ pc[p] = "unrule"
    /\ IF p \in veth /\ rule[p] # NoTable
       THEN /\ rule' = [rule EXCEPT ![p] = NoTable]
            /\ Goto(p, "unlink")
            /\ UNCHANGED <<veth, hostRoute, via, dangling, chains, marked, npRule, choice>>
       ELSE DelError(p)
    /\ UNCHANGED <<netns, dev, addr, faults, ipMasq>>

LinkDel(p) ==
    /\ pc[p] = "unlink"
    /\ IF p \in veth
       THEN /\ DropVeth(p)
            /\ Goto(p, "ptpdone")
            /\ UNCHANGED <<rule, dangling, chains, marked, npRule, choice>>
       ELSE DelError(p)
    /\ UNCHANGED <<netns, dev, addr, faults, ipMasq>>

DelFault(p) ==
    /\ pc[p] \in PtpDel
    /\ Fault
    /\ DelError(p)
    /\ UNCHANGED <<netns, dev, addr, ipMasq>>

-----------------------------------------------------------------------------
PtpInit ==
    /\ netns = [p \in Pod |-> FALSE]
    /\ dev = [p \in Pod |-> "none"]
    /\ addr = [p \in Pod |-> NoAddr]
    /\ veth = {} /\ chains = {} /\ dangling = {}
    /\ hostRoute = [a \in Addr |-> NoPod]
    /\ via = [t \in Tables |-> [d \in Dst |-> NoPod]]
    /\ rule = [p \in Pod |-> NoTable]
    /\ marked = FALSE /\ npRule = FALSE
    /\ pc = [p \in Pod |-> "off"]
    /\ table = [p \in Pod |-> NoTable]
    /\ left = [p \in Pod |-> {}]
    /\ tries = [p \in Pod |-> 0]
    /\ saw = [p \in Pod |-> FALSE]
    /\ faults = MaxFaults

(* The steps of the plugin once it has been called. *)
PtpStep(p) ==
    \/ SetupContainerVeth(p) \/ AddHostRoute(p)
    \/ FindFreeTable(p) \/ RouteAdd(p) \/ RouteRefused(p) \/ RuleAdd(p)
    \/ SetupIPMasq(p) \/ MarkNodePorts(p) \/ AddNodePortRule(p) \/ AddFault(p)
    \/ TeardownIPMasq(p) \/ RuleDel(p) \/ LinkDel(p) \/ DelFault(p)
=============================================================================
