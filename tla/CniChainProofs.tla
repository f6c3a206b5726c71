--------------------------- MODULE CniChainProofs ---------------------------
(***************************************************************************)
(* Proofs about CniChain, for every number of pods, addresses, tables and  *)
(* destinations.                                                           *)
(***************************************************************************)
EXTENDS CniChainInvariant, TLAPS

(* What an ADD or a DEL that fails changes has the right types. *)
LEMMA AddErrorTypes ==
    ASSUME TypeOK, Locals, NEW p \in Pod, AddError(p), faults' \in 0 .. MaxFaults,
           UNCHANGED <<netns, dev, addr, ipMasq, chained, leased>>
    PROVE  TypeOK' /\ Locals'
<1>1. TypeOK'
  BY TableAssumption DEF TypeOK, AddError, Goto, LocalsEnd, kernel, Labels, Ending, PtpAdd
<1>2. Locals'
  BY DEF TypeOK, Locals, AddError, Goto, LocalsEnd
<1>3. QED
  BY <1>1, <1>2

LEMMA DelErrorTypes ==
    ASSUME TypeOK, Locals, NEW p \in Pod, DelError(p), faults' \in 0 .. MaxFaults,
           pc[p] \notin {"table", "routes"},
           UNCHANGED <<netns, dev, addr, ipMasq, chained, leased>>
    PROVE  TypeOK' /\ Locals'
<1>1. TypeOK'
  BY DEF TypeOK, DelError, Goto, kernel, choice, Labels, Ending, PtpAdd
<1>2. Locals'
  BY DEF TypeOK, Locals, DelError, Goto, choice
<1>3. QED
  BY <1>1, <1>2

(* What is set up for a pod stays as long as no step takes it away. *)
LEMMA SetUpFrame ==
    ASSUME TypeOK, SetUp, NEW q \in Pod, netns'[q] => netns[q],
           pc'[q] = pc[q], dev'[q] = dev[q], addr'[q] = addr[q], rule'[q] = rule[q],
           table'[q] = table[q], left'[q] = left[q], saw'[q] = saw[q],
           q \in veth => q \in veth', q \in chains => q \in chains',
           \A a \in Addr : hostRoute[a] = q => hostRoute'[a] = q,
           \A t \in Tables, d \in Dst : via[t][d] = q => via'[t][d] = q,
           marked => marked', npRule => npRule', ipMasq' = ipMasq
    PROVE  netns'[q] => SetUpFor(q)'
<1>1. SUFFICES ASSUME netns'[q] PROVE SetUpFor(q)'
  OBVIOUS
<1>2. SetUpFor(q) /\ Cidrs[q] \subseteq Dst
  BY <1>1, RouteAssumption DEF SetUp
<1>3. /\ rule[q] \in Tables \cup {NoTable} /\ table[q] \in Tables \cup {NoTable}
      /\ addr[q] \in Addr \cup {NoAddr}
      /\ (pc[q] = "routes" => table[q] # NoTable)
  BY DEF TypeOK
<1>4. QED
  BY <1>2, <1>3 DEF SetUpFor, PtpAdd, Routed

(* Every action keeps the types. *)
LEMMA TypeStep ==
    ASSUME TypeOK, Locals, Next
    PROVE  TypeOK' /\ Locals'
<1> USE RouteAssumption, TableAssumption DEF TypeOK, Locals, Labels, Ending, PtpAdd, PtpDel,
      IpvlanAdd, Goto, LocalsEnd, kernel, choice
<1>1. ASSUME NEW p \in Pod, SetupContainerVeth(p), UNCHANGED <<chained, leased>> PROVE TypeOK' /\ Locals'
  <2>1. CASE netns[p]
    <3>1. /\ pc[p] = "veth" /\ veth' = veth \cup {p} /\ Goto(p, "host")
          /\ UNCHANGED <<netns, dev, addr, hostRoute, via, rule, dangling, chains, marked, npRule, choice, faults, ipMasq>>
      BY <1>1, <2>1 DEF SetupContainerVeth
    <3>2. QED
      BY <1>1, <3>1
  <2>2. CASE ~(netns[p])
    BY <1>1, <2>2, AddErrorTypes DEF SetupContainerVeth
  <2>3. QED
    BY <2>1, <2>2
<1>2. ASSUME NEW p \in Pod, AddHostRoute(p), UNCHANGED <<chained, leased>> PROVE TypeOK' /\ Locals'
  <2>1. CASE hostRoute[addr[p]] = NoPod
    <3>1. /\ pc[p] = "host" /\ hostRoute' = [hostRoute EXCEPT ![addr[p]] = p] /\ Goto(p, "table")
          /\ UNCHANGED <<netns, dev, addr, veth, via, rule, dangling, chains, marked, npRule, choice, faults, ipMasq>>
      BY <1>2, <2>1 DEF AddHostRoute
    <3>2. QED
      BY <1>2, <3>1
  <2>2. CASE ~(hostRoute[addr[p]] = NoPod)
    BY <1>2, <2>2, AddErrorTypes DEF AddHostRoute
  <2>3. QED
    BY <2>1, <2>2
<1>3. ASSUME NEW p \in Pod, FindFreeTable(p), UNCHANGED <<chained, leased>> PROVE TypeOK' /\ Locals'
  <2>1. CASE AddError(p)
    BY <1>3, <2>1, AddErrorTypes DEF FindFreeTable
  <2>2. CASE ~AddError(p)
    <3>1. PICK t \in Tables : /\ table' = [table EXCEPT ![p] = t]
                              /\ left' = [left EXCEPT ![p] = Cidrs[p]]
                              /\ tries' = [tries EXCEPT ![p] = @ + 1]
                              /\ Goto(p, "routes")
                              /\ UNCHANGED <<kernel, saw>>
      BY <1>3, <2>2 DEF FindFreeTable, FreeFrom
    <3>2. /\ pc[p] = "table"
          /\ UNCHANGED <<netns, dev, addr, faults, ipMasq>>
      BY <1>3 DEF FindFreeTable
    <3>3. tries' \in [Pod -> 0 .. MaxTries] /\ \A q \in Pod \ {p} : tries'[q] = tries[q]
      BY <3>1, <3>2
    <3>4. QED
      BY <1>3, <3>1, <3>2, <3>3
  <2>3. QED
    BY <2>1, <2>2
<1>4. ASSUME NEW p \in Pod, RouteAdd(p), UNCHANGED <<chained, leased>> PROVE TypeOK' /\ Locals'
  <2>1. PICK d \in Dst : /\ via' = [via EXCEPT ![table[p]][d] = p]
                         /\ left' = [left EXCEPT ![p] = @ \ {d}]
    BY <1>4 DEF RouteAdd, NextRoutes
  <2>2. via' \in [Tables -> [Dst -> Pod \cup {NoPod}]]
    BY <1>4, <2>1 DEF RouteAdd
  <2>3. QED
    BY <1>4, <2>1, <2>2 DEF RouteAdd
<1>5. ASSUME NEW p \in Pod, RouteRefused(p), UNCHANGED <<chained, leased>> PROVE TypeOK' /\ Locals'
  <2>1. faults' \in 0 .. MaxFaults /\ pc[p] = "routes" /\ UNCHANGED <<netns, dev, addr, ipMasq>>
    BY <1>5 DEF RouteRefused, Fault
  <2>2. CASE MayRetry(p)
    <3>1. /\ Goto(p, "table")
          /\ table' = [table EXCEPT ![p] = NoTable]
          /\ left' = [left EXCEPT ![p] = {}]
          /\ UNCHANGED <<kernel, tries, saw>>
      BY <1>5, <2>2 DEF RouteRefused
    <3>2. QED
      BY <1>5, <2>1, <2>2, <3>1 DEF MayRetry
  <2>3. CASE ~MayRetry(p)
    BY <1>5, <2>1, <2>3, AddErrorTypes DEF RouteRefused
  <2>4. QED
    BY <2>2, <2>3
<1>6. ASSUME NEW p \in Pod, RuleAdd(p), UNCHANGED <<chained, leased>> PROVE TypeOK' /\ Locals'
  BY <1>6 DEF RuleAdd
<1>7. ASSUME NEW p \in Pod, SetupIPMasq(p), UNCHANGED <<chained, leased>> PROVE TypeOK' /\ Locals'
  BY <1>7 DEF SetupIPMasq
<1>8. ASSUME NEW p \in Pod, MarkNodePorts(p), UNCHANGED <<chained, leased>> PROVE TypeOK' /\ Locals'
  BY <1>8 DEF MarkNodePorts
<1>9. ASSUME NEW p \in Pod, AddNodePortRule(p), UNCHANGED <<chained, leased>> PROVE TypeOK' /\ Locals'
  BY <1>9 DEF AddNodePortRule
<1>10. ASSUME NEW p \in Pod, AddFault(p), UNCHANGED <<chained, leased>> PROVE TypeOK' /\ Locals'
  BY <1>10 DEF AddFault, AddError, Fault
<1>11. ASSUME NEW p \in Pod, TeardownIPMasq(p), UNCHANGED <<chained, leased>> PROVE TypeOK' /\ Locals'
  BY <1>11 DEF TeardownIPMasq
<1>12. ASSUME NEW p \in Pod, RuleDel(p), UNCHANGED <<chained, leased>> PROVE TypeOK' /\ Locals'
  <2>1. CASE p \in veth /\ rule[p] # NoTable
    <3>1. /\ pc[p] = "unrule" /\ rule' = [rule EXCEPT ![p] = NoTable] /\ Goto(p, "unlink")
          /\ UNCHANGED <<netns, dev, addr, veth, hostRoute, via, dangling, chains, marked, npRule, choice, faults, ipMasq>>
      BY <1>12, <2>1 DEF RuleDel
    <3>2. QED
      BY <1>12, <3>1
  <2>2. CASE ~(p \in veth /\ rule[p] # NoTable)
    BY <1>12, <2>2, DelErrorTypes DEF RuleDel
  <2>3. QED
    BY <2>1, <2>2
<1>13. ASSUME NEW p \in Pod, LinkDel(p), UNCHANGED <<chained, leased>> PROVE TypeOK' /\ Locals'
  <2>1. CASE p \in veth
    <3>1. /\ pc[p] = "unlink" /\ DropVeth(p) /\ Goto(p, "ptpdone")
          /\ UNCHANGED <<netns, dev, addr, rule, dangling, chains, marked, npRule, choice, faults, ipMasq>>
      BY <1>13, <2>1 DEF LinkDel
    <3>2. via' \in [Tables -> [Dst -> Pod \cup {NoPod}]]
      BY <3>1 DEF DropVeth
    <3>3. hostRoute' \in [Addr -> Pod \cup {NoPod}]
      BY <3>1 DEF DropVeth
    <3>4. QED
      BY <1>13, <3>1, <3>2, <3>3 DEF DropVeth
  <2>2. CASE p \notin veth
    BY <1>13, <2>2, DelErrorTypes DEF LinkDel
  <2>3. QED
    BY <2>1, <2>2
<1>14. ASSUME NEW p \in Pod, DelFault(p), UNCHANGED <<chained, leased>> PROVE TypeOK' /\ Locals'
  BY <1>14 DEF DelFault, DelError, Fault
<1>15. ASSUME NEW p \in Pod, IpamAdd(p) PROVE TypeOK' /\ Locals'
  BY <1>15 DEF IpamAdd, ChainError
<1>16. ASSUME NEW p \in Pod, CreateIpvlan(p) PROVE TypeOK' /\ Locals'
  BY <1>16 DEF CreateIpvlan, ChainError
<1>17. ASSUME NEW p \in Pod, ConfigureIface(p) PROVE TypeOK' /\ Locals'
  BY <1>17 DEF ConfigureIface
<1>17b. ASSUME NEW p \in Pod, ConfigureFails(p) PROVE TypeOK' /\ Locals'
  BY <1>17b DEF ConfigureFails, Fault
<1>18. ASSUME NEW p \in Pod, ChainFault(p) PROVE TypeOK' /\ Locals'
  BY <1>18 DEF ChainFault, ChainError, Fault
<1>19. ASSUME NEW p \in Pod, IpamDel(p) PROVE TypeOK' /\ Locals'
  BY <1>19 DEF IpamDel, Fault
<1>20. ASSUME NEW p \in Pod, DelDevice(p) PROVE TypeOK' /\ Locals'
  BY <1>20 DEF DelDevice
<1>21. ASSUME NEW p \in Pod, ChainDelFault(p) PROVE TypeOK' /\ Locals'
  BY <1>21 DEF ChainDelFault, DelError, Fault
<1>22. ASSUME NEW p \in Pod, AddBegin(p) PROVE TypeOK' /\ Locals'
  BY <1>22 DEF AddBegin
<1>23. ASSUME NEW p \in Pod, CallDel(p) PROVE TypeOK' /\ Locals'
  BY <1>23 DEF CallDel, DelLookup
<1>24. ASSUME NEW p \in Pod, RemoveNetns(p) PROVE TypeOK' /\ Locals'
  BY <1>24 DEF RemoveNetns, KeptOpen, DropVeth
<1>25. ASSUME NEW p \in Pod, Forget(p) PROVE TypeOK' /\ Locals'
  BY <1>25 DEF Forget
<1>26. QED
  BY <1>1, <1>2, <1>3, <1>4, <1>5, <1>6, <1>7, <1>8, <1>9, <1>10, <1>11, <1>12, <1>13, <1>14,
     <1>15, <1>16, <1>17, <1>17b, <1>18, <1>19, <1>20, <1>21, <1>22, <1>23, <1>24, <1>25
     DEF Next, Plugin, Ptp, PtpStep

(* Every action keeps the order of veths and rules. *)
LEMMA VethsStep ==
    ASSUME TypeOK, Locals, Veths, Next
    PROVE  Veths'
<1> USE RouteAssumption, TableAssumption DEF TypeOK, Locals, Veths, NoVethYet, NoRuleYet, PtpAdd,
      PtpDel, IpvlanAdd, Goto, LocalsEnd, kernel, choice
<1>1. ASSUME NEW p \in Pod, SetupContainerVeth(p), UNCHANGED <<chained, leased>> PROVE Veths'
  BY <1>1 DEF SetupContainerVeth, AddError
<1>2. ASSUME NEW p \in Pod, AddHostRoute(p), UNCHANGED <<chained, leased>> PROVE Veths'
  BY <1>2 DEF AddHostRoute, AddError
<1>3. ASSUME NEW p \in Pod, FindFreeTable(p), UNCHANGED <<chained, leased>> PROVE Veths'
  BY <1>3 DEF FindFreeTable, AddError, FreeFrom
<1>4. ASSUME NEW p \in Pod, RouteAdd(p), UNCHANGED <<chained, leased>> PROVE Veths'
  BY <1>4 DEF RouteAdd, NextRoutes, RouteFits
<1>5. ASSUME NEW p \in Pod, RouteRefused(p), UNCHANGED <<chained, leased>> PROVE Veths'
  BY <1>5 DEF RouteRefused, AddError, MayRetry, Fault
<1>6. ASSUME NEW p \in Pod, RuleAdd(p), UNCHANGED <<chained, leased>> PROVE Veths'
  BY <1>6 DEF RuleAdd
<1>7. ASSUME NEW p \in Pod, SetupIPMasq(p), UNCHANGED <<chained, leased>> PROVE Veths'
  BY <1>7 DEF SetupIPMasq
<1>8. ASSUME NEW p \in Pod, MarkNodePorts(p), UNCHANGED <<chained, leased>> PROVE Veths'
  BY <1>8 DEF MarkNodePorts
<1>9. ASSUME NEW p \in Pod, AddNodePortRule(p), UNCHANGED <<chained, leased>> PROVE Veths'
  BY <1>9 DEF AddNodePortRule
<1>10. ASSUME NEW p \in Pod, AddFault(p), UNCHANGED <<chained, leased>> PROVE Veths'
  BY <1>10 DEF AddFault, AddError, Fault
<1>11. ASSUME NEW p \in Pod, TeardownIPMasq(p), UNCHANGED <<chained, leased>> PROVE Veths'
  BY <1>11 DEF TeardownIPMasq
<1>12. ASSUME NEW p \in Pod, RuleDel(p), UNCHANGED <<chained, leased>> PROVE Veths'
  BY <1>12 DEF RuleDel, DelError
<1>13. ASSUME NEW p \in Pod, LinkDel(p), UNCHANGED <<chained, leased>> PROVE Veths'
  BY <1>13 DEF LinkDel, DelError, DropVeth
<1>14. ASSUME NEW p \in Pod, DelFault(p), UNCHANGED <<chained, leased>> PROVE Veths'
  BY <1>14 DEF DelFault, DelError, Fault
<1>15. ASSUME NEW p \in Pod, IpamAdd(p) PROVE Veths'
  BY <1>15 DEF IpamAdd, ChainError
<1>16. ASSUME NEW p \in Pod, CreateIpvlan(p) PROVE Veths'
  BY <1>16 DEF CreateIpvlan, ChainError
<1>17. ASSUME NEW p \in Pod, ConfigureIface(p) PROVE Veths'
  BY <1>17 DEF ConfigureIface
<1>17b. ASSUME NEW p \in Pod, ConfigureFails(p) PROVE Veths'
  BY <1>17b DEF ConfigureFails, Fault
<1>18. ASSUME NEW p \in Pod, ChainFault(p) PROVE Veths'
  BY <1>18 DEF ChainFault, ChainError, Fault
<1>19. ASSUME NEW p \in Pod, IpamDel(p) PROVE Veths'
  BY <1>19 DEF IpamDel, Fault
<1>20. ASSUME NEW p \in Pod, DelDevice(p) PROVE Veths'
  BY <1>20 DEF DelDevice
<1>21. ASSUME NEW p \in Pod, ChainDelFault(p) PROVE Veths'
  BY <1>21 DEF ChainDelFault, DelError, Fault
<1>22. ASSUME NEW p \in Pod, AddBegin(p) PROVE Veths'
  BY <1>22 DEF AddBegin
<1>23. ASSUME NEW p \in Pod, CallDel(p) PROVE Veths'
  BY <1>23 DEF CallDel, DelLookup
<1>24. ASSUME NEW p \in Pod, RemoveNetns(p) PROVE Veths'
  BY <1>24 DEF RemoveNetns, KeptOpen, DropVeth
<1>25. ASSUME NEW p \in Pod, Forget(p) PROVE Veths'
  BY <1>25 DEF Forget
<1>26. QED
  BY <1>1, <1>2, <1>3, <1>4, <1>5, <1>6, <1>7, <1>8, <1>9, <1>10, <1>11, <1>12, <1>13, <1>14,
     <1>15, <1>16, <1>17, <1>17b, <1>18, <1>19, <1>20, <1>21, <1>22, <1>23, <1>24, <1>25
     DEF Next, Plugin, Ptp, PtpStep

(* Every action keeps what ADDs have set up. *)
LEMMA SetUpStep ==
    ASSUME TypeOK, Locals, Veths, SetUp, Next
    PROVE  SetUp'
<1> USE RouteAssumption, TableAssumption DEF TypeOK, Locals, Veths, SetUp, SetUpFor, Routed,
      NoVethYet, NoRuleYet, PtpAdd, PtpDel, IpvlanAdd, Goto, LocalsEnd, kernel, choice
<1>1. ASSUME NEW p \in Pod, SetupContainerVeth(p), UNCHANGED <<chained, leased>> PROVE SetUp'
  BY <1>1 DEF SetupContainerVeth, AddError
<1>2. ASSUME NEW p \in Pod, AddHostRoute(p), UNCHANGED <<chained, leased>> PROVE SetUp'
  <2>1. CASE hostRoute[addr[p]] = NoPod
    <3>1. /\ pc[p] = "host" /\ hostRoute' = [hostRoute EXCEPT ![addr[p]] = p] /\ Goto(p, "table")
          /\ UNCHANGED <<netns, dev, addr, veth, via, rule, dangling, chains, marked, npRule, choice, faults, ipMasq>>
      BY <1>2, <2>1 DEF AddHostRoute
    <3>2. hostRoute'[addr[p]] = p /\ \A q \in Pod, a \in Addr : hostRoute[a] = q => hostRoute'[a] = q
      BY <2>1, <3>1
    <3>3. QED
      BY <1>2, <3>1, <3>2
  <2>2. CASE hostRoute[addr[p]] # NoPod
    BY <1>2, <2>2 DEF AddHostRoute, AddError
  <2>3. QED
    BY <2>1, <2>2
<1>3. ASSUME NEW p \in Pod, FindFreeTable(p), UNCHANGED <<chained, leased>> PROVE SetUp'
  BY <1>3 DEF FindFreeTable, AddError, FreeFrom
<1>4. ASSUME NEW p \in Pod, RouteAdd(p), UNCHANGED <<chained, leased>> PROVE SetUp'
  <2>1. PICK d \in NextRoutes(p) : /\ RouteFits(p, d)
                                   /\ via' = [via EXCEPT ![table[p]][d] = p]
                                   /\ left' = [left EXCEPT ![p] = @ \ {d}]
    BY <1>4 DEF RouteAdd
  <2>2. table[p] \in Tables /\ d \in Dst /\ pc[p] = "routes" /\ via \in [Tables -> [Dst -> Pod \cup {NoPod}]]
    BY <1>4, <2>1 DEF RouteAdd, NextRoutes
  <2>3. UNCHANGED <<netns, dev, addr, veth, hostRoute, rule, chains, marked, npRule, pc, table, saw, ipMasq>>
    BY <1>4 DEF RouteAdd
  <2> HIDE DEF TypeOK, Locals, Veths, SetUp
  <2>4. via'[table[p]][d] = p
    BY <2>1, <2>2
  <2>5. \A q \in Pod, t \in Tables, e \in Dst : via[t][e] = q => via'[t][e] = q
    BY <2>1, <2>2, RouteAssumption DEF RouteFits
  <2>6. QED
    BY <2>1, <2>2, <2>3, <2>4, <2>5, SetUpFrame DEF SetUp, TypeOK
<1>5. ASSUME NEW p \in Pod, RouteRefused(p), UNCHANGED <<chained, leased>> PROVE SetUp'
  BY <1>5 DEF RouteRefused, AddError, MayRetry, Fault
<1>6. ASSUME NEW p \in Pod, RuleAdd(p), UNCHANGED <<chained, leased>> PROVE SetUp'
  BY <1>6 DEF RuleAdd
<1>7. ASSUME NEW p \in Pod, SetupIPMasq(p), UNCHANGED <<chained, leased>> PROVE SetUp'
  BY <1>7 DEF SetupIPMasq
<1>8. ASSUME NEW p \in Pod, MarkNodePorts(p), UNCHANGED <<chained, leased>> PROVE SetUp'
  BY <1>8 DEF MarkNodePorts
<1>9. ASSUME NEW p \in Pod, AddNodePortRule(p), UNCHANGED <<chained, leased>> PROVE SetUp'
  BY <1>9 DEF AddNodePortRule
<1>10. ASSUME NEW p \in Pod, AddFault(p), UNCHANGED <<chained, leased>> PROVE SetUp'
  BY <1>10 DEF AddFault, AddError, Fault
<1>11. ASSUME NEW p \in Pod, TeardownIPMasq(p), UNCHANGED <<chained, leased>> PROVE SetUp'
  BY <1>11 DEF TeardownIPMasq
<1>12. ASSUME NEW p \in Pod, RuleDel(p), UNCHANGED <<chained, leased>> PROVE SetUp'
  BY <1>12 DEF RuleDel, DelError
<1>13. ASSUME NEW p \in Pod, LinkDel(p), UNCHANGED <<chained, leased>> PROVE SetUp'
  <2>1. CASE p \in veth
    <3>1. \A q \in Pod \ {p} : /\ q \in veth' <=> q \in veth
                               /\ \A a \in Addr : hostRoute[a] = q => hostRoute'[a] = q
                               /\ \A t \in Tables, d \in Dst : via[t][d] = q => via'[t][d] = q
      BY <1>13, <2>1 DEF LinkDel, DropVeth
    <3>2. /\ UNCHANGED <<netns, dev, addr, rule, chains, marked, npRule, table, left, saw, ipMasq>>
          /\ pc'[p] = "ptpdone" /\ \A q \in Pod \ {p} : pc'[q] = pc[q]
      BY <1>13, <2>1 DEF LinkDel
    <3>3. netns'[p] => SetUpFor(p)'
      BY <3>2
    <3> HIDE DEF TypeOK, Locals, Veths, SetUpFor
    <3>4. ASSUME NEW q \in Pod \ {p} PROVE netns'[q] => SetUpFor(q)'
      BY <3>1, <3>2, SetUpFrame
    <3>5. QED
      BY <3>3, <3>4
  <2>2. CASE p \notin veth
    BY <1>13, <2>2 DEF LinkDel, DelError, SetUpFor
  <2>3. QED
    BY <2>1, <2>2
<1>14. ASSUME NEW p \in Pod, DelFault(p), UNCHANGED <<chained, leased>> PROVE SetUp'
  BY <1>14 DEF DelFault, DelError, Fault
<1>15. ASSUME NEW p \in Pod, IpamAdd(p) PROVE SetUp'
  BY <1>15 DEF IpamAdd, ChainError
<1>16. ASSUME NEW p \in Pod, CreateIpvlan(p) PROVE SetUp'
  BY <1>16 DEF CreateIpvlan, ChainError
<1>17. ASSUME NEW p \in Pod, ConfigureIface(p) PROVE SetUp'
  BY <1>17 DEF ConfigureIface
<1>17b. ASSUME NEW p \in Pod, ConfigureFails(p) PROVE SetUp'
  BY <1>17b DEF ConfigureFails, Fault
<1>18. ASSUME NEW p \in Pod, ChainFault(p) PROVE SetUp'
  BY <1>18 DEF ChainFault, ChainError, Fault
<1>19. ASSUME NEW p \in Pod, IpamDel(p) PROVE SetUp'
  BY <1>19 DEF IpamDel, Fault
<1>20. ASSUME NEW p \in Pod, DelDevice(p) PROVE SetUp'
  BY <1>20 DEF DelDevice
<1>21. ASSUME NEW p \in Pod, ChainDelFault(p) PROVE SetUp'
  BY <1>21 DEF ChainDelFault, DelError, Fault
<1>22. ASSUME NEW p \in Pod, AddBegin(p) PROVE SetUp'
  BY <1>22 DEF AddBegin
<1>23. ASSUME NEW p \in Pod, CallDel(p) PROVE SetUp'
  BY <1>23 DEF CallDel, DelLookup
<1>24. ASSUME NEW p \in Pod, RemoveNetns(p) PROVE SetUp'
  <2>1. \A q \in Pod \ {p} : /\ q \in veth' <=> q \in veth
                             /\ \A a \in Addr : hostRoute[a] = q => hostRoute'[a] = q
                             /\ \A t \in Tables, d \in Dst : via[t][d] = q => via'[t][d] = q
    BY <1>24 DEF RemoveNetns, DropVeth
  <2>2. /\ UNCHANGED <<addr, rule, chains, marked, npRule, pc, table, left, saw, ipMasq>>
        /\ ~netns'[p]
        /\ \A q \in Pod \ {p} : netns'[q] = netns[q] /\ dev'[q] = dev[q]
    BY <1>24 DEF RemoveNetns, choice
  <2> HIDE DEF TypeOK, Locals, Veths, SetUpFor
  <2>3. ASSUME NEW q \in Pod \ {p} PROVE netns'[q] => SetUpFor(q)'
    BY <2>1, <2>2, SetUpFrame
  <2>4. QED
    BY <2>2, <2>3
<1>25. ASSUME NEW p \in Pod, Forget(p) PROVE SetUp'
  BY <1>25 DEF Forget
<1>26. QED
  BY <1>1, <1>2, <1>3, <1>4, <1>5, <1>6, <1>7, <1>8, <1>9, <1>10, <1>11, <1>12, <1>13, <1>14,
     <1>15, <1>16, <1>17, <1>17b, <1>18, <1>19, <1>20, <1>21, <1>22, <1>23, <1>24, <1>25
     DEF Next, Plugin, Ptp, PtpStep

(* Every action keeps leases unique. *)
LEMMA LeasesStep ==
    ASSUME TypeOK, Locals, Leases, Next
    PROVE  Leases'
<1> USE RouteAssumption, TableAssumption DEF TypeOK, Locals, Leases, PtpAdd, PtpDel, IpvlanAdd,
      Goto, LocalsEnd, kernel, choice
<1>1. ASSUME NEW p \in Pod, SetupContainerVeth(p), UNCHANGED <<chained, leased>> PROVE Leases'
  BY <1>1 DEF SetupContainerVeth, AddError
<1>2. ASSUME NEW p \in Pod, AddHostRoute(p), UNCHANGED <<chained, leased>> PROVE Leases'
  BY <1>2 DEF AddHostRoute, AddError
<1>3. ASSUME NEW p \in Pod, FindFreeTable(p), UNCHANGED <<chained, leased>> PROVE Leases'
  BY <1>3 DEF FindFreeTable, AddError, FreeFrom
<1>4. ASSUME NEW p \in Pod, RouteAdd(p), UNCHANGED <<chained, leased>> PROVE Leases'
  BY <1>4 DEF RouteAdd, NextRoutes, RouteFits
<1>5. ASSUME NEW p \in Pod, RouteRefused(p), UNCHANGED <<chained, leased>> PROVE Leases'
  BY <1>5 DEF RouteRefused, AddError, MayRetry, Fault
<1>6. ASSUME NEW p \in Pod, RuleAdd(p), UNCHANGED <<chained, leased>> PROVE Leases'
  BY <1>6 DEF RuleAdd
<1>7. ASSUME NEW p \in Pod, SetupIPMasq(p), UNCHANGED <<chained, leased>> PROVE Leases'
  BY <1>7 DEF SetupIPMasq
<1>8. ASSUME NEW p \in Pod, MarkNodePorts(p), UNCHANGED <<chained, leased>> PROVE Leases'
  BY <1>8 DEF MarkNodePorts
<1>9. ASSUME NEW p \in Pod, AddNodePortRule(p), UNCHANGED <<chained, leased>> PROVE Leases'
  BY <1>9 DEF AddNodePortRule
<1>10. ASSUME NEW p \in Pod, AddFault(p), UNCHANGED <<chained, leased>> PROVE Leases'
  BY <1>10 DEF AddFault, AddError, Fault
<1>11. ASSUME NEW p \in Pod, TeardownIPMasq(p), UNCHANGED <<chained, leased>> PROVE Leases'
  BY <1>11 DEF TeardownIPMasq
<1>12. ASSUME NEW p \in Pod, RuleDel(p), UNCHANGED <<chained, leased>> PROVE Leases'
  BY <1>12 DEF RuleDel, DelError
<1>13. ASSUME NEW p \in Pod, LinkDel(p), UNCHANGED <<chained, leased>> PROVE Leases'
  BY <1>13 DEF LinkDel, DelError, DropVeth
<1>14. ASSUME NEW p \in Pod, DelFault(p), UNCHANGED <<chained, leased>> PROVE Leases'
  BY <1>14 DEF DelFault, DelError, Fault
<1>15. ASSUME NEW p \in Pod, IpamAdd(p) PROVE Leases'
  BY <1>15 DEF IpamAdd, ChainError
<1>16. ASSUME NEW p \in Pod, CreateIpvlan(p) PROVE Leases'
  BY <1>16 DEF CreateIpvlan, ChainError
<1>17. ASSUME NEW p \in Pod, ConfigureIface(p) PROVE Leases'
  BY <1>17 DEF ConfigureIface
<1>17b. ASSUME NEW p \in Pod, ConfigureFails(p) PROVE Leases'
  BY <1>17b DEF ConfigureFails, Fault
<1>18. ASSUME NEW p \in Pod, ChainFault(p) PROVE Leases'
  BY <1>18 DEF ChainFault, ChainError, Fault
<1>19. ASSUME NEW p \in Pod, IpamDel(p) PROVE Leases'
  BY <1>19 DEF IpamDel, Fault
<1>20. ASSUME NEW p \in Pod, DelDevice(p) PROVE Leases'
  BY <1>20 DEF DelDevice
<1>21. ASSUME NEW p \in Pod, ChainDelFault(p) PROVE Leases'
  BY <1>21 DEF ChainDelFault, DelError, Fault
<1>22. ASSUME NEW p \in Pod, AddBegin(p) PROVE Leases'
  BY <1>22 DEF AddBegin
<1>23. ASSUME NEW p \in Pod, CallDel(p) PROVE Leases'
  BY <1>23 DEF CallDel, DelLookup
<1>24. ASSUME NEW p \in Pod, RemoveNetns(p) PROVE Leases'
  BY <1>24 DEF RemoveNetns, KeptOpen, DropVeth
<1>25. ASSUME NEW p \in Pod, Forget(p) PROVE Leases'
  BY <1>25 DEF Forget
<1>26. QED
  BY <1>1, <1>2, <1>3, <1>4, <1>5, <1>6, <1>7, <1>8, <1>9, <1>10, <1>11, <1>12, <1>13, <1>14,
     <1>15, <1>16, <1>17, <1>17b, <1>18, <1>19, <1>20, <1>21, <1>22, <1>23, <1>24, <1>25
     DEF Next, Plugin, Ptp, PtpStep

(* Every action keeps holders. *)
LEMMA HoldersStep ==
    ASSUME TypeOK, Veths, Leases, TakenDown, Holders, Next
    PROVE  TakenDown' /\ Holders'
<1> USE RouteAssumption, TableAssumption DEF TypeOK, Veths, NoVethYet, NoRuleYet, Leases,
      TakenDown, Holders, PtpAdd, PtpDel, IpvlanAdd, Goto, LocalsEnd, kernel, choice
<1>1. ASSUME NEW p \in Pod, SetupContainerVeth(p), UNCHANGED <<chained, leased>> PROVE TakenDown' /\ Holders'
  BY <1>1 DEF SetupContainerVeth, AddError
<1>2. ASSUME NEW p \in Pod, AddHostRoute(p), UNCHANGED <<chained, leased>> PROVE TakenDown' /\ Holders'
  BY <1>2 DEF AddHostRoute, AddError
<1>3. ASSUME NEW p \in Pod, FindFreeTable(p), UNCHANGED <<chained, leased>> PROVE TakenDown' /\ Holders'
  BY <1>3 DEF FindFreeTable, AddError, FreeFrom
<1>4. ASSUME NEW p \in Pod, RouteAdd(p), UNCHANGED <<chained, leased>> PROVE TakenDown' /\ Holders'
  BY <1>4 DEF RouteAdd, NextRoutes, RouteFits
<1>5. ASSUME NEW p \in Pod, RouteRefused(p), UNCHANGED <<chained, leased>> PROVE TakenDown' /\ Holders'
  BY <1>5 DEF RouteRefused, AddError, MayRetry, Fault
<1>6. ASSUME NEW p \in Pod, RuleAdd(p), UNCHANGED <<chained, leased>> PROVE TakenDown' /\ Holders'
  BY <1>6 DEF RuleAdd
<1>7. ASSUME NEW p \in Pod, SetupIPMasq(p), UNCHANGED <<chained, leased>> PROVE TakenDown' /\ Holders'
  BY <1>7 DEF SetupIPMasq
<1>8. ASSUME NEW p \in Pod, MarkNodePorts(p), UNCHANGED <<chained, leased>> PROVE TakenDown' /\ Holders'
  BY <1>8 DEF MarkNodePorts
<1>9. ASSUME NEW p \in Pod, AddNodePortRule(p), UNCHANGED <<chained, leased>> PROVE TakenDown' /\ Holders'
  BY <1>9 DEF AddNodePortRule
<1>10. ASSUME NEW p \in Pod, AddFault(p), UNCHANGED <<chained, leased>> PROVE TakenDown' /\ Holders'
  BY <1>10 DEF AddFault, AddError, Fault
<1>11. ASSUME NEW p \in Pod, TeardownIPMasq(p), UNCHANGED <<chained, leased>> PROVE TakenDown' /\ Holders'
  BY <1>11 DEF TeardownIPMasq
<1>12. ASSUME NEW p \in Pod, RuleDel(p), UNCHANGED <<chained, leased>> PROVE TakenDown' /\ Holders'
  BY <1>12 DEF RuleDel, DelError
<1>13. ASSUME NEW p \in Pod, LinkDel(p), UNCHANGED <<chained, leased>> PROVE TakenDown' /\ Holders'
  BY <1>13 DEF LinkDel, DelError, DropVeth
<1>14. ASSUME NEW p \in Pod, DelFault(p), UNCHANGED <<chained, leased>> PROVE TakenDown' /\ Holders'
  BY <1>14 DEF DelFault, DelError, Fault
<1>15. ASSUME NEW p \in Pod, IpamAdd(p) PROVE TakenDown' /\ Holders'
  BY <1>15 DEF IpamAdd, ChainError
<1>16. ASSUME NEW p \in Pod, CreateIpvlan(p) PROVE TakenDown' /\ Holders'
  BY <1>16 DEF CreateIpvlan, ChainError
<1>17. ASSUME NEW p \in Pod, ConfigureIface(p) PROVE TakenDown' /\ Holders'
  BY <1>17 DEF ConfigureIface
<1>17b. ASSUME NEW p \in Pod, ConfigureFails(p) PROVE TakenDown' /\ Holders'
  BY <1>17b DEF ConfigureFails, Fault
<1>18. ASSUME NEW p \in Pod, ChainFault(p) PROVE TakenDown' /\ Holders'
  BY <1>18 DEF ChainFault, ChainError, Fault
<1>19. ASSUME NEW p \in Pod, IpamDel(p) PROVE TakenDown' /\ Holders'
  BY <1>19 DEF IpamDel, Fault
<1>20. ASSUME NEW p \in Pod, DelDevice(p) PROVE TakenDown' /\ Holders'
  BY <1>20 DEF DelDevice
<1>21. ASSUME NEW p \in Pod, ChainDelFault(p) PROVE TakenDown' /\ Holders'
  BY <1>21 DEF ChainDelFault, DelError, Fault
<1>22. ASSUME NEW p \in Pod, AddBegin(p) PROVE TakenDown' /\ Holders'
  BY <1>22 DEF AddBegin
<1>23. ASSUME NEW p \in Pod, CallDel(p) PROVE TakenDown' /\ Holders'
  BY <1>23 DEF CallDel, DelLookup
<1>24. ASSUME NEW p \in Pod, RemoveNetns(p) PROVE TakenDown' /\ Holders'
  BY <1>24 DEF RemoveNetns, KeptOpen, DropVeth
<1>25. ASSUME NEW p \in Pod, Forget(p) PROVE TakenDown' /\ Holders'
  BY <1>25 DEF Forget
<1>26. QED
  BY <1>1, <1>2, <1>3, <1>4, <1>5, <1>6, <1>7, <1>8, <1>9, <1>10, <1>11, <1>12, <1>13, <1>14,
     <1>15, <1>16, <1>17, <1>17b, <1>18, <1>19, <1>20, <1>21, <1>22, <1>23, <1>24, <1>25
     DEF Next, Plugin, Ptp, PtpStep

(* Every action keeps the claims of tables, if all routes start with f. *)
LEMMA ClaimedStep ==
    ASSUME NEW f, First(f), TypeOK, Locals, Veths, Claimed(f), Next
    PROVE  Claimed(f)'
<1> USE RouteAssumption, TableAssumption DEF First, TypeOK, Locals, Veths, Claimed, NoVethYet,
      NoRuleYet, PtpAdd, PtpDel, IpvlanAdd, Goto, LocalsEnd, kernel, choice
<1>1. ASSUME NEW p \in Pod, SetupContainerVeth(p), UNCHANGED <<chained, leased>> PROVE Claimed(f)'
  BY <1>1 DEF SetupContainerVeth, AddError
<1>2. ASSUME NEW p \in Pod, AddHostRoute(p), UNCHANGED <<chained, leased>> PROVE Claimed(f)'
  BY <1>2 DEF AddHostRoute, AddError
<1>3. ASSUME NEW p \in Pod, FindFreeTable(p), UNCHANGED <<chained, leased>> PROVE Claimed(f)'
  BY <1>3 DEF FindFreeTable, AddError, FreeFrom
<1>4. ASSUME NEW p \in Pod, RouteAdd(p), UNCHANGED <<chained, leased>> PROVE Claimed(f)'
  <2>1. PICK d \in NextRoutes(p) : /\ RouteFits(p, d)
                                   /\ via' = [via EXCEPT ![table[p]][d] = p]
                                   /\ left' = [left EXCEPT ![p] = @ \ {d}]
    BY <1>4 DEF RouteAdd
  <2>2. /\ table[p] \in Tables /\ d \in Dst /\ d \in Cidrs[p] /\ pc[p] = "routes"
        /\ via \in [Tables -> [Dst -> Pod \cup {NoPod}]]
        /\ left \in [Pod -> SUBSET Dst]
    BY <1>4, <2>1 DEF RouteAdd, NextRoutes
  <2>3. UNCHANGED <<veth, rule, pc, table>>
    BY <1>4 DEF RouteAdd
  <2>4. \A q \in Pod : /\ rule[q] \in Tables \cup {NoTable}
                       /\ pc[q] = "routes" => table[q] \in Tables
    OBVIOUS
  <2> HIDE DEF TypeOK, Locals, Veths, Claimed
  <2>5. /\ via'[table[p]][d] = p
        /\ \A t \in Tables, e \in Dst : t # table[p] \/ e # d => via'[t][e] = via[t][e]
    BY <2>1, <2>2
  <2>6. d = f \/ f \notin left[p]
    BY <2>1, <2>2, RouteAssumption DEF NextRoutes, First
  <2>7. via'[table[p]][f] = p
    BY <2>2, <2>5, <2>6 DEF Claimed, First
  <2>8. via[table[p]][f] \in {p, NoPod}
    BY <2>1, <2>2, <2>6 DEF Claimed, RouteFits
  <2>9. \A e \in Dst : via[table[p]][e] \in {p, NoPod}
    BY <2>2, <2>8 DEF Claimed
  <2>10. \A q \in Pod, t \in Tables : via[t][f] = q => via'[t][f] = q
    BY <2>1, <2>2, <2>5, RouteAssumption DEF RouteFits, First
  <2>11. \A t \in Tables, e \in Dst : via'[t][e] # NoPod => via'[t][f] = via'[t][e]
    <3> SUFFICES ASSUME NEW t \in Tables, NEW e \in Dst, via'[t][e] # NoPod PROVE via'[t][f] = via'[t][e]
      OBVIOUS
    <3>1. CASE t = table[p]
      BY <3>1, <2>2, <2>5, <2>7, <2>9
    <3>2. CASE t # table[p]
      BY <3>2, <2>2, <2>5 DEF Claimed, First
    <3>3. QED
      BY <3>1, <3>2
  <2>12. \A q \in Pod : pc'[q] = "routes" /\ f \notin left'[q] => via'[table'[q]][f] = q
    <3> SUFFICES ASSUME NEW q \in Pod, pc[q] = "routes", f \notin left'[q] PROVE via'[table[q]][f] = q
      BY <2>3
    <3>1. CASE q = p
      BY <3>1, <2>7
    <3>2. CASE q # p
      <4>1. left'[q] = left[q]
        BY <3>2, <2>1, <2>2
      <4>2. via[table[q]][f] = q
        BY <4>1 DEF Claimed
      <4>3. QED
        BY <4>2, <2>4, <2>10
    <3>3. QED
      BY <3>1, <3>2
  <2>13. \A q \in Pod : q \in veth' /\ rule'[q] # NoTable => via'[rule'[q]][f] = q
    BY <2>3, <2>4, <2>10 DEF Claimed
  <2>14. QED
    BY <2>11, <2>12, <2>13 DEF Claimed
<1>5. ASSUME NEW p \in Pod, RouteRefused(p), UNCHANGED <<chained, leased>> PROVE Claimed(f)'
  BY <1>5 DEF RouteRefused, AddError, MayRetry, Fault
<1>6. ASSUME NEW p \in Pod, RuleAdd(p), UNCHANGED <<chained, leased>> PROVE Claimed(f)'
  BY <1>6 DEF RuleAdd
<1>7. ASSUME NEW p \in Pod, SetupIPMasq(p), UNCHANGED <<chained, leased>> PROVE Claimed(f)'
  BY <1>7 DEF SetupIPMasq
<1>8. ASSUME NEW p \in Pod, MarkNodePorts(p), UNCHANGED <<chained, leased>> PROVE Claimed(f)'
  BY <1>8 DEF MarkNodePorts
<1>9. ASSUME NEW p \in Pod, AddNodePortRule(p), UNCHANGED <<chained, leased>> PROVE Claimed(f)'
  BY <1>9 DEF AddNodePortRule
<1>10. ASSUME NEW p \in Pod, AddFault(p), UNCHANGED <<chained, leased>> PROVE Claimed(f)'
  BY <1>10 DEF AddFault, AddError, Fault
<1>11. ASSUME NEW p \in Pod, TeardownIPMasq(p), UNCHANGED <<chained, leased>> PROVE Claimed(f)'
  BY <1>11 DEF TeardownIPMasq
<1>12. ASSUME NEW p \in Pod, RuleDel(p), UNCHANGED <<chained, leased>> PROVE Claimed(f)'
  BY <1>12 DEF RuleDel, DelError
<1>13. ASSUME NEW p \in Pod, LinkDel(p), UNCHANGED <<chained, leased>> PROVE Claimed(f)'
  <2>1. CASE p \in veth
    <3>1. /\ veth' = veth \ {p}
          /\ \A t \in Tables, d \in Dst : via'[t][d] = IF via[t][d] = p THEN NoPod ELSE via[t][d]
          /\ \A q \in Pod \ {p} : pc'[q] = pc[q]
          /\ pc'[p] = "ptpdone"
          /\ UNCHANGED <<rule, table, left>>
      BY <1>13, <2>1 DEF LinkDel, DropVeth
    <3>2. /\ \A q \in Pod : /\ rule[q] \in Tables \cup {NoTable}
                            /\ pc[q] = "routes" => table[q] \in Tables
          /\ veth \subseteq Pod
      OBVIOUS
    <3> HIDE DEF TypeOK, Locals, Veths
    <3>3. \A t \in Tables, d \in Dst : via'[t][d] # NoPod => via'[t][f] = via'[t][d]
      BY <3>1
    <3>4. \A q \in Pod \ {p}, t \in Tables : via[t][f] = q => via'[t][f] = q
      BY <3>1
    <3> HIDE DEF Claimed
    <3>5. \A q \in Pod : pc'[q] = "routes" /\ f \notin left'[q] => via'[table'[q]][f] = q
      BY <3>1, <3>2, <3>4 DEF Claimed
    <3>6. \A q \in Pod : q \in veth' /\ rule'[q] # NoTable => via'[rule'[q]][f] = q
      BY <3>1, <3>2, <3>4 DEF Claimed
    <3>7. QED
      BY <3>3, <3>5, <3>6 DEF Claimed
  <2>2. CASE p \notin veth
    BY <1>13, <2>2 DEF LinkDel, DelError
  <2>3. QED
    BY <2>1, <2>2
<1>14. ASSUME NEW p \in Pod, DelFault(p), UNCHANGED <<chained, leased>> PROVE Claimed(f)'
  BY <1>14 DEF DelFault, DelError, Fault
<1>15. ASSUME NEW p \in Pod, IpamAdd(p) PROVE Claimed(f)'
  BY <1>15 DEF IpamAdd, ChainError
<1>16. ASSUME NEW p \in Pod, CreateIpvlan(p) PROVE Claimed(f)'
  BY <1>16 DEF CreateIpvlan, ChainError
<1>17. ASSUME NEW p \in Pod, ConfigureIface(p) PROVE Claimed(f)'
  BY <1>17 DEF ConfigureIface
<1>17b. ASSUME NEW p \in Pod, ConfigureFails(p) PROVE Claimed(f)'
  BY <1>17b DEF ConfigureFails, Fault
<1>18. ASSUME NEW p \in Pod, ChainFault(p) PROVE Claimed(f)'
  BY <1>18 DEF ChainFault, ChainError, Fault
<1>19. ASSUME NEW p \in Pod, IpamDel(p) PROVE Claimed(f)'
  BY <1>19 DEF IpamDel, Fault
<1>20. ASSUME NEW p \in Pod, DelDevice(p) PROVE Claimed(f)'
  BY <1>20 DEF DelDevice
<1>21. ASSUME NEW p \in Pod, ChainDelFault(p) PROVE Claimed(f)'
  BY <1>21 DEF ChainDelFault, DelError, Fault
<1>22. ASSUME NEW p \in Pod, AddBegin(p) PROVE Claimed(f)'
  BY <1>22 DEF AddBegin
<1>23. ASSUME NEW p \in Pod, CallDel(p) PROVE Claimed(f)'
  BY <1>23 DEF CallDel, DelLookup
<1>24. ASSUME NEW p \in Pod, RemoveNetns(p) PROVE Claimed(f)'
  BY <1>24 DEF RemoveNetns, KeptOpen, DropVeth
<1>25. ASSUME NEW p \in Pod, Forget(p) PROVE Claimed(f)'
  BY <1>25 DEF Forget
<1>26. QED
  BY <1>1, <1>2, <1>3, <1>4, <1>5, <1>6, <1>7, <1>8, <1>9, <1>10, <1>11, <1>12, <1>13, <1>14,
     <1>15, <1>16, <1>17, <1>17b, <1>18, <1>19, <1>20, <1>21, <1>22, <1>23, <1>24, <1>25
     DEF Next, Plugin, Ptp, PtpStep

-----------------------------------------------------------------------------
(* The invariant holds at the start. *)
LEMMA ChainInit == Init => ChainInv
<1> SUFFICES ASSUME Init PROVE ChainInv
  OBVIOUS
<1>1. PICK c \in Configs : chained = c.chained /\ ipMasq = c.ipMasq
  BY DEF Init
<1>2. chained \in BOOLEAN /\ ipMasq \in BOOLEAN
  BY <1>1, ConfigAssumption
<1>3. TypeOK
  <2>1. pc \in [Pod -> Labels] /\ \A p \in Pod : pc[p] \notin PtpAdd
    BY DEF Init, PtpInit, Labels, PtpAdd
  <2>2. tries \in [Pod -> 0 .. MaxTries] /\ faults \in 0 .. MaxFaults
    BY TableAssumption DEF Init, PtpInit
  <2>3. QED
    BY <1>2, <2>1, <2>2 DEF Init, PtpInit, TypeOK, PtpAdd
<1>4. Locals /\ Veths
  BY RouteAssumption DEF Init, PtpInit, Locals, Veths
<1>5. SetUp /\ Leases /\ TakenDown /\ Holders
  BY DEF Init, PtpInit, SetUp, Leases, TakenDown, Holders
<1>6. QED
  BY <1>3, <1>4, <1>5 DEF ChainInv

(* Every step keeps the invariant. *)
LEMMA ChainStep ==
    ASSUME ChainInv, [Next]_vars
    PROVE  ChainInv'
<1>1. CASE Next
  <2>1. TypeOK' /\ Locals'
    BY <1>1, TypeStep DEF ChainInv
  <2>2. Veths' /\ SetUp'
    BY <1>1, VethsStep, SetUpStep DEF ChainInv
  <2>3. Leases' /\ TakenDown' /\ Holders'
    BY <1>1, LeasesStep, HoldersStep DEF ChainInv
  <2>4. QED
    BY <2>1, <2>2, <2>3 DEF ChainInv
<1>2. CASE UNCHANGED vars
  <2> USE <1>2 DEF vars, ptpVars, kernel, choice
  <2>1. TypeOK' /\ Locals' /\ Veths'
    BY DEF ChainInv, TypeOK, Locals, Veths
  <2>2. SetUp'
    BY DEF ChainInv, SetUp, SetUpFor
  <2>3. Leases' /\ TakenDown' /\ Holders'
    BY DEF ChainInv, Leases, TakenDown, Holders
  <2>4. QED
    BY <2>1, <2>2, <2>3 DEF ChainInv
<1>3. QED
  BY <1>1, <1>2

(* ChainInv is an invariant of the chain of plugins, in each of its         *)
(* configurations.                                                         *)
THEOREM ChainInvariance == Spec => []ChainInv
<1>1. Init => ChainInv
  BY ChainInit
<1>2. ChainInv /\ [Next]_vars => ChainInv'
  BY ChainStep
<1>3. QED
  BY <1>1, <1>2, PTL DEF Spec

(* The types are kept; addPolicyRules makes at most MaxTries attempts.      *)
THEOREM ChainTypeCorrect == Spec => []TypeOK
<1>1. ChainInv => TypeOK
  BY DEF ChainInv
<1>2. QED
  BY <1>1, ChainInvariance, PTL

(* However many pods are set up and taken down at the same time, an ADD    *)
(* that succeeded has set up all that its pod needs, and nothing that      *)
(* happens to other pods takes it away.                                    *)
THEOREM AddsComplete == Spec => []UpComplete
<1>1. ChainInv => UpComplete
  <2> SUFFICES ASSUME ChainInv, NEW p \in Pod, pc[p] = "up", netns[p]
               PROVE  /\ p \in veth /\ dev[p] = "bound"
                      /\ hostRoute[addr[p]] = p
                      /\ rule[p] # NoTable
                      /\ \A d \in Cidrs[p] : via[rule[p]][d] = p
                      /\ ipMasq => p \in chains
                      /\ marked /\ npRule
    BY DEF UpComplete
  <2>1. SetUpFor(p)
    BY DEF ChainInv, SetUp
  <2>2. QED
    BY <2>1 DEF SetUpFor, Routed
<1>2. QED
  BY <1>1, ChainInvariance, PTL

(* With ipMasq, cmdDel removes the host's route to an address before the   *)
(* IPAM plugin takes the address back.                                     *)
THEOREM RoutesToHolders == Spec => []RouteToHolder
<1>1. ChainInv => RouteToHolder
  BY DEF ChainInv, TypeOK, Veths, Holders, RouteToHolder
<1>2. QED
  BY <1>1, ChainInvariance, PTL

(* With ipMasq, a DEL that succeeded in a namespace leaves no rule, veth   *)
(* or chain behind outside of it, and no lease of an address that scans do *)
(* not see.                                                                *)
THEOREM DelsClean == Spec => []DelClean
<1>1. ChainInv => DelClean
  BY DEF ChainInv, TypeOK, TakenDown, DelClean
<1>2. QED
  BY <1>1, ChainInvariance, PTL

(* Where the sorted routes of all pods start with the same destination, no *)
(* two pods share a routing table: the first route wins the table.         *)
THEOREM TablesExclusive ==
    ASSUME NEW f, First(f)
    PROVE  Spec => []TableExclusive
<1>1. Init => Claimed(f)
  BY RouteAssumption, TableAssumption DEF Init, PtpInit, Claimed, First
<1>2. ChainInv /\ Claimed(f) /\ [Next]_vars => Claimed(f)'
  <2> SUFFICES ASSUME ChainInv, Claimed(f), [Next]_vars PROVE Claimed(f)'
    OBVIOUS
  <2>1. CASE Next
    BY <2>1, ClaimedStep DEF ChainInv
  <2>2. CASE UNCHANGED vars
    BY <2>2 DEF Claimed, vars, ptpVars, kernel, choice
  <2>3. QED
    BY <2>1, <2>2
<1>3. ChainInv /\ Claimed(f) => TableExclusive
  <2> SUFFICES ASSUME ChainInv, Claimed(f), NEW p \in veth, rule[p] # NoTable, NEW d \in Dst
               PROVE  via[rule[p]][d] \in {p, NoPod}
    BY DEF TableExclusive
  <2>1. p \in Pod /\ rule[p] \in Tables
    BY DEF ChainInv, TypeOK
  <2>2. via[rule[p]][f] = p
    BY <2>1 DEF Claimed
  <2>3. QED
    BY <2>1, <2>2 DEF Claimed
<1>4. QED
  BY <1>1, <1>2, <1>3, ChainInvariance, PTL DEF Spec

(* With ipMasq the sandbox whose address cmdDel of the IPAM plugin finds   *)
(* still has the lease: no DEL ends the lease of another sandbox.          *)
THEOREM OthersKeepLeases == Spec => OwnLeaseOnly
<1>1. ChainInv /\ [Next]_vars =>
        [ipMasq => \A p \in Pod : IpamDel(p) => leased \ {p} \subseteq leased']_vars
  <2> SUFFICES ASSUME ChainInv, ipMasq, NEW p \in Pod, IpamDel(p), NEW q \in leased \ {p}
               PROVE  q \in leased'
    OBVIOUS
  <2>1. CASE netns[p] /\ dev[p] = "bound"
    <3>1. p \in leased
      BY <2>1 DEF ChainInv, Holders, IpamDel
    <3>2. addr[q] # addr[p]
      BY <3>1 DEF ChainInv, Leases
    <3>3. QED
      BY <2>1, <3>2 DEF IpamDel
  <2>2. CASE ~(netns[p] /\ dev[p] = "bound")
    BY <2>2 DEF IpamDel
  <2>3. QED
    BY <2>1, <2>2
<1>2. QED
  BY <1>1, ChainInvariance, PTL DEF Spec, OwnLeaseOnly

(* A step that leaves the leases alone, or the sandboxes that have them,   *)
(* is none of AddressLease.                                                *)
LEMMA QuietLease ==
    ASSUME leased' = leased, \A q \in leased : addr'[q] = addr[q]
    PROVE  UNCHANGED Lease!lease
BY DEF Lease!lease

(* A sandbox that loses its lease gives its address back. *)
LEMMA EndsLease ==
    ASSUME TypeOK, Leases, NEW p \in Pod, leased' = leased \ {p}, addr' = addr
    PROVE  [Lease!Next]_(Lease!lease)
<1>1. CASE p \notin leased \/ addr[p] \notin Addr
  BY <1>1 DEF Lease!lease
<1>2. ASSUME p \in leased, NEW a \in Addr, addr[p] = a
      PROVE  Lease!Next
  <2>1. Lease!GiveBack(p, a)
    BY <1>2 DEF Lease!GiveBack, Leases
  <2>2. QED
    BY <2>1 DEF Lease!Next
<1>3. QED
  BY <1>1, <1>2

(* The IPAM plugin's ADD lends an address that nobody has. *)
LEMMA BeginsLease ==
    ASSUME TypeOK, Leases, NEW p \in Pod, p \notin leased, NEW a \in Addr,
           \A q \in leased : addr[q] # a,
           addr' = [addr EXCEPT ![p] = a], leased' = leased \cup {p}
    PROVE  Lease!Next
<1>1. Lease!Lend(p, a)
  <2>1. {q \in leased : addr[q] = a} = {}
    OBVIOUS
  <2>2. {q \in leased' : addr'[q] = a} = {p}
    BY DEF TypeOK
  <2>3. ASSUME NEW b \in Addr, b # a
        PROVE  {q \in leased' : addr'[q] = b} = {q \in leased : addr[q] = b}
    BY <2>3 DEF TypeOK
  <2> DEFINE Lent == [x \in Addr |-> {q \in leased : addr[q] = x}]
  <2>4. Lent' = [Lent EXCEPT ![a] = {p}]
    BY <2>2, <2>3
  <2>5. Lent[a] = {}
    BY <2>1
  <2>6. QED
    BY <2>4, <2>5 DEF Lease!Lend
<1>2. QED
  BY <1>1 DEF Lease!Next

(* The IPAM plugin's DEL ends at most one lease: that of whoever has the   *)
(* address it found.                                                       *)
LEMMA TakesBack ==
    ASSUME TypeOK, Leases, NEW p \in Pod, IpamDel(p)
    PROVE  [Lease!Next]_(Lease!lease)
<1>1. addr' = addr
  BY DEF IpamDel
<1>2. CASE leased' = leased
  BY <1>1, <1>2, QuietLease
<1>3. CASE leased' # leased
  <2>1. leased' = {q \in leased : addr[q] # addr[p]}
    BY <1>3 DEF IpamDel
  <2>2. PICK q \in leased : addr[q] = addr[p]
    BY <1>3, <2>1
  <2>3. leased' = leased \ {q} /\ q \in Pod
    BY <2>1, <2>2 DEF Leases, TypeOK
  <2>4. QED
    BY <1>1, <2>3, EndsLease
<1>4. QED
  BY <1>2, <1>3

(* Every step of the chain is a step of AddressLease or leaves it alone. *)
LEMMA ChainLeaseStep ==
    ASSUME TypeOK, Leases, Next
    PROVE  [Lease!Next]_(Lease!lease)
<1>1. ASSUME NEW p \in Pod, Ptp(p) \/ CallDel(p) PROVE UNCHANGED <<addr, leased>>
  BY <1>1 DEF Ptp, CallDel, PtpStep, SetupContainerVeth, AddHostRoute, FindFreeTable, RouteAdd,
     RouteRefused, RuleAdd, SetupIPMasq, MarkNodePorts, AddNodePortRule, AddFault,
     TeardownIPMasq, RuleDel, LinkDel, DelFault, DelLookup
<1>2. ASSUME NEW p \in Pod, ConfigureIface(p) \/ ConfigureFails(p) \/ ChainDelFault(p) \/ AddBegin(p)
      PROVE  UNCHANGED <<addr, leased>>
  BY <1>2 DEF ConfigureIface, ConfigureFails, ChainDelFault, AddBegin
<1>3. UNCHANGED <<addr, leased>> => [Lease!Next]_(Lease!lease)
  BY QuietLease
<1>4. ASSUME NEW p \in Pod, IpamAdd(p) PROVE [Lease!Next]_(Lease!lease)
  <2>1. CASE ChainError(p)
    BY <2>1, EndsLease DEF ChainError
  <2>2. CASE ~ChainError(p)
    <3>1. PICK a \in Addr : /\ \A q \in leased : addr[q] # a
                            /\ addr' = [addr EXCEPT ![p] = a]
                            /\ leased' = leased \cup {p}
      BY <1>4, <2>2 DEF IpamAdd
    <3>2. p \notin leased
      BY <1>4 DEF IpamAdd, Leases
    <3>3. QED
      BY <3>1, <3>2, BeginsLease
  <2>3. QED
    BY <2>1, <2>2
<1>5. ASSUME NEW p \in Pod, CreateIpvlan(p) \/ ChainFault(p) PROVE [Lease!Next]_(Lease!lease)
  <2>1. CASE ChainError(p)
    BY <2>1, EndsLease DEF ChainError
  <2>2. CASE ~ChainError(p)
    BY <1>3, <1>5, <2>2 DEF CreateIpvlan, ChainFault
  <2>3. QED
    BY <2>1, <2>2
<1>6. ASSUME NEW p \in Pod, RemoveNetns(p) \/ DelDevice(p) PROVE [Lease!Next]_(Lease!lease)
  BY <1>6, EndsLease DEF RemoveNetns, DelDevice
<1>7. ASSUME NEW p \in Pod, Forget(p) PROVE [Lease!Next]_(Lease!lease)
  <2>1. p \notin leased
    BY <1>7 DEF Forget, Leases
  <2>2. leased' = leased /\ \A q \in leased : addr'[q] = addr[q]
    BY <1>7, <2>1 DEF Forget, TypeOK
  <2>3. QED
    BY <2>2, QuietLease
<1>8. QED
  BY <1>1, <1>2, <1>3, <1>4, <1>5, <1>6, <1>7, TakesBack DEF Next, Plugin

(* The chain of plugins implements AddressLease, which the address manager *)
(* implements too: however ADDs, DELs, errors and ends of namespaces       *)
(* interleave, an address is lent to one sandbox at a time.                *)
THEOREM ChainLends == Spec => LeaseSpec
<1>1. Init => Lease!Init
  BY DEF Init, Lease!Init
<1>2. ChainInv /\ [Next]_vars => [Lease!Next]_(Lease!lease)
  <2> SUFFICES ASSUME ChainInv, [Next]_vars PROVE [Lease!Next]_(Lease!lease)
    OBVIOUS
  <2>1. CASE Next
    BY <2>1, ChainLeaseStep DEF ChainInv
  <2>2. CASE UNCHANGED vars
    BY <2>2, QuietLease DEF vars, ptpVars
  <2>3. QED
    BY <2>1, <2>2
<1>3. QED
  BY <1>1, <1>2, ChainInvariance, PTL DEF Spec, LeaseSpec, Lease!Spec
=============================================================================
