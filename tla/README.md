# A verification project for cni-ipvlan-vpc-k8s

cni-ipvlan-vpc-k8s gives the pods of a Kubernetes node on EC2 addresses of the
VPC. A pod's address is a secondary address of one of the instance's network
interfaces (ENIs). It is found or allocated by an IPAM plugin, bound in the pod's
network namespace by an ipvlan plugin, and given back by the IPAM plugin's DEL or by
a garbage collector run from a timer. There is no daemon: all of it is short-lived
processes that share a lock file, a JSON registry of free addresses, and what they
can observe (EC2's instance metadata, the addresses in the namespaces).

The project models three groups of these processes: the address manager (the IPAM
plugin, the tool's address commands and the registry), the chain of plugins that sets
a pod up and takes it down, and the life of the network interfaces with the cached
answers of EC2 behind it. It model-checks all three, and proves every safety property it
checks for every number of pods, addresses, interfaces and commands; liveness is
model-checked.

## Inventory

| component | source | state | operations |
|---|---|---|---|
| IPAM plugin | `plugin/ipam/main.go` | none of its own | ADD, DEL, under the lock file |
| registry | `aws/registry.go`, `lib/jsontime.go` | the file: address to release time | TrackIP, TrackIPAtEpoch, ForgetIP, HasIP, TrackedBefore, List; load prefills a missing file |
| discovery | `aws/freeip.go`, `nl/desc.go`, `aws/metadata.go` | reads metadata and namespaces | FindFreeIPsAtIndex reconciles the registry with both |
| allocation | `aws/allocate.go` | EC2's assignment | AllocateIPsOn (assign, then poll the metadata), DeallocateIP |
| interfaces | `aws/interface.go`, `nl/` | attached ENIs | NewInterface (create, attach, poll), RemoveInterface |
| tool | `cmd/cni-ipvlan-vpc-k8s-tool` | none of its own | registry-gc, registry-list, allocate-first-available, new-interface, deallocate, remove-interface, printing commands |
| lock file | `lib/lock.go` | the lock | 1000 tries, take-over of a dead holder's lock |
| ipvlan plugin | `plugin/ipvlan` | link in the namespace | ADD creates the link, runs IPAM, binds the address; DEL runs IPAM, removes the link |
| unnumbered-ptp plugin | `plugin/unnumbered-ptp` | veth pair, routing tables, rules, iptables | ADD, DEL, without the lock |
| CNI chain | the three plugins | what they leave in kernel and registry | ADD in order, DEL in reverse, DEL repeated |
| API cache | `aws/cache`, `aws/limits.go`, `aws/subnets.go`, `aws/vpc.go` | JSON files with an expiry | Get, Store |
| EC2 clients | `aws/client.go`, `aws/bugs.go` | memoised SDK clients | getIDDoc, newEC2 |

How they interact. The ipvlan plugin runs the IPAM plugin as a child process. The IPAM
plugin's whole body runs under the lock file, and so does each tool command that
changes something. The lock is released *before* ipvlan binds the address, so between the two the
address is neither registered nor bound: the README of the program calls
`reuseIPWait` the lock that covers this window. EC2 and the metadata service
disagree for some seconds after each change. unnumbered-ptp takes no lock at all: the
ADDs and DELs of different pods meet in the kernel's routing tables. The cache files
are shared with commands that take no lock either.

What is hard here: the hand-off window; scans that use a snapshot of metadata and
namespaces some time after it was taken; stale metadata; release times truncated to
seconds; registry writes that are not atomic; DELs that are repeated or never get the
lock; sandboxes that die without a DEL; routing tables chosen before they are
claimed; ADDs that fail half way and the DELs that follow; interfaces that are created
and not attached, or detached and not deleted; clients memoised together with their
first error. PROJECT.json lists each such hazard with its
line and the properties that cover it.

What makes each component correct: an address is lent to one pod at a time and stays
assigned while lent (IPAM, allocation, gc); a released address rests for
`reuseIPWait`, up to the second the stored times lose (registry); gc respects `max-reap`; the lock is given back (lock,
polls); two pods never share a policy routing table, an ADD that succeeded is complete,
a DEL that succeeded is clean and one that failed can be repeated (ptp, chain); device
indexes have no gaps and no interface is left behind unexplained (interfaces); an answer
that is used is no older than its lifetime allows (cache).

## Modules

* **Registry**: the contents of the registry as a function from addresses to release
  times, and its operations. `Trunc` is the loss of fractions of a second in
  RFC 3339; `Second` says how many ticks a second has.
* **Ipam**: the address manager. As at most one process is inside the lock, the
  local variables of the holder (`pc`, `todo`, `found`, `free`, `eni`, `base`,
  `alloc`, `reap`, `scanAt`) are variables of the module. The actions follow the
  code in order:
  * ADD: `AddBegin` (GetInterfaces), `AddAssigned` (GetIPs), `AddReconcile` (one turn
    of FindFreeIPsAtIndex's loop), `AddReconcileFails`, `AddScanned`, `AddPick`,
    `AddNoneReusable`, then `Allocate`, `LocateFound` / `LocatePoll` / `LocateGiveUp`
    (AllocateIPsOn), then `NewInterface`, `NewInterfaceShows` / `NewInterfaceFails`,
    and `AddFinish`.
  * DEL: `DelBegin`, `DelDeallocate`, `DelFails`, `DelTrack`; `DelNothing` when there is
    nothing to read in the namespace, `DelTimesOut` when the lock was never acquired.
  * registry-gc: `GcBegin`, `GcAssigned`, `GcForgetUsed`, `GcDeallocate`, `GcForget`,
    `GcSkip`, `GcDone`. Other commands: `ToolAllocate`, `ToolNewInterface`,
    `ToolRegistryList`, `ToolDeallocate`.
  * `Abort`: an error return or a crash anywhere inside the lock, possibly in the middle of a
    registry write.
  * beside the lock: `Bind`, `ChainFails`, `StartDel`, `RemoveNetns`, `Sync` (the
    metadata catches up on one address), `Tick`.
* **AddressLease**: what the manager promises, over the assigned addresses and their
  holders only. Ipam and CniChain each implement it.
* **IpamHistory**: Ipam with two history variables, for the rest period and for
  max-reap.
* **IpamInvariant**, **IpamHistoryInvariant**: the inductive invariants of the two.
* **PolicyRouting**: the unnumbered-ptp plugin and the part of the kernel it
  configures, one action per netlink or iptables call that others can see.
  * ADD: `SetupContainerVeth`, `AddHostRoute` (setupHostVeth), then addPolicyRules with
    `FindFreeTable`, `RouteAdd`, `RouteRefused` (the retry loop) and `RuleAdd`, then
    `SetupIPMasq`, `MarkNodePorts` and `AddNodePortRule` (setupNodePortRule, which reads
    the rules before it adds its own); `AddFault` is an error return of any other call.
  * DEL: `DelLookup`, `TeardownIPMasq`, `RuleDel`, `LinkDel`, `DelFault`.
  * `DropVeth` is what the kernel does when a device goes: its routes go, a rule that
    names it stays.
* **CniChain**: PolicyRouting composed with the ipvlan plugin (`CreateIpvlan`,
  `ConfigureIface`, `ConfigureFails`, `DelDevice`), with the IPAM plugin as what Ipam shows of it (`IpamAdd`,
  `IpamDel`), and with the runtime (`AddBegin`, `CallDel`, `RemoveNetns`, `Forget`). `chained`
  tells the two ways of configuring IPAM apart: as a plugin of the list, or in ipvlan's
  ipam block, where ipvlan runs it between making the device and configuring it.
* **ApiCache**: the cache files and a lookup in them (`CacheGet`; `DescribeInstanceTypes`,
  `DescribeSubnets`, `DescribeVpc`; `StoreOpen`, `StoreWrite`), with getIDDoc and
  newEC2 as each process has them (`LimitsIdDoc`, `HasClient`, `ClientFails`,
  `ClientPanics`).
* **Eni**: ApiCache composed with NewInterface (`NewInterface`, `GotSubnets`, `GotLimits`,
  `GetClient`, `GotBatch`, `CreateNetworkInterface`, `AttachNetworkInterface`, `Cleanup`,
  `ModifyAttribute`, `PollMetadata`) and RemoveInterface (`RemoveInterface`,
  `DescribeInterface`, `Detach`, `WaitDetached`, `DeleteInterface`) under the lock, and
  beside it `DetachDone` (EC2), `Sync` (metadata), `Query` / `AskAgain` / `QueryEnds` (commands
  without the lock), `Crash` and `Tick`.
* **CniChainInvariant**, **EniInvariant**: the inductive invariants of the chain and of Eni.
* **MCIpam**, **MCIpamHistory**, **MCCniChain**, **MCEni**: instances for TLC.
* **IpamTypeProofs**, **IpamStepProofs**, **IpamSafetyProofs**,
  **IpamRefinementProofs**, **IpamHistoryProofs**, **CniChainProofs**, **EniProofs**: the
  proofs.

In Ipam a pod goes through `off`, `adding`, `handoff` (the IPAM plugin has offered it an
address), `up` (the address is bound), `deleting`, `released` (DEL is done, the
namespace still exists). It *owns* its address in `handoff`, `up` and `deleting`.

Abstractions worth knowing:

* `EniOf` fixes the interface an address can appear on: each interface has a subnet
  of its own. The choice among interfaces with room is left open, which covers the
  order by free addresses of the subnet.
* The snapshot AllocateIPsOn takes of an interface and its call to EC2 are one
  action. Between the two only the metadata can move, and an address that appears or disappears
  there is one that the later polls meet in the same way.
* All loads of a missing registry within one action have the same outcome
  (prefilled, or empty because the free addresses could not be listed).
* A tracked address gets the time of the action, although a loop may take a while.
* EC2's limits are constants; the fallback limits used when they cannot be read are
  not modelled.
* A boot interface carries one address (the node's own) that is not in `IP`; it
  counts in `Occupancy`.
* In CniChain the IPAM plugin lends an address that no sandbox has and takes back the
  one it finds in the namespace. That this is what it does, under the timing assumption,
  is what Ipam is about. The address of an ADD that fails before it is configured is
  free again, as it is registered nowhere and bound nowhere.
* The destinations of a pod's routes are numbered in the order addPolicyRules sorts
  them; `Cidrs` says which of them each pod's result has, without duplicates.
* When the IPAM plugin's DEL never gets its lock it ends without an error and the address stays
  lent: until its namespace goes, or ipvlan removes the device it is configured on.
* A plugin's ADD opens the namespace and keeps it open, so `RemoveNetns` waits until it
  has returned; a DEL does not.
* An answer of EC2 is represented by the time it was given; only its age matters here.
  DescribeVPCCIDRs and DescribeVPCPeerCIDRs are one question.
* EC2 refuses to detach an interface that is not attached, as it does after a detachment that
  timed out and completed later; DetachInterface's error ends the command.
* remove-interface with several ids is several commands, one after the other.
* The 1000 tries for the lock are not counted: a process may give up whenever another
  one has the lock.

## Assumptions

`TimingAssumption` is the operator's obligation, and what the proofs rest on:
`reuseIPWait` is at least the longest hand-off plus the longest scan plus a second
lost to truncation, and likewise for the lag of the metadata; registry-gc's
`--free-after` is at least the longest hand-off plus that second; the epoch (the
year 1) lies further back than either. `MaxHandoff`, `MaxScan` and `MaxLag` are enforced by
the guard of `Tick`, so time never passes beyond one of them. Picking an address one
tick earlier breaks NoSharedAddress in the `release` run, so the bound is tight.

`Undisturbed` says that GetIPs sees every namespace, that the record of a release is
not lost altogether (a torn write is allowed), that a DEL that was done is not
repeated, and that no operator runs `deallocate`. Each of the four is a constant of Ipam
that can be switched on. With any of them the safety properties fail; two of these
failures contradict what the program says of itself and are kept as runs, the others
are listed as hazards.

The chain needs no timing. `TablesExclusive` assumes `First(f)`: the sorted routes of
all pods start with the same destination `f`. That is what the comment about "netlink
atomicity" in addPolicyRules relies on; `mixed_tables` shows what happens without it.
`NsOutlivesDel` says whether the runtime keeps a namespace until its DEL succeeds. Once a
namespace is gone the runtime is assumed to call DEL with an empty path, which each plugin takes
as nothing to do; with the path of a namespace that is gone unnumbered-ptp would fail in every
DEL, and `SandboxEnds` would not hold (the mutant `DelLookupStrict`).

## Runs

Passing:

| run | shows | size |
|---|---|---|
| `release` | two pods, an interface from boot and one to be created, whose primary address is never unassigned; DEL unassigns, lag, slow scans, failing and torn writes, entries from the epoch: exclusive, kept, the inductive invariant, and a refinement of AddressLease | 1 600 000 states |
| `reuse` | skipDeallocation, three ticks per second, both addresses from boot, gc with jitter and max-reap 1: exclusive, a rest short by less than a second, the reap budget, the inductive invariant of the histories | 510 000 states |
| `lock` | one pod, two interfaces, all faults and disturbances, the operator's deallocate included: the lock is released | 25 000 states |
| `chain` | two pods, all four configurations, one failing call anywhere, namespaces that vanish: tables are exclusive, ADDs complete, DELs clean, routes lead to holders, no DEL ends another's lease, leases are AddressLease's, failed sandboxes end; the inductive invariant | 520 000 states |
| `cloud` | two pod interfaces, none at boot; three commands, one of which may run without the lock; one failure or crash anywhere: fresh answers, explained leaks, contiguous indexes, commands end; the inductive invariant | 1 340 000 states |

Violations, each against a sentence of the repository (see `findings`):

| run | what the code does |
|---|---|
| `hidden_namespaces` | GetIPs skips a namespace it cannot enter: the address bound there is lent again |
| `repeated_del` | a repeated IPAM DEL unassigns the address of another pod |
| `early_reuse` | an entry made during a hand-off ages while the pod runs |
| `del_again` | a DEL of unnumbered-ptp after a failed ADD, or after one that removed the veth, fails for ever while the namespace is kept |
| `mixed_tables` | pods whose routes start with different destinations write into the same table, and the routes of one stay in the table the other's rule names |
| `lost_error` | NewInterface announces fallback limits and dereferences the document it could not get |
| `short_rest` | truncated release times: an address is handed out up to a second before `reuseIPWait` has passed |

Bounds. Two pods suffice for a conflict: one that has the address and one that gets
it, the failed scan that leaves an entry behind being made by the second one earlier.
Two addresses let a reuse and an allocation, or two reaps, happen in one behaviour.
`MaxTime` leaves room for an address to be handed out, given back, to rest and to be handed out
again. The waits are the smallest that `TimingAssumption` allows. Pods are
symmetric; symmetry is not used in the liveness runs.

In the chain two pods are enough for a race over a table, an address or the NodePort
rule. Two tables and two tries make both the retry and the lack of a table happen, and
two destinations, of which one pod has only the first, a table that is filled half way. One
failing call per behaviour interrupts an ADD or a DEL at any point, and as sandboxes
are forgotten and begun again, what it leaves behind meets later ADDs. In `cloud` no pod
interface is attached at boot, so that two can be before anything is removed: a second creation
while the metadata still misses the first interface chooses the index that one has, EC2 refuses
it, and it is cleaned up after. Two interfaces also reach EC2's limit. `MaxCommands` = 3 allows
for two creations and a removal, or for a command that races them over a cache file. The
removal of an interface below another one, after which every creation is refused, would take a
fourth command; the theorems of EniProofs cover it.

Fairness. In Ipam and Eni only `WF_vars(HolderStep)`: the process that holds the lock
keeps being scheduled, and each of its polls is bounded in the code (ten attempts, the
settle time, the detach attempts). Nothing is assumed of crashes, of the metadata
service, of EC2, of the clock or of the runtime. In CniChain a plugin that was called keeps running,
and the runtime does what Kubernetes does with a sandbox that failed: it repeats the DEL,
takes the namespace down and forgets the sandbox. It is not assumed that a running pod is
ever deleted.

Deadlock is checked in all runs but those of Eni, whose behaviours end when
`MaxCommands` commands have been run.

## Proofs

`TypeCorrect` proves the type invariant, with the control structure (`Control`: which
label belongs to which holder), with no assumption but those on the constants.

`Invariance` proves `IInv` for an undisturbed manager. NoSharedAddress alone is not
inductive: that the address an ADD ends with is nobody's depends on when its entry
was made. The invariant follows an entry's age through the code:

* `HandoffFresh`: an address in a hand-off has no entry older than the hand-off, as
  `AddFinish` removes it and scans can only enter it anew;
* `ReleaseFresh`: an address that EC2 has taken back, and the metadata still shows,
  has no entry older than the release, except while that release is being recorded;
* `ScanInv`: the same two facts relative to the time of the scan, for the addresses
  the scan found free, so that `TimingAssumption` excludes them when an address is picked
  (`PickSafe`);
* `AllocationInv`: an address that appears on the interface being polled is new, so
  nobody's, and `Assigned`: EC2 and the metadata both have the address of a pod;
* `ReleaseInv`: DEL releases its own pod's address; what registry-gc releases was
  neither in a hand-off when its age was read (`FreeAfter`) nor bound afterwards;
* `Unregistered`: before the registry file exists nothing has been handed out, so
  that prefilling it at the epoch is harmless.

IpamStepProofs proves, action by action, what a step can do to each part of the
state (`Effect`, `LocalEffect`); IpamSafetyProofs shows from that alone that each part of the
invariant is kept, and concludes `Exclusive` (NoSharedAddress) and `Kept`
(OwnersAssigned).

`Implements` (IpamRefinementProofs) proves that the undisturbed manager implements
AddressLease: `LeaseStep` maps each action to Assign, Unassign, Lend, GiveBack or a
stutter. It needs one fact more than `IInv`, `DelOwns`: the address DEL is about to release is
the only one its pod can have, else a DEL would unassign one address and end the
lease of another in one step.

`ChainInvariance` (CniChainProofs) proves `ChainInv` of the chain, with no assumption but
those on the constants. None of the chain's properties is inductive: each is about the end of an
ADD or a DEL whose steps interleave with those of the others. The invariant says what
holds at every step in between:

* `Locals`: what the label of a plugin says of its local variables (it has an address,
  the tries are within the bound, the routes still to add are the pod's);
* `Veths`: a veth lives in a namespace, the label says whether it exists and whether its
  rule does, and the host's route to an address leads to a veth of the pod that has it;
* `SetUpFor`: what an ADD has done by each label. The hard part is that nobody undoes it:
  `SetUpFrame` reduces this to what a step may take from another pod, and `RouteFits` and
  `DropVeth` show that routes are only added where there are none and only removed with
  their own veth;
* `TakenDown`: the same for a DEL with ipMasq, in the order chain, rule, veth, lease
  (the lease stays when the IPAM DEL never got the lock: the address is then still configured);
* `Leases` and `Holders`: an address is lent to one sandbox, which exists, and with ipMasq whoever
  has a veth has its address; they support each other, since the IPAM DEL takes back an
  address, not a sandbox.

`AddsComplete`, `RoutesToHolders` and `DelsClean` follow from it. `TablesExclusive` needs
`Claimed(f)` besides: whoever has the first route of a table has all routes of it, and a
pod that is past its first route, or whose rule names the table, has the first route.

`OthersKeepLeases` proves OwnLeaseOnly, an action property, from `Leases` and `Holders`: the
IPAM DEL goes by the address it finds, and with ipMasq the sandbox it is run for still has
the lease of it, because the veth that cmdDel of unnumbered-ptp insists on goes before the
lease does. Without ipMasq this is false: a DEL that failed at the ipvlan device is repeated
and meets the address in another's hands (`repeated_del` shows it in Ipam).

`ChainLends` proves that the chain implements AddressLease, with all addresses assigned
throughout. IpamAdd is a Lend, for which `Leases` has to say that a sandbox that is about to
ask for an address has none; IpamDel, an ADD's error and the end of a namespace are a
GiveBack, since an address has one holder; forgetting a sandbox is a stutter, since it has
no lease by then. CniChain takes the IPAM plugin as what Ipam shows of it, and `Implements` and
`ChainLends` tie the two to one abstract specification.

IpamHistoryProofs. `BudgetKept` proves ReapBudget under every combination of faults, for
every max-reap but 0: the counter is decremented before it is compared with 0, so that 0 sets
no limit (`reuse` with `MaxReap` = 0 violates it). `Reaping` counts: what registry-gc has taken off its
budget is the number of addresses EC2 has lost since it began, but for the one release that is
being recorded; nothing else can unassign or assign while it has the lock. `RestPeriod` is what the
program's README says, a rest of at least `reuseIPWait`, and it is false: `short_rest` loses the fraction of a second
that RFC 3339 drops. `RestKept` proves `RestToTheSecond`, that never more than this is lost, of an
undisturbed manager where only DELs count (`~CountDeaths`; `early_reuse` shows what deaths do).
With three ticks per second the bound is tight: `short_rest` reaches it.
It rests on `HInv`, which adds to `IInv`:

* `Resting`: an address that a DEL gave up and the instance kept is shown by the metadata, and
  has no entry that looks older than that, as TrackIP overwrites the entry and scans
  only add or remove entries;
* `Rested`: an allocation and a new interface never come upon such an address, and the
  address an ADD is about to hand out has rested, by the bound TrackedBefore applies;
* `GivingUp`: a DEL that is about to mark its address as free has not unassigned it.

EniProofs proves `EniInv` with no assumption but those on the constants, and from it
`EniTypeCorrect`, `AnswersFresh` (CacheFresh), `NoSilentLeak` (LeaksExplained) and
`NoIndexGap` (Contiguous). The parts:

* `CacheInv`: an answer that is being stored is at most one call old (`MaxCall`), so an entry
  expires at most its lifetime and a call after EC2 gave the answer, however stores and
  reads interleave; an unreadable file says nothing;
* `Working`: the label of the command at work says what EC2 has made of its interface;
* `Accounting`: every interface is gone, deleted with the instance, had a mishap, or is
  being seen to by the command at work, and a detachment that nobody waits for had a mishap:
  `DetachDone` comes later, from EC2, and must leave nothing unexplained;
* `Indexing`: while none was removed the metadata shows attached interfaces only, so the
  index NewInterface takes is at most the first free one. EC2 refuses one that is in use, so
  an attachment that succeeds closes up, and a refused one changes nothing.

Only model-checked: LockReleased, SandboxEnds and CommandEnds, as liveness under fairness is
out of the prover's reach. The hypotheses of the theorems (`Undisturbed`, `~CountDeaths`, `First(f)`,
max-reap other than 0) are each met by a passing run, and each has a run, or a hazard in
PROJECT.json, that tells what happens without it.

## Not modelled, and the plan

Every component is modelled, and every safety property is proved. What is left:

1. An abstract specification of an interface's life (created, attached at a free index, marked,
   detached, deleted), and a proof that Eni implements it.
2. The hazards that have no property yet, where a property of several steps can be stated.

Left out for good: result formatting (routes, DNS), the text of iptables rules, MTU, MAC
addresses and link modes, sysctls inside a namespace, tags and security groups of new
interfaces, and commands that only print.
