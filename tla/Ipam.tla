-------------------------------- MODULE Ipam --------------------------------
(***************************************************************************)
(* The address manager of one instance: the IPAM plugin's ADD and DEL     *)
(* (plugin/ipam/main.go), the registry garbage collector and the other    *)
(* commands of the tool that change addresses, over the registry file,    *)
(* the EC2 control plane and the instance metadata service.               *)
(*                                                                         *)
(* Every plugin and tool process runs its whole body under the lock file  *)
(* of lib/lock.go, so at most one of them is at work and its local        *)
(* variables are global here (pc, todo, ...).  What runs beside the       *)
(* holder is what the lock does not cover: the rest of the CNI chain,     *)
(* which binds the offered address in the pod's namespace some time after *)
(* the IPAM plugin has ended; sandboxes that disappear; the metadata      *)
(* service, which follows EC2 with a delay; and the clock.                *)
(***************************************************************************)
EXTENDS Registry, FiniteSets

CONSTANTS
    Eni,               \* network interfaces, each in a subnet of its own
    EniOf,             \* the interface whose subnet an address belongs to
    BootEni, BootIP,   \* what is attached and assigned when the node boots
    Primary,           \* primary addresses: EC2 refuses to unassign them
    PodEni,            \* interfaces numbered IfaceIndex or higher
    Pod,               \* pod sandboxes
    NoIP, NoEni,       \* absence of an address, of an interface
    Free, Gc, Tool,    \* the lock's holder besides a pod's plugin process
    Wait,              \* ReuseIPWait, in ticks
    FreeAfter, Jitter, \* registry-gc --free-after and its largest jitter
    MaxReap,           \* registry-gc --max-reap
    BatchSize,         \* IPBatchSize
    Limit,             \* ENILimits.IPv4: addresses per interface
    Adapters,          \* ENILimits.Adapters
    SkipDeallocation,  \* the plugin's configuration flag
    MaxHandoff,        \* longest time from the end of ADD to the bind
    MaxScan,           \* longest time from GetInterfaces to TrackedBefore
    MaxLag,            \* longest delay of the metadata service
    Faults,            \* registry writes may fail or be torn
    LoseRelease,       \* the record of a release may be lost altogether
    RepeatDel,         \* the runtime may repeat a DEL that was done
    HiddenNamespaces,  \* GetIPs may skip namespaces it cannot enter
    Deallocations,     \* the operator may run the deallocate command
    Start, MaxTime     \* the clock when the node boots, and its bound

ASSUME InterfaceAssumption ==
    /\ EniOf \in [IP -> Eni]
    /\ BootEni \subseteq Eni
    /\ PodEni \subseteq Eni
    /\ Primary \subseteq IP
    /\ BootIP \subseteq IP
    /\ \A ip \in BootIP : EniOf[ip] \in BootEni

ASSUME SentinelAssumption ==
    /\ NoIP \notin IP
    /\ NoEni \notin Eni
    /\ Free \notin Pod \cup {Gc, Tool}
    /\ Gc \notin Pod \cup {Tool}
    /\ Tool \notin Pod

ASSUME ParameterAssumption ==
    /\ {Wait, Jitter, BatchSize, MaxHandoff, MaxScan, MaxLag} \subseteq Nat
    /\ {Limit, Adapters, Start, MaxTime} \subseteq Nat
    /\ FreeAfter \in Nat \ {0}
    /\ MaxReap \in Int
    /\ {SkipDeallocation, Faults, LoseRelease, RepeatDel, HiddenNamespaces, Deallocations}
         \subseteq BOOLEAN

(* The operator's obligations: the wait outlasts a hand-off and the delay  *)
(* of the metadata service, each together with a scan and the second lost *)
(* to truncation; registry-gc's age outlasts a hand-off; the epoch lies   *)
(* further back than either.                                               *)
ASSUME TimingAssumption ==
    /\ Wait >= MaxHandoff + MaxScan + Second - 1
    /\ Wait >= MaxLag + MaxScan + Second - 1
    /\ FreeAfter >= MaxHandoff + Second - 1
    /\ Start > Wait + FreeAfter + Jitter

VARIABLES
    now,        \* wall clock
    ec2,        \* addresses EC2 has assigned to the instance
    meta,       \* addresses the metadata service shows
    changed,    \* when EC2's answer and the metadata's parted, per address
    attached,   \* interfaces attached to the instance
    reg,        \* contents of the registry file (EmptyReg while it is missing)
    regExists,  \* whether the registry file exists
    stage,      \* where each pod sandbox is in its life
    addr,       \* the address offered to or bound in it
    since,      \* when the address it is offered left the registry
    lock,       \* holder of the lock file
    pc,         \* next step of the holder
    scanAt,     \* when FindFreeIPsAtIndex read the interfaces
    todo,       \* addresses the holder's loop has not visited
    found,      \* what GetIPs returned
    free,       \* freeIps so far
    eni, base,  \* AllocateIPsOn's interface and its addresses beforehand
    alloc,      \* the address chosen, or being released
    reap        \* what is left of max-reap

cloud    == <<ec2, meta, changed, attached>>
registry == <<reg, regExists>>
pods     == <<stage, addr, since>>
local    == <<scanAt, todo, found, free, eni, base, alloc, reap>>
vars     == <<now, cloud, registry, pods, lock, pc, local>>

Stages == {"off", "adding", "handoff", "up", "deleting", "released"}

Labels == {"idle", "assigned", "reconcile", "pick", "allocate", "locate",
           "newif", "attach", "finish", "dealloc", "deltrack",
           "gcassigned", "gc", "gcforget"}

-----------------------------------------------------------------------------
(* The interfaces and addresses as the code sees them.                     *)

On(e, ips) == {ip \in ips : EniOf[ip] = e}

(* len(intf.IPv4s): a boot interface also carries the node's own address. *)
Occupancy(e, ips) == Cardinality(On(e, ips)) + (IF e \in BootEni THEN 1 ELSE 0)

(* GetInterfaces lists an interface once the metadata shows it. *)
Visible == BootEni \cup {EniOf[ip] : ip \in meta}

(* Addresses configured in some namespace. *)
Bound == {ip \in IP : \E p \in Pod : stage[p] \in {"up", "deleting", "released"} /\ addr[p] = ip}

(* MUTANT: only the addresses of the host's own namespace are listed. *)
GetIPsHost == {{}}

(* nl.GetIPs prints and ignores a namespace it fails to enumerate. *)
GetIPs == IF HiddenNamespaces THEN SUBSET Bound ELSE {Bound}

(* The pods that have been given an address and not given it back. *)
Owns(p, ip) == stage[p] \in {"handoff", "up", "deleting"} /\ addr[p] = ip

Owned(ip) == \E p \in Pod : Owns(p, ip)

-----------------------------------------------------------------------------
(* The registry file.  load() of a missing file prefills and saves it with *)
(* the free addresses of all interfaces, or, when those cannot be listed,  *)
(* returns an empty registry and saves nothing.  All the loads of a        *)
(* missing file within one step have the same outcome.                     *)

LoadOk == IF regExists THEN {TRUE} ELSE BOOLEAN

Contents(ok) == IF regExists THEN reg
                ELSE IF ok THEN Prefilled(meta \ Bound) ELSE EmptyReg

Load(ok) == reg' = Contents(ok) /\ regExists' = (regExists \/ ok)

Save(r) == reg' = r /\ regExists' = TRUE

(* load() fails: the file cannot be opened, or prefilling it failed. *)
LoadFails == /\ Faults
             /\ \/ UNCHANGED registry
                \/ ~regExists /\ Save(EmptyReg)

(* save() truncates the file before it writes: a failure leaves the old   *)
(* file or an empty one, which load() takes for an empty registry.        *)
SaveFails == /\ Faults
             /\ \/ UNCHANGED registry
                \/ Save(EmptyReg)

-----------------------------------------------------------------------------
(* The lock.                                                               *)

ResetLocals == /\ scanAt' = 0
               /\ todo' = {}
               /\ found' = {}
               /\ free' = {}
               /\ eni' = NoEni
               /\ base' = {}
               /\ alloc' = NoIP
               /\ reap' = 0

Acquire(who, label) == /\ lock = Free
                       /\ lock' = who
                       /\ pc' = label

Release == /\ lock' = Free
           /\ pc' = "idle"
           /\ ResetLocals

(* The end of a failed ADD, or of any tool command. *)
Return == /\ Release
          /\ stage' = IF lock \in Pod /\ stage[lock] = "adding"
                      THEN [stage EXCEPT ![lock] = "off"] ELSE stage
          /\ UNCHANGED <<addr, since>>

-----------------------------------------------------------------------------
(* IPAM ADD: FindFreeIPsAtIndex(IfaceIndex, true).                         *)

(* The plugin gets the lock and GetInterfaces answers, or fails and so    *)
(* FindFreeIPsAtIndex returns nothing.                                     *)
AddBegin(p) ==
    /\ stage[p] = "off"
    /\ stage' = [stage EXCEPT ![p] = "adding"]
    /\ \/ /\ Acquire(p, "assigned")
          /\ scanAt' = now
          /\ todo' = {ip \in meta : EniOf[ip] \in PodEni}
       \/ /\ Acquire(p, "allocate")
          /\ UNCHANGED <<scanAt, todo>>
    /\ UNCHANGED <<now, cloud, registry, addr, since, found, free, eni, base, alloc, reap>>

AddAssigned ==
    /\ pc = "assigned"
    /\ \/ /\ found' \in GetIPs
          /\ pc' = "reconcile"
          /\ UNCHANGED <<scanAt, todo, free, eni, base, alloc, reap>>
       \/ pc' = "allocate" /\ ResetLocals
    /\ UNCHANGED <<now, cloud, registry, pods, lock>>

(* MUTANT: an address the registry does not know is tracked at the epoch. *)
ReconciledAtEpoch(r, ip) ==
    IF ip \in found THEN ForgetIP(r, ip)
    ELSE IF HasIP(r, ip) THEN r ELSE TrackIPAtEpoch(r, {ip})

(* One turn of the loop: an address bound somewhere is in use and is      *)
(* forgotten; any other one is free, and is tracked if it was not, unless *)
(* HasIP fails.                                                            *)
Reconciled(r, ip) ==
    IF ip \in found THEN ForgetIP(r, ip)
    ELSE IF HasIP(r, ip) THEN r ELSE TrackIP(r, {ip}, now)

AddReconcile(ip) ==
    /\ pc = "reconcile"
    /\ ip \in todo
    /\ todo' = todo \ {ip}
    /\ free' = IF ip \in found THEN free ELSE free \cup {ip}
    /\ \/ \E ok \in LoadOk : Save(Reconciled(Contents(ok), ip))
       \/ ip \notin found /\ LoadFails
    /\ UNCHANGED <<now, cloud, pods, lock, pc, scanAt, found, eni, base, alloc, reap>>

(* A failed write ends the loop with the addresses found free so far. *)
AddReconcileFails(ip) ==
    /\ pc = "reconcile"
    /\ ip \in todo
    /\ SaveFails
    /\ pc' = "pick"
    /\ todo' = {}
    /\ free' = IF ip \in found THEN free ELSE free \cup {ip}
    /\ UNCHANGED <<now, cloud, pods, lock, scanAt, found, eni, base, alloc, reap>>

AddScanned ==
    /\ pc = "reconcile"
    /\ todo = {}
    /\ pc' = "pick"
    /\ UNCHANGED <<now, cloud, registry, pods, lock, local>>

(* MUTANT: an age of exactly ReuseIPWait is enough. *)
ReusableEarly(r) == free \cap TrackedBefore(r, now - Wait + 1)

(* The first free address tracked for longer than ReuseIPWait is taken,   *)
(* and its time renewed.                                                   *)
Reusable(r) == free \cap TrackedBefore(r, now - Wait)

AddPick(ip) ==
    /\ pc = "pick"
    /\ \E ok \in LoadOk :
         /\ ip \in Reusable(Contents(ok))
         /\ Save(TrackIP(Contents(ok), {ip}, now))
    /\ alloc' = ip
    /\ pc' = "finish"
    /\ scanAt' = 0
    /\ found' = {}
    /\ free' = {}
    /\ UNCHANGED <<now, cloud, pods, lock, todo, eni, base, reap>>

(* No such address, or the registry cannot be read. *)
AddNoneReusable ==
    /\ pc = "pick"
    /\ \/ \E ok \in LoadOk : Reusable(Contents(ok)) = {} /\ Load(ok)
       \/ LoadFails
    /\ pc' = "allocate"
    /\ ResetLocals
    /\ UNCHANGED <<now, cloud, pods, lock>>

-----------------------------------------------------------------------------
(* AllocateIPsFirstAvailableAtIndex and AllocateIPsOn.                     *)

(* Batch size 0, or one beyond what is left, requests all that is left. *)
Batch(available) == IF BatchSize = 0 \/ available < BatchSize THEN available ELSE BatchSize

(* AssignPrivateIpAddresses on an interface with room, in a subnet that   *)
(* still has addresses.  EC2 picks the addresses and enforces the limit.  *)
Allocate(e, new) ==
    /\ pc = "allocate"
    /\ e \in Visible
    /\ lock \in Pod => e \in PodEni
    /\ Occupancy(e, meta) < Limit
    /\ new \subseteq On(e, IP) \ ec2
    /\ Cardinality(new) = Batch(Limit - Occupancy(e, meta))
    /\ Occupancy(e, ec2) + Cardinality(new) <= Limit
    /\ ec2' = ec2 \cup new
    /\ changed' = [ip \in IP |-> IF ip \in new THEN now ELSE changed[ip]]
    /\ eni' = e
    /\ base' = On(e, meta)
    /\ pc' = "locate"
    /\ UNCHANGED <<now, meta, attached, registry, pods, lock, scanAt, todo, found, free, alloc, reap>>

(* After a failure ADD goes on to a new interface; the tool's command ends. *)
AllocationFails ==
    IF lock \in Pod
    THEN pc' = "newif" /\ ResetLocals /\ UNCHANGED <<pods, lock>>
    ELSE Return

AllocateFails ==
    /\ pc = "allocate"
    /\ AllocationFails
    /\ UNCHANGED <<now, cloud, registry>>

(* MUTANT: addresses that were there beforehand count as new. *)
LocatedAnywhere(r) ==
    IF Cardinality(On(eni, meta)) = Cardinality(base) THEN {}
    ELSE {ip \in On(eni, meta) : ~HasIP(r, ip)}

(* The addresses one poll of the interface returns: none unless the number *)
(* of addresses has changed, and of the new ones those not registered.     *)
Located(r) ==
    IF Cardinality(On(eni, meta)) = Cardinality(base) THEN {}
    ELSE {ip \in On(eni, meta) \ base : ~HasIP(r, ip)}

(* One of the located addresses is the pod's; all are tracked, or the ones *)
(* before a write that failed.                                             *)
LocateFound(ip) ==
    /\ pc = "locate"
    /\ \E ok \in LoadOk :
         /\ ip \in Located(Contents(ok))
         /\ \/ \E done \in SUBSET Located(Contents(ok)) :
                 /\ Faults \/ done = Located(Contents(ok))
                 /\ Save(TrackIP(Contents(ok), done, now))
            \/ SaveFails
    /\ IF lock \in Pod
       THEN /\ alloc' = ip
            /\ pc' = "finish"
            /\ eni' = NoEni
            /\ base' = {}
            /\ UNCHANGED <<pods, lock, scanAt, todo, found, free, reap>>
       ELSE Return
    /\ UNCHANGED <<now, cloud>>

(* A poll that returns nothing, which may still have created the registry. *)
LocatePoll ==
    /\ pc = "locate"
    /\ ~regExists
    /\ Cardinality(On(eni, meta)) # Cardinality(base)
    /\ On(eni, meta) \ base # {}
    /\ Load(TRUE)
    /\ UNCHANGED <<now, cloud, pods, lock, pc, local>>

(* MUTANT: polling stops only while no address has shown. *)
LocateGiveUpUnchanged ==
    /\ pc = "locate"
    /\ Cardinality(On(eni, meta)) = Cardinality(base)
    /\ AllocationFails
    /\ UNCHANGED <<now, cloud, registry>>

(* Ten polls without an address to return. *)
LocateGiveUp ==
    /\ pc = "locate"
    /\ AllocationFails
    /\ UNCHANGED <<now, cloud, registry>>

-----------------------------------------------------------------------------
(* NewInterface and NewInterfaceOnSubnetAtIndex.                           *)

(* The device index is the number of interfaces the metadata shows: the   *)
(* attachment fails when one it does not show yet has taken that index.   *)
NewInterface(e, new) ==
    /\ pc = "newif"
    /\ Cardinality(Visible) < Adapters
    /\ attached = Visible
    /\ e \in Eni \ attached
    /\ new \subseteq On(e, IP) \ ec2
    /\ On(e, Primary) \subseteq new
    /\ Cardinality(new) = IF BatchSize = 0 \/ BatchSize > Limit THEN Limit ELSE BatchSize
    /\ attached' = attached \cup {e}
    /\ ec2' = ec2 \cup new
    /\ changed' = [ip \in IP |-> IF ip \in new THEN now ELSE changed[ip]]
    /\ eni' = e
    /\ base' = new
    /\ pc' = "attach"
    /\ UNCHANGED <<now, meta, registry, pods, lock, scanAt, todo, found, free, alloc, reap>>

(* Once the interface shows, all its addresses are tracked at the epoch,  *)
(* errors ignored, and the first one shown is the pod's.                   *)
NewInterfaceShows(ip) ==
    /\ pc = "attach"
    /\ ip \in On(eni, meta)
    /\ \/ \E ok \in LoadOk, done \in SUBSET base :
            /\ Faults \/ done = base
            /\ Save(TrackIPAtEpoch(Contents(ok), done))
       \/ SaveFails
    /\ IF lock \in Pod
       THEN /\ alloc' = ip
            /\ pc' = "finish"
            /\ eni' = NoEni
            /\ base' = {}
            /\ UNCHANGED <<pods, lock, scanAt, todo, found, free, reap>>
       ELSE Return
    /\ UNCHANGED <<now, cloud>>

(* Too many adapters, no subnet, an EC2 error, or an interface that did not *)
(* show in time.                                                           *)
NewInterfaceFails ==
    /\ pc \in {"newif", "attach"}
    /\ Return
    /\ UNCHANGED <<now, cloud, registry>>

(* The end of a successful ADD: the address leaves the registry just       *)
(* before it is handed to the rest of the chain.                           *)
AddFinish ==
    /\ pc = "finish"
    /\ \E ok \in LoadOk : Save(ForgetIP(Contents(ok), alloc))
    /\ stage' = [stage EXCEPT ![lock] = "handoff"]
    /\ addr' = [addr EXCEPT ![lock] = alloc]
    /\ since' = [since EXCEPT ![lock] = now]
    /\ Release
    /\ UNCHANGED <<now, cloud>>

-----------------------------------------------------------------------------
(* IPAM DEL.                                                               *)

(* The plugin gets the lock and reads the addresses in the namespace. *)
DelBegin(p) ==
    /\ stage[p] = "deleting" \/ (RepeatDel /\ stage[p] = "released")
    /\ addr[p] # NoIP
    /\ Acquire(p, IF SkipDeallocation THEN "deltrack" ELSE "dealloc")
    /\ alloc' = addr[p]
    /\ UNCHANGED <<now, cloud, registry, pods, scanAt, todo, found, free, eni, base, reap>>

(* DeallocateIP finds the address in the metadata and EC2 unassigns it. *)
Unassign(ip) ==
    /\ ip \in meta
    /\ ip \in ec2 \ Primary
    /\ ec2' = ec2 \ {ip}
    /\ changed' = [changed EXCEPT ![ip] = now]
    /\ UNCHANGED <<meta, attached>>

(* MUTANT: the sandbox is taken to be gone as soon as its DEL is done. *)
RelinquishAtOnce(p) ==
    /\ stage' = [stage EXCEPT ![p] = "off"]
    /\ UNCHANGED <<addr, since>>

(* The pod has given its address back: the sandbox lives on in "released" *)
(* until its namespace goes.                                               *)
Relinquish(p) ==
    /\ stage' = IF stage[p] # "deleting" THEN stage
                ELSE [stage EXCEPT ![p] = IF addr[p] = NoIP THEN "off" ELSE "released"]
    /\ UNCHANGED <<addr, since>>

(* The namespace is gone or its addresses cannot be listed; cmdDel drops   *)
(* that error and has nothing to do.                                       *)
DelNothing(p) ==
    /\ stage[p] = "deleting"
    /\ lock = Free
    /\ Relinquish(p)
    /\ UNCHANGED <<now, cloud, registry, lock, pc, local>>

DelDeallocate ==
    /\ pc = "dealloc"
    /\ Unassign(alloc)
    /\ Relinquish(lock)
    /\ pc' = "deltrack"
    /\ UNCHANGED <<now, registry, lock, local>>

(* The metadata does not list the address, or EC2 refuses: DEL reports the *)
(* error and the runtime calls it again.                                   *)
DelFails ==
    /\ pc = "dealloc"
    /\ Return
    /\ UNCHANGED <<now, cloud, registry>>

DelTrack ==
    /\ pc = "deltrack"
    /\ \E ok \in LoadOk : Save(TrackIP(Contents(ok), {alloc}, now))
    /\ Relinquish(lock)
    /\ Release
    /\ UNCHANGED <<now, cloud>>

(* The lock is not acquired in 1000 tries; main() drops the error, so the *)
(* runtime takes the DEL for done.                                         *)
DelTimesOut(p) ==
    /\ stage[p] = "deleting"
    /\ lock \notin {Free, p}
    /\ Relinquish(p)
    /\ UNCHANGED <<now, cloud, registry, lock, pc, local>>

-----------------------------------------------------------------------------
(* The tool: registry-gc, allocate-first-available, new-interface,         *)
(* registry-list and deallocate.                                           *)

(* MUTANT: free-after is not inverted. *)
CutoffAhead(j) == now + FreeAfter + j

(* The largest release time registry-gc considers, after a jitter of j. *)
Cutoff(j) == now - FreeAfter - j

GcBegin ==
    /\ Acquire(Gc, "gcassigned")
    /\ \E j \in 0 .. Jitter, ok \in LoadOk :
         /\ Load(ok)
         /\ todo' = TrackedBefore(Contents(ok), Cutoff(j))
    /\ reap' = MaxReap
    /\ UNCHANGED <<now, cloud, pods, scanAt, found, free, eni, base, alloc>>

GcAssigned ==
    /\ pc = "gcassigned"
    /\ found' \in GetIPs
    /\ pc' = "gc"
    /\ UNCHANGED <<now, cloud, registry, pods, lock, scanAt, todo, free, eni, base, alloc, reap>>

(* An address in use is forgotten; a failure to do so is only printed. *)
GcForgetUsed(ip) ==
    /\ pc = "gc"
    /\ ip \in todo \cap found
    /\ \/ \E ok \in LoadOk : Save(ForgetIP(Contents(ok), ip))
       \/ SaveFails
    /\ todo' = todo \ {ip}
    /\ UNCHANGED <<now, cloud, pods, lock, pc, scanAt, found, free, eni, base, alloc, reap>>

GcDeallocate(ip) ==
    /\ pc = "gc"
    /\ ip \in todo \ found
    /\ Unassign(ip)
    /\ alloc' = ip
    /\ todo' = todo \ {ip}
    /\ pc' = "gcforget"
    /\ UNCHANGED <<now, registry, pods, lock, scanAt, found, free, eni, base, reap>>

(* MUTANT: the loop goes on until max-reap is below 0. *)
GcNextPast(left, rest) ==
    IF left < 0 THEN Release /\ UNCHANGED pods
    ELSE /\ pc' = "gc"
         /\ reap' = left
         /\ alloc' = NoIP
         /\ todo' = rest
         /\ UNCHANGED <<pods, lock, scanAt, found, free, eni, base>>

(* The next turn of the loop, unless the last decrement reached 0. *)
GcNext(left, rest) ==
    IF left = 0 THEN Release /\ UNCHANGED pods
    ELSE /\ pc' = "gc"
         /\ reap' = left
         /\ alloc' = NoIP
         /\ todo' = rest
         /\ UNCHANGED <<pods, lock, scanAt, found, free, eni, base>>

GcForget ==
    /\ pc = "gcforget"
    /\ \/ \E ok \in LoadOk : Save(ForgetIP(Contents(ok), alloc))
       \/ Faults /\ Save(EmptyReg)
       \/ LoseRelease /\ UNCHANGED registry
    /\ GcNext(reap - 1, todo)
    /\ UNCHANGED <<now, cloud>>

(* DeallocateIP failed: the address stays registered. *)
GcSkip(ip) ==
    /\ pc = "gc"
    /\ ip \in todo \ found
    /\ GcNext(reap, todo \ {ip})
    /\ UNCHANGED <<now, cloud, registry>>

GcDone ==
    /\ pc = "gc"
    /\ todo = {}
    /\ Release
    /\ UNCHANGED <<now, cloud, registry, pods>>

ToolAllocate ==
    /\ Acquire(Tool, "allocate")
    /\ UNCHANGED <<now, cloud, registry, pods, local>>

ToolNewInterface ==
    /\ Acquire(Tool, "newif")
    /\ UNCHANGED <<now, cloud, registry, pods, local>>

(* Reading a missing registry creates it. *)
ToolRegistryList ==
    /\ lock = Free
    /\ ~regExists
    /\ Load(TRUE)
    /\ UNCHANGED <<now, cloud, pods, lock, pc, local>>

(* deallocate releases what it is told to, whoever has it, and leaves the  *)
(* registry as it is.                                                      *)
ToolDeallocate(ip) ==
    /\ Deallocations
    /\ lock = Free
    /\ Unassign(ip)
    /\ UNCHANGED <<now, registry, pods, lock, pc, local>>

(* An error return, or a crash, anywhere in the holder; the lock file of a *)
(* dead process is taken over.  A write under way may have been torn.      *)
Writing == {"reconcile", "pick", "locate", "attach", "finish", "deltrack", "gc", "gcforget"}

Abort ==
    /\ lock # Free
    /\ \/ /\ pc = "gcforget" \/ (pc = "deltrack" /\ ~SkipDeallocation) => LoseRelease
          /\ UNCHANGED registry
       \/ /\ pc \in Writing
          /\ Faults
          /\ Save(EmptyReg)
    /\ Return
    /\ UNCHANGED <<now, cloud>>

-----------------------------------------------------------------------------
(* What the lock does not cover.                                           *)

(* The ipvlan plugin configures the offered address in the namespace. *)
Bind(p) ==
    /\ stage[p] = "handoff"
    /\ stage' = [stage EXCEPT ![p] = "up"]
    /\ since' = [since EXCEPT ![p] = 0]
    /\ UNCHANGED <<now, cloud, registry, addr, lock, pc, local>>

(* A later plugin fails before the address is bound: the runtime cleans up. *)
ChainFails(p) ==
    /\ stage[p] = "handoff"
    /\ stage' = [stage EXCEPT ![p] = "deleting"]
    /\ addr' = [addr EXCEPT ![p] = NoIP]
    /\ since' = [since EXCEPT ![p] = 0]
    /\ UNCHANGED <<now, cloud, registry, lock, pc, local>>

StartDel(p) ==
    /\ stage[p] = "up"
    /\ stage' = [stage EXCEPT ![p] = "deleting"]
    /\ UNCHANGED <<now, cloud, registry, addr, since, lock, pc, local>>

(* The namespace disappears: after its DEL, or because the sandbox died. *)
RemoveNetns(p) ==
    /\ stage[p] \in {"up", "deleting", "released"}
    /\ addr[p] # NoIP
    /\ stage' = [stage EXCEPT ![p] = IF @ = "released" THEN "off" ELSE "deleting"]
    /\ addr' = [addr EXCEPT ![p] = NoIP]
    /\ UNCHANGED <<now, cloud, registry, since, lock, pc, local>>

(* The metadata service catches up with EC2 on one address. *)
Sync(ip) ==
    /\ (ip \in ec2) # (ip \in meta)
    /\ meta' = IF ip \in ec2 THEN meta \cup {ip} ELSE meta \ {ip}
    /\ changed' = [changed EXCEPT ![ip] = 0]
    /\ UNCHANGED <<now, ec2, attached, registry, pods, lock, pc, local>>

(* Time passes, but not beyond a delay the constants bound. *)
Tick ==
    /\ now < MaxTime
    /\ \A p \in Pod : stage[p] = "handoff" => now < since[p] + MaxHandoff
    /\ \A ip \in IP : (ip \in ec2) # (ip \in meta) => now < changed[ip] + MaxLag
    /\ pc \in {"assigned", "reconcile", "pick"} => now < scanAt + MaxScan
    /\ now' = now + 1
    /\ UNCHANGED <<cloud, registry, pods, lock, pc, local>>

-----------------------------------------------------------------------------
Init ==
    /\ now = Start
    /\ ec2 = BootIP
    /\ meta = BootIP
    /\ changed = [ip \in IP |-> 0]
    /\ attached = BootEni
    /\ reg = EmptyReg
    /\ regExists = FALSE
    /\ stage = [p \in Pod |-> "off"]
    /\ addr = [p \in Pod |-> NoIP]
    /\ since = [p \in Pod |-> 0]
    /\ lock = Free
    /\ pc = "idle"
    /\ scanAt = 0
    /\ todo = {}
    /\ found = {}
    /\ free = {}
    /\ eni = NoEni
    /\ base = {}
    /\ alloc = NoIP
    /\ reap = 0

AddStep ==
    \/ AddAssigned \/ AddScanned \/ AddNoneReusable \/ AddFinish
    \/ \E ip \in IP : AddReconcile(ip) \/ AddReconcileFails(ip) \/ AddPick(ip)

AllocateStep ==
    \/ AllocateFails \/ LocatePoll \/ LocateGiveUp \/ NewInterfaceFails
    \/ \E e \in Eni, new \in SUBSET IP : Allocate(e, new) \/ NewInterface(e, new)
    \/ \E ip \in IP : LocateFound(ip) \/ NewInterfaceShows(ip)

DelStep == DelDeallocate \/ DelFails \/ DelTrack

GcStep ==
    \/ GcAssigned \/ GcForget \/ GcDone
    \/ \E ip \in IP : GcForgetUsed(ip) \/ GcDeallocate(ip) \/ GcSkip(ip)

(* The steps of the process that holds the lock. *)
HolderStep == AddStep \/ AllocateStep \/ DelStep \/ GcStep

Begin ==
    \/ GcBegin \/ ToolAllocate \/ ToolNewInterface
    \/ \E p \in Pod : AddBegin(p) \/ DelBegin(p)

Environment ==
    \/ Tick
    \/ \E ip \in IP : Sync(ip)
    \/ \E p \in Pod : \/ Bind(p) \/ ChainFails(p) \/ StartDel(p) \/ RemoveNetns(p)
                      \/ DelNothing(p) \/ DelTimesOut(p)

ToolStep == ToolRegistryList \/ \E ip \in IP : ToolDeallocate(ip)

Next == Begin \/ HolderStep \/ ToolStep \/ Abort \/ Environment

Spec == Init /\ [][Next]_vars

(* A running plugin or tool process keeps being scheduled, and each of its *)
(* loops is bounded; a crash is never owed.                                *)
FairSpec == Spec /\ WF_vars(HolderStep)

-----------------------------------------------------------------------------
(* Properties.                                                             *)

(* The types of the variables, and which pods have an address: none before *)
(* cmdAdd ends, one from there until the namespace is gone.                *)
TypeOK ==
    /\ now \in Nat
    /\ ec2 \in SUBSET IP /\ meta \in SUBSET IP /\ attached \in SUBSET Eni
    /\ changed \in [IP -> Nat]
    /\ reg \in Registries /\ regExists \in BOOLEAN
    /\ stage \in [Pod -> Stages]
    /\ addr \in [Pod -> IP \cup {NoIP}]
    /\ since \in [Pod -> Nat]
    /\ lock \in Pod \cup {Free, Gc, Tool}
    /\ pc \in Labels
    /\ scanAt \in Nat
    /\ todo \in SUBSET IP /\ found \in SUBSET IP /\ free \in SUBSET IP
    /\ eni \in Eni \cup {NoEni} /\ base \in SUBSET IP
    /\ alloc \in IP \cup {NoIP}
    /\ reap \in Int
    /\ \A p \in Pod : /\ stage[p] \in {"off", "adding"} => addr[p] = NoIP
                      /\ stage[p] \in {"handoff", "up", "released"} => addr[p] \in IP

(* No two pods have the same address between the end of their cmdAdd and   *)
(* their cmdDel, however the ADDs of others, registry-gc and the bind of   *)
(* the address interleave.                                                 *)
NoSharedAddress ==
    \A p, q \in Pod, ip \in IP : Owns(p, ip) /\ Owns(q, ip) => p = q

(* EC2 keeps the address of a pod assigned to the instance until the pod's *)
(* own cmdDel gives it back: cmdAdd never picks one that is gone, and      *)
(* registry-gc and the DEL of another pod never release one in use.        *)
OwnersAssigned ==
    \A p \in Pod, ip \in IP : Owns(p, ip) => ip \in ec2

Lease == INSTANCE AddressLease
         WITH assigned <- ec2,
              holders <- [ip \in IP |-> {p \in Pod : Owns(p, ip)}]

(* Each step of the plugin, the tool or the environment is a step of the   *)
(* abstract lending of addresses, or leaves it alone.                      *)
LeaseSpec == Lease!Spec

(* Whoever gets the lock file of LockfileRun gives it back: no loop or     *)
(* poll of the holder waits for something that need not happen.            *)
LockReleased == (lock # Free) ~> (lock = Free)
=============================================================================
