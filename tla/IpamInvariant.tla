--------------------------- MODULE IpamInvariant ---------------------------
(***************************************************************************)
(* The inductive invariant behind NoSharedAddress and OwnersAssigned, for *)
(* an instance on which GetIPs sees every namespace, a release is recorded *)
(* before its plugin ends, a completed DEL is not repeated, and the        *)
(* operator does not run deallocate.                                       *)
(***************************************************************************)
EXTENDS Ipam

(* The four disturbances are absent. *)
Undisturbed == ~HiddenNamespaces /\ ~LoseRelease /\ ~RepeatDel /\ ~Deallocations

Scanning == {"assigned", "reconcile", "pick"}
Allocating == {"allocate", "locate", "newif", "attach"}
Deleting == {"dealloc", "deltrack"}
Collecting == {"gcassigned", "gc", "gcforget"}

(* A label tells who holds the lock, and a pod is being added exactly while *)
(* its plugin holds it.                                                    *)
Control ==
    /\ lock = Free <=> pc = "idle"
    /\ pc \in Scanning \cup {"finish"} => lock \in Pod
    /\ pc \in Allocating => lock \in Pod \cup {Tool}
    /\ pc \in Deleting => lock \in Pod
    /\ pc \in Collecting => lock = Gc
    /\ \A p \in Pod : stage[p] = "adding" <=> lock = p /\ pc \in Scanning \cup Allocating \cup {"finish"}
    /\ pc \in Deleting \cup {"finish", "gcforget"} => alloc \in IP
    /\ pc \in {"locate", "attach"} => eni \in Eni
    /\ pc \notin {"reconcile", "pick"} => free = {}
    /\ pc = "dealloc" => ~SkipDeallocation

(* The delays the constants bound have not been exceeded. *)
Clock ==
    /\ \A p \in Pod : stage[p] = "handoff" => since[p] <= now /\ now <= since[p] + MaxHandoff
    /\ \A ip \in IP : (ip \in ec2) # (ip \in meta) => changed[ip] <= now /\ now <= changed[ip] + MaxLag
    /\ pc \in Scanning => scanAt <= now /\ now <= scanAt + MaxScan

(* Interfaces are attached before their addresses are known anywhere, and *)
(* both EC2 and the metadata have the address of a pod.                   *)
Assigned ==
    /\ BootEni \subseteq attached
    /\ \A ip \in ec2 \cup meta : EniOf[ip] \in attached
    /\ \A ip \in IP : Owned(ip) => ip \in ec2 \cap meta

(* The registry file comes into being before any address is handed out. *)
Unregistered ==
    ~regExists =>
        /\ reg = EmptyReg
        /\ \A p \in Pod : stage[p] \in {"off", "adding"}
        /\ meta \subseteq ec2
        /\ pc \in Scanning => todo \cup free \subseteq ec2
        /\ pc \in Collecting => todo = {} /\ pc # "gcforget"
        /\ pc \notin Deleting

Fresh(ip, t) == reg[ip] = NoEntry \/ reg[ip] >= t - (Second - 1)

(* An address in a hand-off has no entry from before it. *)
HandoffFresh ==
    \A p \in Pod : stage[p] = "handoff" => Fresh(addr[p], since[p])

Releasing(ip) == alloc = ip /\ (pc = "gcforget" \/ (pc = "deltrack" /\ ~SkipDeallocation))

(* An address the metadata shows although EC2 has taken it back has no     *)
(* entry from before that, but for the one whose release is being recorded. *)
ReleaseFresh ==
    \A ip \in meta \ ec2 : Releasing(ip) \/ Fresh(ip, changed[ip])

(* What a scan may rely on until it picks an address. *)
ScanInv ==
    /\ pc \in Scanning =>
         /\ \A ip \in todo \cup free : ip \in ec2 => ip \in meta
         /\ \A ip \in todo \cup free : ip \notin ec2 => Fresh(ip, scanAt - MaxLag)
    /\ pc \in {"reconcile", "pick"} =>
         \A ip \in (todo \ found) \cup free : Owned(ip) => Fresh(ip, scanAt - MaxHandoff)

(* The addresses an allocation can return are assigned and nobody's. *)
AllocationInv ==
    /\ pc = "locate" => \A ip \in On(eni, IP) \ base : ~Owned(ip) /\ (ip \in meta => ip \in ec2)
    /\ pc = "attach" => /\ \A ip \in On(eni, IP) : ~Owned(ip) /\ (ip \in meta => ip \in ec2)
                        /\ base \subseteq On(eni, ec2)
    /\ pc = "finish" => alloc \in ec2 \cap meta /\ ~Owned(alloc)

(* The addresses DEL and registry-gc release are nobody else's. *)
ReleaseInv ==
    /\ pc = "dealloc" => /\ stage[lock] = "deleting"
                         /\ \A p \in Pod : Owns(p, alloc) => p = lock
    /\ pc = "gcassigned" => \A p \in Pod : stage[p] = "handoff" => addr[p] \notin todo
    /\ pc \in {"gc", "gcforget"} => \A ip \in todo \ found : ~Owned(ip)

(* The inductive invariant: NoSharedAddress with what cmdAdd, cmdDel and  *)
(* registry-gc rely on at each of their steps.                             *)
IInv ==
    /\ TypeOK /\ Control /\ Clock /\ Assigned /\ Unregistered
    /\ HandoffFresh /\ ReleaseFresh /\ ScanInv /\ AllocationInv /\ ReleaseInv
    /\ NoSharedAddress
=============================================================================
