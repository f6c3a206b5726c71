-------------------------- MODULE IpamSafetyProofs --------------------------
(***************************************************************************)
(* The inductive invariant of module IpamInvariant, and the two safety     *)
(* properties it was made for.                                             *)
(***************************************************************************)
EXTENDS IpamStepProofs

-----------------------------------------------------------------------------
(* Each part of the invariant is kept.                                     *)

(* The parameters that bound time are numbers. *)
LEMMA Delays ==
    /\ Second \in Nat /\ Wait \in Nat /\ FreeAfter \in Nat /\ Jitter \in Nat /\ Start \in Nat
    /\ MaxHandoff \in Nat /\ MaxScan \in Nat /\ MaxLag \in Nat /\ Second >= 1
BY SecondAssumption, ParameterAssumption

(* An entry that was fresh stays so, unless it is set to the epoch. *)
LEMMA FreshKept ==
    ASSUME TypeOK, RegistryEffect, regExists,
           NEW ip \in IP, NEW t \in Int, t <= now,
           ~(pc = "attach" /\ ip \in base), Fresh(ip, t)
    PROVE  reg'[ip] = NoEntry \/ reg'[ip] >= t - (Second - 1)
<1>1. Trunc(now) \in Nat /\ Trunc(now) >= now - (Second - 1)
  BY TruncBound DEF TypeOK
<1>2. reg'[ip] = reg[ip] \/ reg'[ip] = NoEntry \/ reg'[ip] = Trunc(now)
  BY DEF RegistryEffect
<1>3. QED
  BY <1>1, <1>2, Delays DEF Fresh, TypeOK, Registries, NoEntry

(* Tick respects the delays, and no other step moves the clock. *)
LEMMA ClockStep ==
    ASSUME TypeOK, Clock, Effect, LocalEffect, TypeOK'
    PROVE  Clock'
<1>1. CASE Tick
  BY <1>1, Delays DEF Tick, Clock, TypeOK, Scanning, cloud, pods, local
<1>2. CASE now' = now
  <2>1. ASSUME NEW p \in Pod, stage'[p] = "handoff"
        PROVE  since'[p] <= now' /\ now' <= since'[p] + MaxHandoff
    BY <1>2, <2>1, Delays DEF Effect, PodEffect, Clock, TypeOK
  <2>2. ASSUME NEW ip \in IP, (ip \in ec2') # (ip \in meta')
        PROVE  changed'[ip] <= now' /\ now' <= changed'[ip] + MaxLag
    BY <1>2, <2>2, Delays DEF Effect, CloudEffect, Clock, TypeOK
  <2>3. pc' \in Scanning => scanAt' <= now' /\ now' <= scanAt' + MaxScan
    <3>1. CASE pc = "idle"
      <4>1. pc' \in Scanning => scanAt' = now
        BY <3>1 DEF LocalEffect, ScanEffect, Scanning
      <4>2. now \in Nat /\ MaxScan \in Nat
        BY Delays DEF TypeOK
      <4>3. QED
        BY <1>2, <4>1, <4>2
    <3>2. CASE pc # "idle"
      BY <1>2, <3>2, Delays DEF LocalEffect, ScanEffect, Clock, TypeOK
    <3>3. QED
      BY <3>1, <3>2
  <2>4. QED
    BY <2>1, <2>2, <2>3 DEF Clock
<1>3. QED
  BY <1>1, <1>2 DEF Effect

(* Nobody becomes the owner of an address but at the end of an ADD. *)
LEMMA OwnedKept ==
    ASSUME Effect, NEW ip \in IP, Owned(ip)'
    PROVE  Owned(ip) \/ (pc = "finish" /\ pc' = "idle" /\ ip = alloc)
BY DEF Effect, PodEffect, Owned

(* A release never takes the address of a pod, and an ADD ends with an assigned one. *)
LEMMA AssignedStep ==
    ASSUME TypeOK, TypeOK', Control, Assigned, AllocationInv, ReleaseInv, Effect
    PROVE  Assigned'
<1>1. BootEni \subseteq attached'
  BY DEF Assigned, Effect, CloudEffect
<1>2. Visible \subseteq attached
  BY DEF Assigned, Visible
<1>3. ASSUME NEW ip \in ec2' \cup meta'
      PROVE  EniOf[ip] \in attached'
  BY <1>2, <1>3 DEF TypeOK, Assigned, Effect, CloudEffect
<1>4. ASSUME NEW ip \in IP, Owned(ip)'
      PROVE  ip \in ec2' /\ ip \in meta'
  <2>1. ip \in ec2 /\ ip \in meta
    BY <1>4, OwnedKept DEF Assigned, AllocationInv
  <2>2. ip \in meta'
    BY <2>1 DEF Effect, CloudEffect
  <2>3. ASSUME ip \notin ec2' PROVE FALSE
    <3>1. PICK p \in Pod : Owns(p, ip)'
      BY <1>4 DEF Owned
    <3>2. CASE pc = "dealloc" /\ pc' = "deltrack" /\ alloc = ip /\ lock' = lock /\ (stage[lock] = "deleting" => ~Owns(lock, ip)')
      <4>1. stage[lock] = "deleting" /\ Owns(p, ip)
        BY <3>1, <3>2 DEF ReleaseInv, Effect, PodEffect
      <4>2. \A q \in Pod : Owns(q, ip) => q = lock
        BY <3>2 DEF ReleaseInv
      <4>3. QED
        BY <3>1, <3>2, <4>1, <4>2 DEF Owns
    <3>3. CASE pc = "gc" /\ ip \in todo \ found
      BY <1>4, <3>3, OwnedKept DEF ReleaseInv
    <3>4. QED
      BY <2>1, <2>3, <3>2, <3>3 DEF Effect, CloudEffect
  <2>4. QED
    BY <2>2, <2>3
<1>5. QED
  BY <1>1, <1>3, <1>4 DEF Assigned

(* The address that an ADD ends with is nobody's. *)
LEMMA SharedStep ==
    ASSUME NoSharedAddress, AllocationInv, Effect, TypeOK
    PROVE  NoSharedAddress'
<1> SUFFICES ASSUME NEW p \in Pod, NEW q \in Pod, NEW ip \in IP, Owns(p, ip)', Owns(q, ip)'
             PROVE  p = q
  BY DEF NoSharedAddress
<1>1. CASE Owns(p, ip) /\ Owns(q, ip)
  BY <1>1 DEF NoSharedAddress
<1>2. CASE ~(Owns(p, ip) /\ Owns(q, ip))
  <2>1. pc = "finish" /\ ip = alloc
    BY <1>2 DEF Effect, PodEffect
  <2>2. ~Owns(p, ip) /\ ~Owns(q, ip)
    BY <2>1 DEF AllocationInv, Owned
  <2>3. QED
    BY <2>2 DEF Effect, PodEffect
<1>3. QED
  BY <1>1, <1>2

(* No ADD ends, and nothing is released, before the registry file exists. *)
LEMMA UnregisteredStep ==
    ASSUME TypeOK, TypeOK', Control', Unregistered, Effect, LocalEffect
    PROVE  Unregistered'
<1> SUFFICES ASSUME ~regExists'
             PROVE  /\ reg' = EmptyReg
                    /\ \A p \in Pod : stage'[p] \in {"off", "adding"}
                    /\ meta' \subseteq ec2'
                    /\ pc' \in Scanning => todo' \cup free' \subseteq ec2'
                    /\ pc' \in Collecting => todo' = {} /\ pc' # "gcforget"
                    /\ pc' \notin Deleting
  BY DEF Unregistered, EmptyReg
<1>1. ~regExists /\ reg' = EmptyReg
  BY DEF Effect, RegistryEffect, Unregistered
<1>2. \A p \in Pod : stage'[p] \in {"off", "adding"}
  BY <1>1 DEF Effect, PodEffect, Unregistered
<1>3. pc' \in Collecting => todo' = {} /\ pc' # "gcforget"
  BY <1>1 DEF LocalEffect, ReleaseEffect, Unregistered, Collecting
<1>4. pc' \notin Deleting
  BY <1>1 DEF LocalEffect, ReleaseEffect, Unregistered
<1>5. meta' \subseteq ec2'
  BY <1>1 DEF Effect, CloudEffect, Unregistered, Deleting, Collecting, TypeOK
<1>6. pc' \in Scanning => todo' \cup free' \subseteq ec2'
  BY <1>1 DEF LocalEffect, ScanEffect, Unregistered
<1>7. QED
  BY <1>1, <1>2, <1>3, <1>4, <1>5, <1>6

(* During a hand-off an address can only be entered with the current time. *)
LEMMA HandoffFreshStep ==
    ASSUME TypeOK, TypeOK', Clock, Unregistered, HandoffFresh, AllocationInv, Effect
    PROVE  HandoffFresh'
<1> SUFFICES ASSUME NEW p \in Pod, stage'[p] = "handoff"
             PROVE  reg'[addr'[p]] = NoEntry \/ reg'[addr'[p]] >= since'[p] - (Second - 1)
  BY DEF HandoffFresh, Fresh
<1>1. CASE stage[p] = "handoff" /\ addr'[p] = addr[p] /\ since'[p] = since[p]
  <2>1. regExists /\ addr[p] \in IP /\ since[p] \in Int /\ since[p] <= now
    BY <1>1 DEF Unregistered, TypeOK, Clock
  <2>2. ~(pc = "attach" /\ addr[p] \in base)
    BY <1>1, <2>1 DEF AllocationInv, Owned, Owns, On
  <2>3. Fresh(addr[p], since[p])
    BY <1>1 DEF HandoffFresh
  <2>4. QED
    BY <1>1, <2>1, <2>2, <2>3, FreshKept DEF Effect
<1>2. CASE reg'[addr'[p]] = NoEntry
  BY <1>2
<1>3. QED
  BY <1>1, <1>2 DEF Effect, PodEffect

(* A release is recorded, by removing or renewing the entry, before its process ends. *)
LEMMA ReleaseFreshStep ==
    ASSUME TypeOK, TypeOK', Control, Clock, Unregistered, ReleaseFresh, AllocationInv, Effect
    PROVE  ReleaseFresh'
<1> SUFFICES ASSUME NEW ip \in IP, ip \in meta', ip \notin ec2', ~Releasing(ip)'
             PROVE  reg'[ip] = NoEntry \/ reg'[ip] >= changed'[ip] - (Second - 1)
  BY DEF ReleaseFresh, Fresh, TypeOK
<1>1. ip \notin ec2
  BY DEF Effect, CloudEffect, Releasing, Control
<1>2. ip \in meta /\ changed'[ip] = changed[ip] /\ changed[ip] \in Nat /\ changed[ip] <= now
  BY <1>1 DEF Effect, CloudEffect, Clock, TypeOK
<1>3. regExists
  BY <1>1, <1>2 DEF Unregistered
<1>4. CASE Releasing(ip)
  <2>1. reg'[ip] = NoEntry \/ reg'[ip] = Trunc(now)
    BY <1>4 DEF Effect, RecordEffect
  <2>2. Trunc(now) \in Nat /\ Trunc(now) >= now - (Second - 1)
    BY TruncBound DEF TypeOK
  <2>3. QED
    BY <1>2, <2>1, <2>2, Delays DEF TypeOK
<1>5. CASE Fresh(ip, changed[ip])
  <2>1. ~(pc = "attach" /\ ip \in base)
    BY <1>1 DEF AllocationInv, On
  <2>2. QED
    BY <1>2, <1>3, <1>5, <2>1, FreshKept DEF Effect
<1>6. QED
  BY <1>1, <1>2, <1>4, <1>5 DEF ReleaseFresh

(* What ADD relies on survives everything that runs beside it while it scans. *)
LEMMA ScanStep ==
    ASSUME TypeOK, TypeOK', Control, Clock, Clock', Unregistered, HandoffFresh, ReleaseFresh, ScanInv,
           Effect, LocalEffect
    PROVE  ScanInv'
<1>1. ASSUME pc' \in Scanning, NEW ip \in IP, ip \in todo' \cup free', ip \in ec2'
      PROVE  ip \in meta'
  BY <1>1 DEF LocalEffect, ScanEffect, ScanInv, Effect, CloudEffect
<1>2. ASSUME pc' \in Scanning, NEW ip \in IP, ip \in todo' \cup free', ip \notin ec2'
      PROVE  reg'[ip] = NoEntry \/ reg'[ip] >= scanAt' - MaxLag - (Second - 1)
  <2>1. CASE pc = "idle"
    <3>1. ip \in meta /\ ip \notin ec2 /\ scanAt' = now /\ reg' = reg
      BY <1>2, <2>1 DEF LocalEffect, ScanEffect, Scanning
    <3>2. Fresh(ip, changed[ip]) /\ now <= changed[ip] + MaxLag /\ changed[ip] \in Nat
      BY <2>1, <3>1 DEF ReleaseFresh, Releasing, Clock, TypeOK
    <3>3. QED
      BY <3>1, <3>2, Delays DEF Fresh, TypeOK, Registries, NoEntry
  <2>2. CASE pc # "idle"
    <3>1. /\ pc \in Scanning /\ scanAt' = scanAt
          /\ ip \in todo \cup free /\ ip \notin ec2
      BY <1>2, <2>2 DEF LocalEffect, ScanEffect
    <3>2. regExists /\ Fresh(ip, scanAt - MaxLag)
      BY <3>1 DEF Unregistered, ScanInv
    <3>3. scanAt - MaxLag \in Int /\ scanAt - MaxLag <= now
      BY <3>1, Delays DEF Clock, TypeOK
    <3>4. pc # "attach"
      BY <3>1 DEF Scanning
    <3>5. QED
      BY <3>1, <3>2, <3>3, <3>4, FreshKept DEF Effect
  <2>3. QED
    BY <2>1, <2>2
<1>3. ASSUME pc' \in {"reconcile", "pick"}, NEW ip \in IP, ip \in (todo' \ found') \cup free', Owned(ip)'
      PROVE  reg'[ip] = NoEntry \/ reg'[ip] >= scanAt' - MaxHandoff - (Second - 1)
  <2>1. pc \in Scanning /\ scanAt' = scanAt
    BY <1>3 DEF LocalEffect, ScanEffect, Scanning
  <2>2. CASE pc = "assigned"
    <3>1. found' = Bound /\ free' = {} /\ reg' = reg /\ stage' = stage /\ addr' = addr
      BY <1>3, <2>2 DEF LocalEffect, ScanEffect, Scanning
    <3>2. PICK p \in Pod : Owns(p, ip)'
      BY <1>3 DEF Owned
    <3>3. stage[p] = "handoff" /\ addr[p] = ip
      BY <1>3, <3>1, <3>2 DEF Owns, Bound
    <3>4. Fresh(ip, since[p]) /\ now <= since[p] + MaxHandoff /\ since[p] \in Nat
      BY <3>3 DEF HandoffFresh, Clock, TypeOK
    <3>5. scanAt \in Nat /\ scanAt <= now
      BY <2>1 DEF Clock, TypeOK
    <3>6. QED
      BY <2>1, <3>1, <3>4, <3>5, Delays DEF Fresh, TypeOK, Registries, NoEntry
  <2>3. CASE pc # "assigned"
    <3>1. pc \in {"reconcile", "pick"} /\ ip \in (todo \ found) \cup free
      BY <1>3, <2>1, <2>3 DEF LocalEffect, ScanEffect, Scanning
    <3>2. Owned(ip)
      BY <1>3, <3>1, OwnedKept
    <3>3. regExists
      BY <3>2 DEF Unregistered, Owned, Owns
    <3>4. Fresh(ip, scanAt - MaxHandoff)
      BY <3>1, <3>2 DEF ScanInv
    <3>5. scanAt - MaxHandoff \in Int /\ scanAt - MaxHandoff <= now
      BY <2>1, Delays DEF Clock, TypeOK
    <3>6. QED
      BY <2>1, <3>1, <3>3, <3>4, <3>5, FreshKept DEF Effect
  <2>4. QED
    BY <2>2, <2>3
<1>4. \A ip : ip \in todo' \cup free' => ip \in IP
  BY DEF TypeOK
<1>5. QED
  BY <1>1, <1>2, <1>3, <1>4 DEF ScanInv, Fresh

(* Only a free, assigned address is old enough to be picked. *)
LEMMA PickSafe ==
    ASSUME TypeOK, Clock, Unregistered, ScanInv, pc = "pick",
           NEW ip \in free, regExists => reg[ip] # NoEntry /\ reg[ip] < now - Wait
    PROVE  ip \in ec2 /\ ip \in meta /\ ~Owned(ip)
<1>1. /\ ip \in IP /\ reg[ip] \in Int /\ scanAt \in Nat /\ now \in Nat
      /\ now <= scanAt + MaxScan
  BY DEF TypeOK, Registries, Clock, NoEntry, Scanning
<1>2. ip \in ec2
  BY <1>1, Delays, TimingAssumption DEF Unregistered, ScanInv, Fresh, Scanning
<1>3. ~Owned(ip)
  <2>1. CASE regExists
    BY <1>1, <2>1, Delays, TimingAssumption DEF ScanInv, Fresh
  <2>2. CASE ~regExists
    BY <1>1, <2>2 DEF Unregistered, Owned, Owns
  <2>3. QED
    BY <2>1, <2>2
<1>4. QED
  BY <1>2, <1>3 DEF ScanInv, Scanning

(* Only assigned addresses that are nobody's reach the end of an ADD. *)
LEMMA AllocationStep ==
    ASSUME TypeOK, TypeOK', Control, Control', Clock, Assigned, Unregistered, ScanInv, AllocationInv,
           Effect, LocalEffect
    PROVE  AllocationInv'
<1>1. ASSUME pc' = "locate", NEW ip \in IP, EniOf[ip] = eni', ip \notin base'
      PROVE  ~Owned(ip)' /\ (ip \in meta' => ip \in ec2')
  <2>1. CASE pc = "locate"
    BY <1>1, <2>1, OwnedKept DEF LocalEffect, AllocationEffect, AllocationInv, On, Effect,
       CloudEffect
  <2>2. CASE pc # "locate"
    <3>1. meta' = meta /\ ip \notin meta /\ pc = "allocate"
      BY <1>1, <2>2 DEF LocalEffect, AllocationEffect, On
    <3>2. QED
      BY <3>1, OwnedKept DEF Assigned
  <2>3. QED
    BY <2>1, <2>2
<1>2. ASSUME pc' = "attach", NEW ip \in IP, EniOf[ip] = eni'
      PROVE  ~Owned(ip)' /\ (ip \in meta' => ip \in ec2')
  <2>1. CASE pc = "attach"
    BY <1>2, <2>1, OwnedKept DEF LocalEffect, AllocationEffect, AllocationInv, On, Effect,
       CloudEffect
  <2>2. CASE pc # "attach"
    <3>1. meta' = meta /\ EniOf[ip] \notin attached /\ pc = "newif"
      BY <1>2, <2>2 DEF LocalEffect, AllocationEffect
    <3>2. QED
      BY <3>1, OwnedKept DEF Assigned
  <2>3. QED
    BY <2>1, <2>2
<1>3. ASSUME pc' = "attach" PROVE base' \subseteq On(eni', ec2')
  BY <1>3 DEF LocalEffect, AllocationEffect, AllocationInv
<1>4. ASSUME pc' = "finish" PROVE alloc' \in ec2' \cap meta' /\ ~Owned(alloc)'
  <2>1. CASE pc = "finish"
    <3>1. alloc' = alloc /\ alloc \in IP /\ ec2' = ec2
      BY <1>4, <2>1 DEF LocalEffect, AllocationEffect, Control
    <3>2. alloc \in ec2 /\ alloc \in meta' /\ ~Owned(alloc)
      BY <2>1, <3>1 DEF AllocationInv, Effect, CloudEffect
    <3>3. ~Owned(alloc)'
      BY <1>4, <3>1, <3>2, OwnedKept DEF Owned, Owns
    <3>4. QED
      BY <3>1, <3>2, <3>3
  <2>2. CASE pc # "finish"
    <3>1. ec2' = ec2 /\ meta' = meta /\ stage' = stage /\ addr' = addr /\ alloc' \in IP
      BY <1>4, <2>2 DEF LocalEffect, AllocationEffect, Control
    <3>2. alloc' \in ec2 /\ alloc' \in meta
      BY <1>4, <2>2, <3>1, PickSafe DEF LocalEffect, AllocationEffect, AllocationInv, On, TypeOK
    <3>3. ASSUME NEW ip \in IP, ip = alloc' PROVE ~Owned(ip)
      BY <1>4, <2>2, <3>1, <3>3, PickSafe DEF LocalEffect, AllocationEffect, AllocationInv, On,
         TypeOK
    <3>4. QED
      BY <3>1, <3>2, <3>3 DEF Owned, Owns
  <2>3. QED
    BY <2>1, <2>2
<1>5. QED
  BY <1>1, <1>2, <1>3, <1>4 DEF AllocationInv, On

(* DEL releases its own pod's address only; registry-gc passes over hand-offs and what is in use. *)
LEMMA ReleaseStep ==
    ASSUME TypeOK, TypeOK', Control, Control', Clock, Unregistered, HandoffFresh, ReleaseInv, NoSharedAddress,
           Effect, LocalEffect
    PROVE  ReleaseInv'
<1>1. ASSUME pc' = "dealloc"
      PROVE  stage'[lock'] = "deleting" /\ \A p \in Pod : Owns(p, alloc)' => p = lock'
  <2>1. alloc' \in IP /\ lock' \in Pod
    BY <1>1 DEF Control, Deleting
  <2>2. CASE pc = "dealloc"
    BY <1>1, <2>1, <2>2 DEF LocalEffect, ReleaseEffect, ReleaseInv, Effect, PodEffect
  <2>3. CASE pc # "dealloc"
    <3>1. stage[lock'] = "deleting" /\ addr[lock'] = alloc' /\ stage' = stage /\ addr' = addr
      BY <1>1, <2>3 DEF LocalEffect, ReleaseEffect
    <3>2. QED
      BY <2>1, <3>1 DEF NoSharedAddress, Owns
  <2>4. QED
    BY <2>2, <2>3
<1>2. ASSUME pc' = "gcassigned", NEW p \in Pod, stage'[p] = "handoff"
      PROVE  addr'[p] \notin todo'
  <2>1. CASE pc = "gcassigned"
    BY <1>2, <2>1 DEF LocalEffect, ReleaseEffect, ReleaseInv, Effect, PodEffect
  <2>2. CASE pc # "gcassigned"
    <3>1. /\ stage[p] = "handoff" /\ addr'[p] = addr[p]
          /\ regExists => \A ip \in todo' : reg[ip] # NoEntry /\ reg[ip] < now - FreeAfter
      BY <1>2, <2>2 DEF LocalEffect, ReleaseEffect
    <3>2. /\ regExists /\ addr[p] \in IP /\ reg[addr[p]] \in Int /\ since[p] \in Nat
          /\ now <= since[p] + MaxHandoff /\ now \in Nat
      BY <3>1 DEF Unregistered, TypeOK, Registries, NoEntry, Clock
    <3>3. Fresh(addr[p], since[p])
      BY <3>1 DEF HandoffFresh
    <3>4. QED
      BY <3>1, <3>2, <3>3, Delays, TimingAssumption DEF Fresh
  <2>3. QED
    BY <2>1, <2>2
<1>3. ASSUME pc' \in {"gc", "gcforget"}, NEW ip \in IP, ip \in todo' \ found'
      PROVE  ~Owned(ip)'
  <2>1. CASE pc = "gcassigned"
    BY <1>3, <2>1 DEF LocalEffect, ReleaseEffect, ReleaseInv, Bound, Owned, Owns
  <2>2. CASE pc # "gcassigned"
    BY <1>3, <2>2, OwnedKept DEF LocalEffect, ReleaseEffect, ReleaseInv
  <2>3. QED
    BY <2>1, <2>2
<1>4. QED
  BY <1>1, <1>2, <1>3 DEF ReleaseInv, TypeOK

-----------------------------------------------------------------------------
(* The invariant holds when the node boots. *)
LEMMA InvariantInit == Init => IInv
<1> SUFFICES ASSUME Init PROVE IInv
  OBVIOUS
<1>1. TypeOK /\ Control
  BY TypeInit
<1>2. Clock /\ Assigned /\ Unregistered
  BY InterfaceAssumption DEF Init, Clock, Assigned, Unregistered, Scanning, Deleting, Collecting,
     Owned, Owns
<1>3. HandoffFresh /\ ReleaseFresh /\ NoSharedAddress
  BY DEF Init, HandoffFresh, ReleaseFresh, NoSharedAddress, Owns
<1>4. ScanInv /\ AllocationInv /\ ReleaseInv
  BY DEF Init, ScanInv, AllocationInv, ReleaseInv, Scanning
<1>5. QED
  BY <1>1, <1>2, <1>3, <1>4 DEF IInv

(* Every step keeps the invariant. *)
LEMMA InvariantStep ==
    ASSUME Undisturbed, IInv, [Next]_vars
    PROVE  IInv'
<1>1. CASE Next
  <2>1. TypeOK' /\ Control'
    BY <1>1, TypeStep DEF IInv
  <2>2. Effect /\ LocalEffect
    BY <1>1, StepEffect, StepLocalEffect DEF IInv
  <2>3. Clock' /\ Assigned' /\ Unregistered'
    BY <2>1, <2>2, ClockStep, AssignedStep, UnregisteredStep DEF IInv
  <2>4. HandoffFresh' /\ ReleaseFresh' /\ NoSharedAddress'
    BY <2>1, <2>2, HandoffFreshStep, ReleaseFreshStep, SharedStep DEF IInv
  <2>5. ScanInv' /\ AllocationInv' /\ ReleaseInv'
    BY <2>1, <2>2, <2>3, ScanStep, AllocationStep, ReleaseStep DEF IInv
  <2>6. QED
    BY <2>1, <2>3, <2>4, <2>5 DEF IInv
<1>2. CASE UNCHANGED vars
  BY <1>2 DEF IInv, vars, cloud, registry, pods, local, TypeOK, Control, Clock, Assigned,
     Unregistered,
              HandoffFresh, ReleaseFresh, ScanInv, AllocationInv, ReleaseInv, NoSharedAddress,
              Fresh, Releasing, Owned, Owns
<1>3. QED
  BY <1>1, <1>2

(* IInv is an invariant of an undisturbed address manager. *)
THEOREM Invariance == ASSUME Undisturbed PROVE Spec => []IInv
<1>1. Init => IInv
  BY InvariantInit
<1>2. IInv /\ [Next]_vars => IInv'
  BY InvariantStep
<1>3. QED
  BY <1>1, <1>2, PTL DEF Spec

(* Whatever the number of pods, addresses and interfaces, and whatever the *)
(* delays that respect TimingAssumption, no two pods have the same address *)
(* (cmdAdd, with reuseIPWait as the lock between its end and the bind).    *)
THEOREM Exclusive == ASSUME Undisturbed PROVE Spec => []NoSharedAddress
<1>1. IInv => NoSharedAddress
  BY DEF IInv
<1>2. QED
  BY <1>1, Invariance, PTL

(* And the address of a pod is never released behind its back, by          *)
(* registry-gc, by another pod's DEL, or because it was stale metadata.    *)
THEOREM Kept == ASSUME Undisturbed PROVE Spec => []OwnersAssigned
<1>1. IInv => OwnersAssigned
  BY DEF IInv, Assigned, Owned, OwnersAssigned
<1>2. QED
  BY <1>1, Invariance, PTL
=============================================================================
