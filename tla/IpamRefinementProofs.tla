------------------------ MODULE IpamRefinementProofs ------------------------
(***************************************************************************)
(* The undisturbed address manager implements AddressLease.                *)
(***************************************************************************)
EXTENDS IpamSafetyProofs

(* The refinement mapping of LeaseSpec for the holders of an address. *)
Holders == [ip \in IP |-> {p \in Pod : Owns(p, ip)}]

(* No pod gets or loses an address. *)
SameOwners == \A p \in Pod, ip \in IP : Owns(p, ip)' <=> Owns(p, ip)

-----------------------------------------------------------------------------
(* The abstract step that a change of assignments and owners amounts to.   *)

(* Where no pod gets or loses an address, the mapping is unchanged. *)
LEMMA HoldersKept == ASSUME SameOwners PROVE Holders' = Holders
BY DEF SameOwners, Holders

(* Addresses that come without changing an owner are an Assign. *)
LEMMA AssignsStep ==
    ASSUME SameOwners, NEW new \in SUBSET IP, ec2' = ec2 \cup new
    PROVE  Lease!Next
<1>1. Lease!Assign(new)
  BY HoldersKept DEF Lease!Assign, Holders
<1>2. QED
  BY <1>1 DEF Lease!Next

(* An address without owner that goes is an Unassign. *)
LEMMA UnassignsStep ==
    ASSUME SameOwners, NEW ip \in IP, ec2' = ec2 \ {ip}, ~Owned(ip)
    PROVE  Lease!Next
<1>1. {p \in Pod : Owns(p, ip)} = {}
  BY DEF Owned
<1>2. Lease!Unassign(ip)
  BY <1>1, HoldersKept DEF Lease!Unassign, Holders
<1>3. QED
  BY <1>2 DEF Lease!Next

(* An assigned address without owner that gets one is a Lend. *)
LEMMA LendsStep ==
    ASSUME NEW p \in Pod, NEW ip \in IP, ec2' = ec2, ip \in ec2, ~Owned(ip),
           \A q \in Pod, i \in IP : Owns(q, i)' <=> Owns(q, i) \/ (q = p /\ i = ip)
    PROVE  Lease!Next
<1>1. {q \in Pod : Owns(q, ip)} = {}
  BY DEF Owned
<1>2. Holders' = [Holders EXCEPT ![ip] = {p}]
  <2>1. {q \in Pod : Owns(q, ip)'} = {p}
    BY <1>1
  <2>2. ASSUME NEW i \in IP, i # ip
        PROVE  {q \in Pod : Owns(q, i)'} = {q \in Pod : Owns(q, i)}
    BY <2>2
  <2>3. QED
    BY <2>1, <2>2 DEF Holders
<1>3. Lease!Lend(p, ip)
  BY <1>1, <1>2 DEF Lease!Lend, Holders
<1>4. QED
  BY <1>3 DEF Lease!Next

(* An owner that loses its address, and nothing else, is a GiveBack. *)
LEMMA GivesBackStep ==
    ASSUME NEW p \in Pod, NEW ip \in IP, Owns(p, ip), ec2' \in {ec2, ec2 \ {ip}},
           \A q \in Pod, i \in IP : Owns(q, i)' <=> Owns(q, i) /\ ~(q = p /\ i = ip)
    PROVE  Lease!Next
<1>1. Holders' = [Holders EXCEPT ![ip] = @ \ {p}]
  <2>1. {q \in Pod : Owns(q, ip)'} = {q \in Pod : Owns(q, ip)} \ {p}
    OBVIOUS
  <2>2. ASSUME NEW i \in IP, i # ip
        PROVE  {q \in Pod : Owns(q, i)'} = {q \in Pod : Owns(q, i)}
    BY <2>2
  <2>3. QED
    BY <2>1, <2>2 DEF Holders
<1>2. Lease!GiveBack(p, ip)
  BY <1>1 DEF Lease!GiveBack, Holders
<1>3. QED
  BY <1>2 DEF Lease!Next

(* A step that touches neither is a stutter. *)
LEMMA QuietStep ==
    ASSUME SameOwners, ec2' = ec2
    PROVE  [Lease!Next]_(Lease!lease)
BY HoldersKept DEF Lease!lease, Holders

(* One pod that leaves, others untouched, gives back what it has or does nothing. *)
LEMMA LeavesStep ==
    ASSUME NEW p \in Pod, ec2' = ec2,
           \A q \in Pod \ {p}, ip \in IP : Owns(q, ip)' <=> Owns(q, ip),
           \A ip \in IP : ~Owns(p, ip)'
    PROVE  [Lease!Next]_(Lease!lease)
<1>1. CASE \E ip \in IP : Owns(p, ip)
  <2>1. PICK ip \in IP : Owns(p, ip)
    BY <1>1
  <2>2. ASSUME NEW q \in Pod, NEW i \in IP
        PROVE  Owns(q, i)' <=> Owns(q, i) /\ ~(q = p /\ i = ip)
    BY <2>1 DEF Owns
  <2>3. QED
    BY <2>1, <2>2, GivesBackStep
<1>2. CASE \A ip \in IP : ~Owns(p, ip)
  BY <1>2, QuietStep DEF SameOwners
<1>3. QED
  BY <1>1, <1>2

(* The end of a DEL gives back what its pod has. *)
LEMMA RelinquishStep ==
    ASSUME TypeOK, NEW p \in Pod, Relinquish(p), ec2' = ec2
    PROVE  [Lease!Next]_(Lease!lease)
<1>1. CASE stage[p] = "deleting"
  BY <1>1, LeavesStep DEF Relinquish, TypeOK, Owns
<1>2. CASE stage[p] # "deleting"
  BY <1>2, QuietStep DEF Relinquish, SameOwners, Owns
<1>3. QED
  BY <1>1, <1>2

(* An error return changes no owner. *)
LEMMA ReturnStep ==
    ASSUME TypeOK, Return, ec2' = ec2
    PROVE  [Lease!Next]_(Lease!lease)
<1>1. SameOwners
  BY DEF Return, SameOwners, Owns, TypeOK
<1>2. QED
  BY <1>1, QuietStep

-----------------------------------------------------------------------------
(* What the refinement needs beyond the invariant.                         *)

(* The address DEL is about to release is the only one its pod can have. *)
DelOwns == pc = "dealloc" => \A ip \in IP : Owns(lock, ip) => ip = alloc

(* DelBegin takes the address from the pod, which gets no other meanwhile. *)
LEMMA DelOwnsStep ==
    ASSUME TypeOK, Control, TypeOK', Control', DelOwns, Effect, LocalEffect
    PROVE  DelOwns'
<1> SUFFICES ASSUME pc' = "dealloc", NEW ip \in IP, Owns(lock, ip)'
             PROVE  ip = alloc'
  BY DEF DelOwns
<1>1. lock' \in Pod
  BY DEF Control, Deleting
<1>2. CASE pc = "dealloc"
  BY <1>1, <1>2 DEF LocalEffect, ReleaseEffect, Effect, PodEffect, DelOwns
<1>3. CASE pc # "dealloc"
  BY <1>3 DEF LocalEffect, ReleaseEffect, Owns
<1>4. QED
  BY <1>2, <1>3

-----------------------------------------------------------------------------

(* Every step of the manager is a step of the lending, or a stutter. *)
LEMMA LeaseStep ==
    ASSUME Undisturbed, IInv, DelOwns, Next
    PROVE  [Lease!Next]_(Lease!lease)
<1>a. TypeOK /\ Control /\ AllocationInv /\ ReleaseInv
  BY DEF IInv
<1>1. ASSUME NEW p \in Pod, AddBegin(p) PROVE [Lease!Next]_(Lease!lease)
  BY <1>1, <1>a, QuietStep DEF SameOwners, Owns, TypeOK, AddBegin, cloud
<1>2. ASSUME NEW p \in Pod, DelBegin(p) PROVE [Lease!Next]_(Lease!lease)
  BY <1>2, <1>a, QuietStep DEF SameOwners, Owns, TypeOK, DelBegin, cloud, pods
<1>3. ASSUME NEW p \in Pod, Bind(p) PROVE [Lease!Next]_(Lease!lease)
  BY <1>3, <1>a, QuietStep DEF SameOwners, Owns, TypeOK, Bind, cloud
<1>4. ASSUME NEW p \in Pod, StartDel(p) PROVE [Lease!Next]_(Lease!lease)
  BY <1>4, <1>a, QuietStep DEF SameOwners, Owns, TypeOK, StartDel, cloud
<1>5. ASSUME NEW p \in Pod, ChainFails(p) PROVE [Lease!Next]_(Lease!lease)
  BY <1>5, <1>a, LeavesStep, SentinelAssumption DEF ChainFails, cloud, TypeOK, Owns
<1>6. ASSUME NEW p \in Pod, RemoveNetns(p) PROVE [Lease!Next]_(Lease!lease)
  BY <1>6, <1>a, LeavesStep, SentinelAssumption DEF RemoveNetns, cloud, TypeOK, Owns
<1>7. ASSUME NEW p \in Pod, DelNothing(p) PROVE [Lease!Next]_(Lease!lease)
  BY <1>7, <1>a, RelinquishStep DEF DelNothing, cloud
<1>8. ASSUME NEW p \in Pod, DelTimesOut(p) PROVE [Lease!Next]_(Lease!lease)
  BY <1>8, <1>a, RelinquishStep DEF DelTimesOut, cloud
<1>9. ASSUME NEW ip \in IP, AddReconcile(ip) PROVE [Lease!Next]_(Lease!lease)
  BY <1>9, <1>a, QuietStep DEF SameOwners, Owns, TypeOK, AddReconcile, cloud, pods
<1>10. ASSUME NEW ip \in IP, AddReconcileFails(ip) PROVE [Lease!Next]_(Lease!lease)
  BY <1>10, <1>a, QuietStep DEF SameOwners, Owns, TypeOK, AddReconcileFails, cloud, pods
<1>11. ASSUME NEW ip \in IP, AddPick(ip) PROVE [Lease!Next]_(Lease!lease)
  BY <1>11, <1>a, QuietStep DEF SameOwners, Owns, TypeOK, AddPick, cloud, pods
<1>12. ASSUME NEW ip \in IP, GcForgetUsed(ip) PROVE [Lease!Next]_(Lease!lease)
  BY <1>12, <1>a, QuietStep DEF SameOwners, Owns, TypeOK, GcForgetUsed, cloud, pods
<1>13. ASSUME NEW ip \in IP, Sync(ip) PROVE [Lease!Next]_(Lease!lease)
  BY <1>13, <1>a, QuietStep DEF SameOwners, Owns, TypeOK, Sync, pods
<1>14. ASSUME NEW ip \in IP, LocateFound(ip) PROVE [Lease!Next]_(Lease!lease)
  <2>1. ec2' = ec2
    BY <1>14, <1>a DEF LocateFound, cloud
  <2>2. CASE UNCHANGED pods
    BY <2>1, <2>2, QuietStep DEF SameOwners, Owns, pods
  <2>3. CASE Return
    BY <1>a, <2>1, <2>3, ReturnStep
  <2>4. QED
    BY <1>14, <1>a, <2>2, <2>3 DEF LocateFound, AllocationFails, pods
<1>15. ASSUME NEW ip \in IP, NewInterfaceShows(ip) PROVE [Lease!Next]_(Lease!lease)
  <2>1. ec2' = ec2
    BY <1>15, <1>a DEF NewInterfaceShows, cloud
  <2>2. CASE UNCHANGED pods
    BY <2>1, <2>2, QuietStep DEF SameOwners, Owns, pods
  <2>3. CASE Return
    BY <1>a, <2>1, <2>3, ReturnStep
  <2>4. QED
    BY <1>15, <1>a, <2>2, <2>3 DEF NewInterfaceShows, AllocationFails, pods
<1>16. ASSUME NEW ip \in IP, GcSkip(ip) PROVE [Lease!Next]_(Lease!lease)
  BY <1>16, <1>a, QuietStep DEF SameOwners, Owns, TypeOK, GcSkip, GcNext, cloud, pods
<1>17. ASSUME NEW ip \in IP, GcDeallocate(ip) PROVE [Lease!Next]_(Lease!lease)
  <2>1. ~Owned(ip)
    BY <1>17, <1>a DEF GcDeallocate, ReleaseInv
  <2>2. SameOwners /\ ec2' = ec2 \ {ip}
    BY <1>17, <1>a DEF GcDeallocate, Unassign, SameOwners, Owns, pods
  <2>3. QED
    BY <2>1, <2>2, UnassignsStep
<1>18. ASSUME NEW e \in Eni, NEW new \in SUBSET IP, Allocate(e, new) PROVE [Lease!Next]_(Lease!lease)
  <2>1. SameOwners /\ ec2' = ec2 \cup new
    BY <1>18, <1>a DEF Allocate, SameOwners, Owns, pods
  <2>2. QED
    BY <2>1, AssignsStep
<1>19. ASSUME NEW e \in Eni, NEW new \in SUBSET IP, NewInterface(e, new) PROVE [Lease!Next]_(Lease!lease)
  <2>1. SameOwners /\ ec2' = ec2 \cup new
    BY <1>19, <1>a DEF NewInterface, SameOwners, Owns, pods
  <2>2. QED
    BY <2>1, AssignsStep
<1>20. CASE AddAssigned
  BY <1>20, <1>a, QuietStep DEF SameOwners, Owns, TypeOK, AddAssigned, cloud, pods
<1>21. CASE AddScanned
  BY <1>21, <1>a, QuietStep DEF SameOwners, Owns, TypeOK, AddScanned, cloud, pods
<1>22. CASE AddNoneReusable
  BY <1>22, <1>a, QuietStep DEF SameOwners, Owns, TypeOK, AddNoneReusable, cloud, pods
<1>23. CASE LocatePoll
  BY <1>23, <1>a, QuietStep DEF SameOwners, Owns, TypeOK, LocatePoll, cloud, pods
<1>24. CASE GcAssigned
  BY <1>24, <1>a, QuietStep DEF SameOwners, Owns, TypeOK, GcAssigned, cloud, pods
<1>25. CASE GcDone
  BY <1>25, <1>a, QuietStep DEF SameOwners, Owns, TypeOK, GcDone, cloud, pods
<1>26. CASE GcBegin
  BY <1>26, <1>a, QuietStep DEF SameOwners, Owns, TypeOK, GcBegin, cloud, pods
<1>27. CASE ToolAllocate
  BY <1>27, <1>a, QuietStep DEF SameOwners, Owns, TypeOK, ToolAllocate, cloud, pods
<1>28. CASE ToolNewInterface
  BY <1>28, <1>a, QuietStep DEF SameOwners, Owns, TypeOK, ToolNewInterface, cloud, pods
<1>29. CASE ToolRegistryList
  BY <1>29, <1>a, QuietStep DEF SameOwners, Owns, TypeOK, ToolRegistryList, cloud, pods
<1>29b. ASSUME NEW ip \in IP, ToolDeallocate(ip) PROVE [Lease!Next]_(Lease!lease)
  BY <1>29b, <1>a DEF ToolDeallocate, Undisturbed
<1>30. CASE Tick
  BY <1>30, <1>a, QuietStep DEF SameOwners, Owns, TypeOK, Tick, cloud, pods
<1>31. CASE GcForget
  BY <1>31, <1>a, QuietStep DEF SameOwners, Owns, TypeOK, GcForget, GcNext, cloud, pods
<1>32. CASE AllocateFails
  <2>1. ec2' = ec2
    BY <1>32, <1>a DEF AllocateFails, cloud
  <2>2. CASE UNCHANGED pods
    BY <2>1, <2>2, QuietStep DEF SameOwners, Owns, pods
  <2>3. CASE Return
    BY <1>a, <2>1, <2>3, ReturnStep
  <2>4. QED
    BY <1>32, <1>a, <2>2, <2>3 DEF AllocateFails, AllocationFails, pods
<1>33. CASE LocateGiveUp
  <2>1. ec2' = ec2
    BY <1>33, <1>a DEF LocateGiveUp, cloud
  <2>2. CASE UNCHANGED pods
    BY <2>1, <2>2, QuietStep DEF SameOwners, Owns, pods
  <2>3. CASE Return
    BY <1>a, <2>1, <2>3, ReturnStep
  <2>4. QED
    BY <1>33, <1>a, <2>2, <2>3 DEF LocateGiveUp, AllocationFails, pods
<1>34. CASE NewInterfaceFails
  BY <1>34, <1>a, ReturnStep DEF NewInterfaceFails, cloud
<1>35. CASE DelFails
  BY <1>35, <1>a, ReturnStep DEF DelFails, cloud
<1>36. CASE Abort
  BY <1>36, <1>a, ReturnStep DEF Abort, cloud
<1>37. CASE AddFinish
  <2>1. lock \in Pod /\ alloc \in IP /\ alloc \in ec2 /\ ~Owned(alloc) /\ stage[lock] = "adding"
    BY <1>37, <1>a DEF AddFinish, Control, AllocationInv
  <2>2. ec2' = ec2
    BY <1>37, <1>a DEF AddFinish, cloud
  <2>3. \A q \in Pod, i \in IP : Owns(q, i)' <=> Owns(q, i) \/ (q = lock /\ i = alloc)
    BY <1>37, <1>a, <2>1 DEF AddFinish, Owns, TypeOK
  <2>4. QED
    BY <2>1, <2>2, <2>3, LendsStep
<1>38. CASE DelTrack
  <2>1. lock \in Pod /\ Relinquish(lock) /\ ec2' = ec2
    BY <1>38, <1>a DEF DelTrack, Control, Deleting, cloud
  <2>2. QED
    BY <1>a, <2>1, RelinquishStep
<1>39. CASE DelDeallocate
  <2>1. lock \in Pod /\ alloc \in IP /\ stage[lock] = "deleting"
    BY <1>39, <1>a DEF DelDeallocate, Control, Deleting, ReleaseInv
  <2>2. ec2' = ec2 \ {alloc}
    BY <1>39, <1>a DEF DelDeallocate, Unassign
  <2>3. \A q \in Pod, i \in IP : Owns(q, i)' <=> Owns(q, i) /\ q # lock
    BY <1>39, <1>a, <2>1 DEF DelDeallocate, Relinquish, Owns, TypeOK
  <2>4. CASE Owns(lock, alloc)
    <3>1. \A q \in Pod, i \in IP : Owns(q, i)' <=> Owns(q, i) /\ ~(q = lock /\ i = alloc)
      BY <1>39, <1>a, <2>3 DEF DelOwns, DelDeallocate
    <3>2. QED
      BY <2>1, <2>2, <2>4, <3>1, GivesBackStep
  <2>5. CASE ~Owns(lock, alloc)
    <3>1. SameOwners
      BY <1>39, <1>a, <2>3, <2>5 DEF DelOwns, DelDeallocate, SameOwners
    <3>2. ~Owned(alloc)
      BY <1>39, <1>a, <2>5 DEF Owned, DelDeallocate, ReleaseInv
    <3>3. QED
      BY <2>1, <2>2, <3>1, <3>2, UnassignsStep
  <2>6. QED
    BY <2>4, <2>5
<1>40. QED
  BY <1>1, <1>2, <1>3, <1>4, <1>5, <1>6, <1>7, <1>8, <1>9, <1>10, <1>11, <1>12,
     <1>13, <1>14, <1>15, <1>16, <1>17, <1>18, <1>19, <1>20, <1>21, <1>22, <1>23,
     <1>24, <1>25, <1>26, <1>27, <1>28, <1>29, <1>29b, <1>30, <1>31, <1>32, <1>33, <1>34,
     <1>35, <1>36, <1>37, <1>38, <1>39
     DEF Next, ToolStep, Begin, HolderStep, AddStep, AllocateStep, DelStep, GcStep, Environment

(* An undisturbed address manager lends each address to one pod at a time, *)
(* while it is assigned, and takes it back only from the pod that gives it *)
(* up: every step of cmdAdd, cmdDel, registry-gc and their surroundings is *)
(* a step of AddressLease or leaves its state alone.                       *)
THEOREM Implements == ASSUME Undisturbed PROVE Spec => LeaseSpec
<1>1. Init => Lease!Init
  BY DEF Init, Lease!Init, Owns
<1>2. Init => DelOwns
  BY DEF Init, DelOwns
<1>3. IInv /\ DelOwns /\ [Next]_vars => DelOwns'
  <2> SUFFICES ASSUME IInv, DelOwns, [Next]_vars PROVE DelOwns'
    OBVIOUS
  <2>1. CASE Next
    <3>1. TypeOK' /\ Control'
      BY <2>1, TypeStep DEF IInv
    <3>2. Effect /\ LocalEffect
      BY <2>1, StepEffect, StepLocalEffect DEF IInv
    <3>3. QED
      BY <3>1, <3>2, DelOwnsStep DEF IInv
  <2>2. CASE UNCHANGED vars
    BY <2>2 DEF DelOwns, Owns, vars, pods, local
  <2>3. QED
    BY <2>1, <2>2
<1>4. IInv /\ DelOwns /\ [Next]_vars => [Lease!Next]_(Lease!lease)
  <2> SUFFICES ASSUME IInv, DelOwns, [Next]_vars PROVE [Lease!Next]_(Lease!lease)
    OBVIOUS
  <2>1. CASE UNCHANGED vars
    BY <2>1, QuietStep DEF SameOwners, Owns, vars, cloud, pods
  <2>2. QED
    BY <2>1, LeaseStep
<1>5. QED
  BY <1>1, <1>2, <1>3, <1>4, Invariance, PTL DEF Spec, LeaseSpec, Lease!Spec
=============================================================================
