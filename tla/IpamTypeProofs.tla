--------------------------- MODULE IpamTypeProofs ---------------------------
(***************************************************************************)
(* Types and control structure, for every value of the constants and      *)
(* whatever fails.                                                         *)
(***************************************************************************)
EXTENDS IpamInvariant, TLAPS

(* Truncation to whole seconds takes off less than a second. *)
LEMMA TruncBound ==
    ASSUME NEW t \in Nat
    PROVE  Trunc(t) \in Nat /\ Trunc(t) <= t /\ Trunc(t) >= t - (Second - 1)
BY SecondAssumption DEF Trunc

(* What load() returns, and every operation on it, is a registry. *)
LEMMA RegistryTypes ==
    /\ EmptyReg \in Registries
    /\ \A ips : Prefilled(ips) \in Registries
    /\ \A r \in Registries, t \in Nat : \A ips : TrackIP(r, ips, t) \in Registries
    /\ \A r \in Registries : \A ips : TrackIPAtEpoch(r, ips) \in Registries
    /\ \A r \in Registries : \A ip : ForgetIP(r, ip) \in Registries
BY TruncBound DEF EmptyReg, Registries, Prefilled, TrackIP, TrackIPAtEpoch, ForgetIP, Epoch, NoEntry

(* load() of a missing file returns a registry too. *)
LEMMA ContentsType ==
    ASSUME TypeOK
    PROVE  \A ok \in BOOLEAN : Contents(ok) \in Registries
BY RegistryTypes DEF TypeOK, Contents

(* After any access the file holds a registry. *)
LEMMA RegistryAccess ==
    ASSUME TypeOK
    PROVE  /\ LoadOk \subseteq BOOLEAN
           /\ \A ok \in BOOLEAN : Load(ok) => reg' \in Registries /\ regExists' \in BOOLEAN
           /\ \A r \in Registries : Save(r) => reg' \in Registries /\ regExists' \in BOOLEAN
           /\ SaveFails \/ LoadFails => reg' \in Registries /\ regExists' \in BOOLEAN
           /\ UNCHANGED registry => reg' \in Registries /\ regExists' \in BOOLEAN
<1>1. LoadOk \subseteq BOOLEAN
  BY DEF LoadOk
<1>2. ASSUME NEW ok \in BOOLEAN, Load(ok) PROVE reg' \in Registries /\ regExists' \in BOOLEAN
  BY <1>2, ContentsType DEF Load
<1>3. ASSUME NEW r \in Registries, Save(r) PROVE reg' \in Registries /\ regExists' \in BOOLEAN
  BY <1>3 DEF Save
<1>4. ASSUME UNCHANGED registry PROVE reg' \in Registries /\ regExists' \in BOOLEAN
  BY <1>4 DEF TypeOK, registry
<1>5. ASSUME SaveFails \/ LoadFails PROVE reg' \in Registries /\ regExists' \in BOOLEAN
  BY <1>3, <1>4, <1>5, RegistryTypes DEF SaveFails, LoadFails
<1>6. QED
  BY <1>1, <1>2, <1>3, <1>4, <1>5

(* Every step keeps the types and the control structure. *)
LEMMA TypeStep ==
    ASSUME TypeOK, Control, [Next]_vars
    PROVE  TypeOK' /\ Control'
<1>a. /\ LoadOk \subseteq BOOLEAN
      /\ \A ok \in BOOLEAN : Contents(ok) \in Registries
      /\ \A ok \in BOOLEAN : Load(ok) => reg' \in Registries /\ regExists' \in BOOLEAN
      /\ \A r \in Registries : Save(r) => reg' \in Registries /\ regExists' \in BOOLEAN
      /\ SaveFails \/ LoadFails => reg' \in Registries /\ regExists' \in BOOLEAN
      /\ UNCHANGED registry => reg' \in Registries /\ regExists' \in BOOLEAN
  BY ContentsType, RegistryAccess
<1> USE SentinelAssumption, ParameterAssumption DEF TypeOK, Control, Scanning, Allocating,
      Deleting, Collecting, Stages, Labels
<1>1. ASSUME NEW p \in Pod, AddBegin(p) PROVE TypeOK' /\ Control'
  BY <1>1, InterfaceAssumption DEF AddBegin, Acquire, cloud, registry
<1>2. ASSUME NEW p \in Pod, DelBegin(p) PROVE TypeOK' /\ Control'
  BY <1>2, InterfaceAssumption DEF DelBegin, Acquire, cloud, registry, pods
<1>3. ASSUME NEW p \in Pod, Bind(p) PROVE TypeOK' /\ Control'
  BY <1>3, InterfaceAssumption DEF Bind, cloud, registry, local
<1>4. ASSUME NEW p \in Pod, ChainFails(p) PROVE TypeOK' /\ Control'
  BY <1>4, InterfaceAssumption DEF ChainFails, cloud, registry, local
<1>5. ASSUME NEW p \in Pod, StartDel(p) PROVE TypeOK' /\ Control'
  BY <1>5, InterfaceAssumption DEF StartDel, cloud, registry, local
<1>6. ASSUME NEW p \in Pod, RemoveNetns(p) PROVE TypeOK' /\ Control'
  BY <1>6, InterfaceAssumption DEF RemoveNetns, cloud, registry, local
<1>7. ASSUME NEW p \in Pod, DelNothing(p) PROVE TypeOK' /\ Control'
  BY <1>7, InterfaceAssumption DEF DelNothing, Relinquish, cloud, registry, local
<1>8. ASSUME NEW p \in Pod, DelTimesOut(p) PROVE TypeOK' /\ Control'
  BY <1>8, InterfaceAssumption DEF DelTimesOut, Relinquish, cloud, registry, local
<1>9. ASSUME NEW ip \in IP, AddReconcile(ip) PROVE TypeOK' /\ Control'
  <2>1. reg' \in Registries /\ regExists' \in BOOLEAN
    BY <1>9, <1>a, RegistryTypes DEF AddReconcile, Reconciled, TypeOK
  <2>2. QED
    BY <1>9, <2>1, InterfaceAssumption DEF AddReconcile, cloud, pods
<1>10. ASSUME NEW ip \in IP, AddReconcileFails(ip) PROVE TypeOK' /\ Control'
  <2>1. reg' \in Registries /\ regExists' \in BOOLEAN
    BY <1>10, <1>a, RegistryTypes DEF AddReconcileFails
  <2>2. QED
    BY <1>10, <2>1, InterfaceAssumption DEF AddReconcileFails, cloud, pods, registry
<1>11. ASSUME NEW ip \in IP, AddPick(ip) PROVE TypeOK' /\ Control'
  <2>1. reg' \in Registries /\ regExists' \in BOOLEAN
    BY <1>11, <1>a, RegistryTypes DEF AddPick
  <2>2. QED
    BY <1>11, <2>1, InterfaceAssumption DEF AddPick, cloud, pods
<1>12. ASSUME NEW ip \in IP, LocateFound(ip) PROVE TypeOK' /\ Control'
  <2>1. reg' \in Registries /\ regExists' \in BOOLEAN
    BY <1>12, <1>a, RegistryTypes DEF LocateFound
  <2>2. QED
    BY <1>12, <2>1, InterfaceAssumption DEF LocateFound, Return, cloud, pods, On, registry,
       Release, ResetLocals
<1>13. ASSUME NEW ip \in IP, NewInterfaceShows(ip) PROVE TypeOK' /\ Control'
  <2>1. reg' \in Registries /\ regExists' \in BOOLEAN
    BY <1>13, <1>a, RegistryTypes DEF NewInterfaceShows
  <2>2. QED
    BY <1>13, <2>1, InterfaceAssumption DEF NewInterfaceShows, Return, On, cloud, pods, registry,
       Release, ResetLocals
<1>14. ASSUME NEW ip \in IP, GcForgetUsed(ip) PROVE TypeOK' /\ Control'
  <2>1. reg' \in Registries /\ regExists' \in BOOLEAN
    BY <1>14, <1>a, RegistryTypes DEF GcForgetUsed
  <2>2. QED
    BY <1>14, <2>1, InterfaceAssumption DEF GcForgetUsed, cloud, pods, registry
<1>15. ASSUME NEW ip \in IP, GcDeallocate(ip) PROVE TypeOK' /\ Control'
  BY <1>15, InterfaceAssumption DEF GcDeallocate, Unassign, registry, pods
<1>16. ASSUME NEW ip \in IP, GcSkip(ip) PROVE TypeOK' /\ Control'
  BY <1>16, InterfaceAssumption DEF GcSkip, GcNext, cloud, registry, Release, pods, ResetLocals
<1>17. ASSUME NEW ip \in IP, Sync(ip) PROVE TypeOK' /\ Control'
  BY <1>17, InterfaceAssumption DEF Sync, registry, pods, local
<1>18. ASSUME NEW e \in Eni, NEW new \in SUBSET IP, Allocate(e, new) PROVE TypeOK' /\ Control'
  BY <1>18, InterfaceAssumption DEF Allocate, On, registry, pods, Visible, Occupancy
<1>19. ASSUME NEW e \in Eni, NEW new \in SUBSET IP, NewInterface(e, new) PROVE TypeOK' /\ Control'
  BY <1>19, InterfaceAssumption DEF NewInterface, On, registry, pods, Visible
<1>20. ASSUME GcBegin PROVE TypeOK' /\ Control'
  <2>1. reg' \in Registries /\ regExists' \in BOOLEAN
    BY <1>20, <1>a, RegistryTypes DEF GcBegin
  <2>2. QED
    BY <1>20, <2>1, InterfaceAssumption DEF TrackedBefore, GcBegin, Acquire, cloud, pods
<1>21. ASSUME ToolAllocate PROVE TypeOK' /\ Control'
  BY <1>21, InterfaceAssumption DEF ToolAllocate, Acquire, cloud, registry, pods, local
<1>22. ASSUME ToolNewInterface PROVE TypeOK' /\ Control'
  BY <1>22, InterfaceAssumption DEF ToolNewInterface, Acquire, cloud, registry, pods, local
<1>23. ASSUME AddAssigned PROVE TypeOK' /\ Control'
  BY <1>23, InterfaceAssumption DEF AddAssigned, ResetLocals, GetIPs, cloud, registry, pods, Bound
<1>24. ASSUME AddScanned PROVE TypeOK' /\ Control'
  BY <1>24, InterfaceAssumption DEF AddScanned, cloud, registry, pods, local
<1>25. ASSUME AddNoneReusable PROVE TypeOK' /\ Control'
  <2>1. reg' \in Registries /\ regExists' \in BOOLEAN
    BY <1>25, <1>a, RegistryTypes DEF AddNoneReusable
  <2>2. QED
    BY <1>25, <2>1, InterfaceAssumption DEF AddNoneReusable, ResetLocals, cloud, registry, pods
<1>26. ASSUME AddFinish PROVE TypeOK' /\ Control'
  <2>1. reg' \in Registries /\ regExists' \in BOOLEAN
    BY <1>26, <1>a, RegistryTypes DEF AddFinish
  <2>2. QED
    BY <1>26, <2>1, InterfaceAssumption DEF AddFinish, Release, cloud, ResetLocals
<1>27. ASSUME AllocateFails PROVE TypeOK' /\ Control'
  BY <1>27, InterfaceAssumption DEF AllocateFails, AllocationFails, cloud, registry, ResetLocals,
     Return, pods, Release
<1>28. ASSUME LocatePoll PROVE TypeOK' /\ Control'
  <2>1. reg' \in Registries /\ regExists' \in BOOLEAN
    BY <1>28, <1>a, RegistryTypes DEF LocatePoll
  <2>2. QED
    BY <1>28, <2>1, InterfaceAssumption DEF LocatePoll, On, cloud, pods, local
<1>29. ASSUME LocateGiveUp PROVE TypeOK' /\ Control'
  BY <1>29, InterfaceAssumption DEF LocateGiveUp, AllocationFails, cloud, registry, ResetLocals,
     Return, pods, Release
<1>30. ASSUME NewInterfaceFails PROVE TypeOK' /\ Control'
  BY <1>30, InterfaceAssumption DEF NewInterfaceFails, Return, cloud, registry, Release, ResetLocals
<1>31. ASSUME DelDeallocate PROVE TypeOK' /\ Control'
  BY <1>31, InterfaceAssumption DEF DelDeallocate, Unassign, Relinquish, registry, local
<1>31b. ASSUME DelFails PROVE TypeOK' /\ Control'
  BY <1>31b, InterfaceAssumption DEF DelFails, Return, cloud, registry, Release, ResetLocals
<1>32. ASSUME DelTrack PROVE TypeOK' /\ Control'
  <2>1. reg' \in Registries /\ regExists' \in BOOLEAN
    BY <1>32, <1>a, RegistryTypes DEF DelTrack
  <2>2. QED
    BY <1>32, <2>1, InterfaceAssumption DEF DelTrack, Release, Relinquish, cloud, ResetLocals
<1>33. ASSUME GcAssigned PROVE TypeOK' /\ Control'
  BY <1>33, InterfaceAssumption DEF GcAssigned, GetIPs, cloud, registry, pods, Bound
<1>34. ASSUME GcForget PROVE TypeOK' /\ Control'
  <2>1. reg' \in Registries /\ regExists' \in BOOLEAN
    BY <1>34, <1>a, RegistryTypes DEF GcForget
  <2>2. QED
    BY <1>34, <2>1, InterfaceAssumption DEF GcForget, GcNext, cloud, registry, Release, pods,
       ResetLocals
<1>35. ASSUME GcDone PROVE TypeOK' /\ Control'
  BY <1>35, InterfaceAssumption DEF GcDone, Release, cloud, registry, pods, ResetLocals
<1>36. ASSUME ToolRegistryList PROVE TypeOK' /\ Control'
  <2>1. reg' \in Registries /\ regExists' \in BOOLEAN
    BY <1>36, <1>a, RegistryTypes DEF ToolRegistryList
  <2>2. QED
    BY <1>36, <2>1, InterfaceAssumption DEF ToolRegistryList, cloud, pods, local
<1>36b. ASSUME NEW ip \in IP, ToolDeallocate(ip) PROVE TypeOK' /\ Control'
  BY <1>36b, InterfaceAssumption DEF ToolDeallocate, Unassign, registry, pods, local
<1>37. ASSUME Abort PROVE TypeOK' /\ Control'
  <2>1. reg' \in Registries /\ regExists' \in BOOLEAN
    BY <1>37, <1>a, RegistryTypes DEF Abort
  <2>2. QED
    BY <1>37, <2>1, InterfaceAssumption DEF Abort, Return, cloud, registry, Writing, Release,
       ResetLocals
<1>38. ASSUME Tick PROVE TypeOK' /\ Control'
  BY <1>38, InterfaceAssumption DEF Tick, cloud, registry, pods, local
<1>39. CASE UNCHANGED vars
  BY <1>39 DEF cloud, registry, pods, local, vars
<1>q. QED
  BY <1>1, <1>2, <1>3, <1>4, <1>5, <1>6, <1>7, <1>8, <1>9, <1>10, <1>11, <1>12, <1>13, <1>14,
     <1>15, <1>16, <1>17, <1>18, <1>19, <1>20, <1>21, <1>22, <1>23, <1>24, <1>25, <1>26, <1>27,
     <1>28, <1>29, <1>30, <1>31, <1>31b, <1>32, <1>33, <1>34, <1>35, <1>36, <1>36b, <1>37, <1>38,
     <1>39 DEF Next, ToolStep, Begin, HolderStep, AddStep, AllocateStep, DelStep, GcStep,
     Environment

(* The initial state has the types and the control structure. *)
LEMMA TypeInit == Init => TypeOK /\ Control
<1> SUFFICES ASSUME Init PROVE TypeOK /\ Control
  OBVIOUS
<1>1. Start \in Nat /\ EmptyReg \in Registries
  BY ParameterAssumption, RegistryTypes
<1>a. changed \in [IP -> Nat] /\ since \in [Pod -> Nat] /\ addr \in [Pod -> IP \cup {NoIP}]
  BY DEF Init
<1>b. stage \in [Pod -> Stages] /\ pc \in Labels /\ regExists \in BOOLEAN
  BY DEF Init, Stages, Labels
<1>2. TypeOK
  BY <1>1, <1>a, <1>b, InterfaceAssumption DEF Init, TypeOK
<1>3. Control
  BY SentinelAssumption DEF Init, Control, Scanning, Allocating, Deleting, Collecting
<1>4. QED
  BY <1>2, <1>3

(* TypeOK is an invariant of the address manager, whatever its constants. *)
THEOREM TypeCorrect == Spec => []TypeOK
<1>1. Init => TypeOK /\ Control
  BY TypeInit
<1>2. TypeOK /\ Control /\ [Next]_vars => TypeOK' /\ Control'
  BY TypeStep
<1>3. QED
  BY <1>1, <1>2, PTL DEF Spec
=============================================================================
