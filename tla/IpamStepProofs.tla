--------------------------- MODULE IpamStepProofs ---------------------------
(***************************************************************************)
(* What a step can do to each part of the state, proved action by action, *)
(* so that the proofs of the invariant need not look at the actions.      *)
(***************************************************************************)
EXTENDS IpamTypeProofs

-----------------------------------------------------------------------------
(* What any step may do, in terms of the parts of the state.               *)

(* Once it exists, the file stays; an entry is kept, removed or renewed,    *)
(* except that a new interface's addresses are entered at the epoch.       *)
RegistryEffect ==
    /\ regExists =>
         /\ regExists'
         /\ \A ip \in IP : \/ reg'[ip] \in {reg[ip], NoEntry, Trunc(now)}
                           \/ pc = "attach" /\ ip \in base /\ reg'[ip] = Epoch
    /\ ~regExists' => reg' \in {reg, EmptyReg}

(* A pod gets an address only at the end of its ADD. *)
PodEffect ==
    \A p \in Pod :
        LET lent(ip) == /\ pc = "finish" /\ pc' = "idle" /\ lock = p /\ ip = alloc
                        /\ since'[p] = now /\ now' = now /\ regExists' /\ reg'[ip] = NoEntry
                        /\ stage'[p] = "handoff"
        IN /\ stage'[p] = "handoff" =>
                \/ stage[p] = "handoff" /\ addr'[p] = addr[p] /\ since'[p] = since[p]
                \/ lent(addr'[p])
           /\ stage[p] \in {"off", "adding"} /\ stage'[p] \notin {"off", "adding"} => regExists'
           /\ \A ip \in IP : Owns(p, ip)' => Owns(p, ip) \/ lent(ip)

(* EC2 assigns addresses in an allocation and unassigns one in a release;  *)
(* the metadata only ever catches up.                                      *)
CloudEffect ==
    /\ attached \subseteq attached'
    /\ \A ip \in IP :
         /\ ip \in ec2' /\ ip \notin ec2 =>
              /\ changed'[ip] = now
              /\ meta' = meta
              /\ \/ pc = "allocate" /\ pc' = "locate" /\ EniOf[ip] \in Visible
                 \/ pc = "newif" /\ pc' = "attach" /\ EniOf[ip] \in attached'
         /\ ip \in ec2 /\ ip \notin ec2' =>
              /\ changed'[ip] = now
              /\ regExists' = regExists
              /\ alloc' = ip
              /\ \/ /\ pc = "dealloc" /\ pc' = "deltrack" /\ alloc = ip /\ lock' = lock
                    /\ stage[lock] = "deleting" => ~Owns(lock, ip)'
                 \/ pc = "gc" /\ pc' = "gcforget" /\ ip \in todo \ found
         /\ ip \in meta' /\ ip \notin meta => ip \in ec2 /\ ec2' = ec2
         /\ ip \in meta /\ ip \notin meta' => ip \notin ec2 /\ ec2' = ec2
         /\ (ip \in ec2') # (ip \in meta') =>
              \/ (ip \in ec2') # (ip \in ec2) /\ changed'[ip] = now
              \/ (ip \in ec2) # (ip \in meta) /\ changed'[ip] = changed[ip]

(* A release is on record before its step ends. *)
RecordEffect ==
    \A ip \in IP : Releasing(ip) =>
        \/ Releasing(ip)'
        \/ reg'[ip] \in {NoEntry, Trunc(now)}

Effect == RegistryEffect /\ PodEffect /\ CloudEffect /\ RecordEffect /\ (Tick \/ now' = now)

(* Every step has these effects only. *)
LEMMA StepEffect ==
    ASSUME Undisturbed, TypeOK, Control, Next
    PROVE  Effect
<1> USE Undisturbed, SentinelAssumption DEF Undisturbed
<1>a. /\ LoadOk \subseteq BOOLEAN
      /\ \A ok \in BOOLEAN : Contents(ok) \in Registries
  BY ContentsType, RegistryAccess
<1>1. ASSUME NEW p \in Pod, AddBegin(p) PROVE Effect
  <2>1. RegistryEffect
    BY <1>1, <1>a DEF TypeOK, RegistryEffect, AddBegin, registry
  <2>2. PodEffect
    BY <1>1, <1>a DEF TypeOK, Control, PodEffect, Owns, AddBegin, Acquire, cloud, registry
  <2>3. CloudEffect
    BY <1>1 DEF TypeOK, CloudEffect, AddBegin, cloud, registry
  <2>4. RecordEffect
    BY <1>1, <1>a DEF TypeOK, Control, Releasing, Scanning, Allocating, Deleting, Collecting,
       RecordEffect, AddBegin, Acquire, cloud, registry
  <2>5. Tick \/ now' = now
    BY <1>1 DEF AddBegin
  <2>6. QED
    BY <2>1, <2>2, <2>3, <2>4, <2>5 DEF Effect
<1>2. ASSUME NEW p \in Pod, DelBegin(p) PROVE Effect
  <2>1. RegistryEffect
    BY <1>2, <1>a DEF TypeOK, RegistryEffect, DelBegin, registry
  <2>2. PodEffect
    BY <1>2, <1>a DEF TypeOK, Control, PodEffect, Owns, DelBegin, Acquire, cloud, registry, pods
  <2>3. CloudEffect
    BY <1>2 DEF TypeOK, CloudEffect, DelBegin, cloud, registry
  <2>4. RecordEffect
    BY <1>2, <1>a DEF TypeOK, Control, Releasing, Scanning, Allocating, Deleting, Collecting,
       RecordEffect, DelBegin, Acquire, cloud, registry, pods
  <2>5. Tick \/ now' = now
    BY <1>2 DEF DelBegin
  <2>6. QED
    BY <2>1, <2>2, <2>3, <2>4, <2>5 DEF Effect
<1>3. ASSUME NEW p \in Pod, Bind(p) PROVE Effect
  <2>1. RegistryEffect
    BY <1>3, <1>a DEF TypeOK, RegistryEffect, Bind, registry
  <2>2. PodEffect
    BY <1>3, <1>a DEF TypeOK, Control, PodEffect, Owns, Bind, cloud, registry, local
  <2>3. CloudEffect
    BY <1>3 DEF TypeOK, CloudEffect, Bind, cloud, registry, local
  <2>4. RecordEffect
    BY <1>3, <1>a DEF TypeOK, Control, Releasing, Scanning, Allocating, Deleting, Collecting,
       RecordEffect, Bind, cloud, registry, local
  <2>5. Tick \/ now' = now
    BY <1>3 DEF Bind
  <2>6. QED
    BY <2>1, <2>2, <2>3, <2>4, <2>5 DEF Effect
<1>4. ASSUME NEW p \in Pod, ChainFails(p) PROVE Effect
  <2>1. RegistryEffect
    BY <1>4, <1>a DEF TypeOK, RegistryEffect, ChainFails, registry
  <2>2. PodEffect
    BY <1>4, <1>a DEF TypeOK, Control, PodEffect, Owns, ChainFails, cloud, registry, local
  <2>3. CloudEffect
    BY <1>4 DEF TypeOK, CloudEffect, ChainFails, cloud, registry, local
  <2>4. RecordEffect
    BY <1>4, <1>a DEF TypeOK, Control, Releasing, Scanning, Allocating, Deleting, Collecting,
       RecordEffect, ChainFails, cloud, registry, local
  <2>5. Tick \/ now' = now
    BY <1>4 DEF ChainFails
  <2>6. QED
    BY <2>1, <2>2, <2>3, <2>4, <2>5 DEF Effect
<1>5. ASSUME NEW p \in Pod, StartDel(p) PROVE Effect
  <2>1. RegistryEffect
    BY <1>5, <1>a DEF TypeOK, RegistryEffect, StartDel, registry
  <2>2. PodEffect
    BY <1>5, <1>a DEF TypeOK, Control, PodEffect, Owns, StartDel, cloud, registry, local
  <2>3. CloudEffect
    BY <1>5 DEF TypeOK, CloudEffect, StartDel, cloud, registry, local
  <2>4. RecordEffect
    BY <1>5, <1>a DEF TypeOK, Control, Releasing, Scanning, Allocating, Deleting, Collecting,
       RecordEffect, StartDel, cloud, registry, local
  <2>5. Tick \/ now' = now
    BY <1>5 DEF StartDel
  <2>6. QED
    BY <2>1, <2>2, <2>3, <2>4, <2>5 DEF Effect
<1>6. ASSUME NEW p \in Pod, RemoveNetns(p) PROVE Effect
  <2>1. RegistryEffect
    BY <1>6, <1>a DEF TypeOK, RegistryEffect, RemoveNetns, registry
  <2>2. PodEffect
    BY <1>6, <1>a DEF TypeOK, Control, PodEffect, Owns, RemoveNetns, cloud, registry, local
  <2>3. CloudEffect
    BY <1>6 DEF TypeOK, CloudEffect, RemoveNetns, cloud, registry, local
  <2>4. RecordEffect
    BY <1>6, <1>a DEF TypeOK, Control, Releasing, Scanning, Allocating, Deleting, Collecting,
       RecordEffect, RemoveNetns, cloud, registry, local
  <2>5. Tick \/ now' = now
    BY <1>6 DEF RemoveNetns
  <2>6. QED
    BY <2>1, <2>2, <2>3, <2>4, <2>5 DEF Effect
<1>7. ASSUME NEW p \in Pod, DelNothing(p) PROVE Effect
  <2>1. RegistryEffect
    BY <1>7, <1>a DEF TypeOK, RegistryEffect, DelNothing, registry
  <2>2. PodEffect
    BY <1>7, <1>a DEF TypeOK, Control, PodEffect, Owns, DelNothing, Relinquish, cloud, registry,
       local
  <2>3. CloudEffect
    BY <1>7 DEF TypeOK, CloudEffect, DelNothing, Relinquish, cloud, registry, local
  <2>4. RecordEffect
    BY <1>7, <1>a DEF TypeOK, Control, Releasing, Scanning, Allocating, Deleting, Collecting,
       RecordEffect, DelNothing, Relinquish, cloud, registry, local
  <2>5. Tick \/ now' = now
    BY <1>7 DEF DelNothing
  <2>6. QED
    BY <2>1, <2>2, <2>3, <2>4, <2>5 DEF Effect
<1>8. ASSUME NEW p \in Pod, DelTimesOut(p) PROVE Effect
  <2>1. RegistryEffect
    BY <1>8, <1>a DEF TypeOK, RegistryEffect, DelTimesOut, registry
  <2>2. PodEffect
    BY <1>8, <1>a DEF TypeOK, Control, PodEffect, Owns, DelTimesOut, Relinquish, cloud, registry,
       local
  <2>3. CloudEffect
    BY <1>8 DEF TypeOK, CloudEffect, DelTimesOut, Relinquish, cloud, registry, local
  <2>4. RecordEffect
    BY <1>8, <1>a DEF TypeOK, Control, Releasing, Scanning, Allocating, Deleting, Collecting,
       RecordEffect, DelTimesOut, Relinquish, cloud, registry, local
  <2>5. Tick \/ now' = now
    BY <1>8 DEF DelTimesOut
  <2>6. QED
    BY <2>1, <2>2, <2>3, <2>4, <2>5 DEF Effect
<1>9. ASSUME NEW ip \in IP, AddReconcile(ip) PROVE Effect
  <2>1. RegistryEffect
    BY <1>9, <1>a DEF TypeOK, RegistryEffect, AddReconcile, Reconciled, Save, LoadFails, registry,
       Contents, Registries, ForgetIP, TrackIP, TrackIPAtEpoch, EmptyReg
  <2>2. PodEffect
    BY <1>9, <1>a DEF TypeOK, Control, PodEffect, Owns, AddReconcile, Reconciled, Save, LoadFails,
       cloud, pods, registry
  <2>3. CloudEffect
    BY <1>9 DEF TypeOK, CloudEffect, AddReconcile, cloud, registry
  <2>4. RecordEffect
    BY <1>9, <1>a DEF TypeOK, Control, Releasing, Scanning, Allocating, Deleting, Collecting,
       RecordEffect, AddReconcile, Reconciled, Save, LoadFails, cloud, pods, registry, Contents,
       Registries, ForgetIP, TrackIP, TrackIPAtEpoch, EmptyReg
  <2>5. Tick \/ now' = now
    BY <1>9 DEF AddReconcile
  <2>6. QED
    BY <2>1, <2>2, <2>3, <2>4, <2>5 DEF Effect
<1>10. ASSUME NEW ip \in IP, AddReconcileFails(ip) PROVE Effect
  <2>1. RegistryEffect
    BY <1>10, <1>a DEF TypeOK, RegistryEffect, AddReconcileFails, SaveFails, Save, registry,
       Contents, Registries, ForgetIP, TrackIP, TrackIPAtEpoch, EmptyReg
  <2>2. PodEffect
    BY <1>10, <1>a DEF TypeOK, Control, PodEffect, Owns, AddReconcileFails, SaveFails, cloud,
       pods, Save, registry
  <2>3. CloudEffect
    BY <1>10 DEF TypeOK, CloudEffect, AddReconcileFails, cloud, registry
  <2>4. RecordEffect
    BY <1>10, <1>a DEF TypeOK, Control, Releasing, Scanning, Allocating, Deleting, Collecting,
       RecordEffect, AddReconcileFails, SaveFails, cloud, pods, Save, registry, Contents,
       Registries, ForgetIP, TrackIP, TrackIPAtEpoch, EmptyReg
  <2>5. Tick \/ now' = now
    BY <1>10 DEF AddReconcileFails
  <2>6. QED
    BY <2>1, <2>2, <2>3, <2>4, <2>5 DEF Effect
<1>11. ASSUME NEW ip \in IP, AddPick(ip) PROVE Effect
  <2>1. RegistryEffect
    BY <1>11, <1>a DEF TypeOK, RegistryEffect, AddPick, Save, Contents, Registries, ForgetIP,
       TrackIP, TrackIPAtEpoch, EmptyReg
  <2>2. PodEffect
    BY <1>11, <1>a DEF TypeOK, Control, PodEffect, Owns, AddPick, Save, cloud, pods
  <2>3. CloudEffect
    BY <1>11 DEF TypeOK, CloudEffect, AddPick, cloud
  <2>4. RecordEffect
    BY <1>11, <1>a DEF TypeOK, Control, Releasing, Scanning, Allocating, Deleting, Collecting,
       RecordEffect, AddPick, Save, cloud, pods, Contents, Registries, ForgetIP, TrackIP,
       TrackIPAtEpoch, EmptyReg
  <2>5. Tick \/ now' = now
    BY <1>11 DEF AddPick
  <2>6. QED
    BY <2>1, <2>2, <2>3, <2>4, <2>5 DEF Effect
<1>12. ASSUME NEW ip \in IP, LocateFound(ip) PROVE Effect
  <2>1. RegistryEffect
    BY <1>12, <1>a DEF TypeOK, RegistryEffect, LocateFound, Save, SaveFails, registry, Contents,
       Registries, ForgetIP, TrackIP, TrackIPAtEpoch, EmptyReg
  <2>2. PodEffect
    BY <1>12, <1>a DEF TypeOK, Control, PodEffect, Owns, LocateFound, Return, Save, SaveFails,
       cloud, pods, registry, Release, ResetLocals
  <2>3. CloudEffect
    BY <1>12 DEF TypeOK, CloudEffect, LocateFound, cloud, On, registry
  <2>4. RecordEffect
    BY <1>12, <1>a DEF TypeOK, Control, Releasing, Scanning, Allocating, Deleting, Collecting,
       RecordEffect, LocateFound, Return, Save, SaveFails, cloud, pods, registry, Release,
       ResetLocals, Contents, Registries, ForgetIP, TrackIP, TrackIPAtEpoch, EmptyReg
  <2>5. Tick \/ now' = now
    BY <1>12 DEF LocateFound
  <2>6. QED
    BY <2>1, <2>2, <2>3, <2>4, <2>5 DEF Effect
<1>13. ASSUME NEW ip \in IP, NewInterfaceShows(ip) PROVE Effect
  <2>1. RegistryEffect
    BY <1>13, <1>a DEF TypeOK, RegistryEffect, NewInterfaceShows, Save, SaveFails, registry,
       Contents, Registries, ForgetIP, TrackIP, TrackIPAtEpoch, EmptyReg
  <2>2. PodEffect
    BY <1>13, <1>a DEF TypeOK, Control, PodEffect, Owns, NewInterfaceShows, Return, Save,
       SaveFails, cloud, pods, registry, Release, ResetLocals
  <2>3. CloudEffect
    BY <1>13 DEF TypeOK, CloudEffect, NewInterfaceShows, On, cloud, registry
  <2>4. RecordEffect
    BY <1>13, <1>a DEF TypeOK, Control, Releasing, Scanning, Allocating, Deleting, Collecting,
       RecordEffect, NewInterfaceShows, Return, Save, SaveFails, cloud, pods, registry, Release,
       ResetLocals, Contents, Registries, ForgetIP, TrackIP, TrackIPAtEpoch, EmptyReg
  <2>5. Tick \/ now' = now
    BY <1>13 DEF NewInterfaceShows
  <2>6. QED
    BY <2>1, <2>2, <2>3, <2>4, <2>5 DEF Effect
<1>14. ASSUME NEW ip \in IP, GcForgetUsed(ip) PROVE Effect
  <2>1. RegistryEffect
    BY <1>14, <1>a DEF TypeOK, RegistryEffect, GcForgetUsed, Save, SaveFails, registry, Contents,
       Registries, ForgetIP, TrackIP, TrackIPAtEpoch, EmptyReg
  <2>2. PodEffect
    BY <1>14, <1>a DEF TypeOK, Control, PodEffect, Owns, GcForgetUsed, Save, SaveFails, cloud,
       pods, registry
  <2>3. CloudEffect
    BY <1>14 DEF TypeOK, CloudEffect, GcForgetUsed, cloud, registry
  <2>4. RecordEffect
    BY <1>14, <1>a DEF TypeOK, Control, Releasing, Scanning, Allocating, Deleting, Collecting,
       RecordEffect, GcForgetUsed, Save, SaveFails, cloud, pods, registry, Contents, Registries,
       ForgetIP, TrackIP, TrackIPAtEpoch, EmptyReg
  <2>5. Tick \/ now' = now
    BY <1>14 DEF GcForgetUsed
  <2>6. QED
    BY <2>1, <2>2, <2>3, <2>4, <2>5 DEF Effect
<1>15. ASSUME NEW ip \in IP, GcDeallocate(ip) PROVE Effect
  <2>1. RegistryEffect
    BY <1>15, <1>a DEF TypeOK, RegistryEffect, GcDeallocate, registry
  <2>2. PodEffect
    BY <1>15, <1>a DEF TypeOK, Control, PodEffect, Owns, GcDeallocate, Unassign, registry, pods
  <2>3. CloudEffect
    BY <1>15 DEF TypeOK, CloudEffect, GcDeallocate, Unassign, registry
  <2>4. RecordEffect
    BY <1>15, <1>a DEF TypeOK, Control, Releasing, Scanning, Allocating, Deleting, Collecting,
       RecordEffect, GcDeallocate, Unassign, registry, pods
  <2>5. Tick \/ now' = now
    BY <1>15 DEF GcDeallocate
  <2>6. QED
    BY <2>1, <2>2, <2>3, <2>4, <2>5 DEF Effect
<1>16. ASSUME NEW ip \in IP, GcSkip(ip) PROVE Effect
  <2>1. RegistryEffect
    BY <1>16, <1>a DEF TypeOK, RegistryEffect, GcSkip, registry
  <2>2. PodEffect
    BY <1>16, <1>a DEF TypeOK, Control, PodEffect, Owns, GcSkip, GcNext, cloud, registry, Release,
       pods, ResetLocals
  <2>3. CloudEffect
    BY <1>16 DEF TypeOK, CloudEffect, GcSkip, cloud, registry
  <2>4. RecordEffect
    BY <1>16, <1>a DEF TypeOK, Control, Releasing, Scanning, Allocating, Deleting, Collecting,
       RecordEffect, GcSkip, GcNext, cloud, registry, Release, pods, ResetLocals
  <2>5. Tick \/ now' = now
    BY <1>16 DEF GcSkip
  <2>6. QED
    BY <2>1, <2>2, <2>3, <2>4, <2>5 DEF Effect
<1>17. ASSUME NEW ip \in IP, Sync(ip) PROVE Effect
  <2>1. RegistryEffect
    BY <1>17, <1>a DEF TypeOK, RegistryEffect, Sync, registry
  <2>2. PodEffect
    BY <1>17, <1>a DEF TypeOK, Control, PodEffect, Owns, Sync, registry, pods, local
  <2>3. CloudEffect
    BY <1>17 DEF TypeOK, CloudEffect, Sync, registry, local
  <2>4. RecordEffect
    BY <1>17, <1>a DEF TypeOK, Control, Releasing, Scanning, Allocating, Deleting, Collecting,
       RecordEffect, Sync, registry, pods, local
  <2>5. Tick \/ now' = now
    BY <1>17 DEF Sync
  <2>6. QED
    BY <2>1, <2>2, <2>3, <2>4, <2>5 DEF Effect
<1>18. ASSUME NEW e \in Eni, NEW new \in SUBSET IP, Allocate(e, new) PROVE Effect
  <2>1. RegistryEffect
    BY <1>18, <1>a DEF TypeOK, RegistryEffect, Allocate, registry
  <2>2. PodEffect
    BY <1>18, <1>a DEF TypeOK, Control, PodEffect, Owns, Allocate, registry, pods
  <2>3. CloudEffect
    BY <1>18 DEF TypeOK, CloudEffect, Allocate, On, registry, Visible
  <2>4. RecordEffect
    BY <1>18, <1>a DEF TypeOK, Control, Releasing, Scanning, Allocating, Deleting, Collecting,
       RecordEffect, Allocate, registry, pods
  <2>5. Tick \/ now' = now
    BY <1>18 DEF Allocate
  <2>6. QED
    BY <2>1, <2>2, <2>3, <2>4, <2>5 DEF Effect
<1>19. ASSUME NEW e \in Eni, NEW new \in SUBSET IP, NewInterface(e, new) PROVE Effect
  <2>1. RegistryEffect
    BY <1>19, <1>a DEF TypeOK, RegistryEffect, NewInterface, registry
  <2>2. PodEffect
    BY <1>19, <1>a DEF TypeOK, Control, PodEffect, Owns, NewInterface, registry, pods
  <2>3. CloudEffect
    BY <1>19 DEF TypeOK, CloudEffect, NewInterface, On, registry, Visible
  <2>4. RecordEffect
    BY <1>19, <1>a DEF TypeOK, Control, Releasing, Scanning, Allocating, Deleting, Collecting,
       RecordEffect, NewInterface, registry, pods
  <2>5. Tick \/ now' = now
    BY <1>19 DEF NewInterface
  <2>6. QED
    BY <2>1, <2>2, <2>3, <2>4, <2>5 DEF Effect
<1>20. ASSUME GcBegin PROVE Effect
  <2>1. RegistryEffect
    BY <1>20, <1>a DEF TypeOK, RegistryEffect, GcBegin, Load, Contents, Registries, ForgetIP,
       TrackIP, TrackIPAtEpoch, EmptyReg
  <2>2. PodEffect
    BY <1>20, <1>a DEF TypeOK, Control, PodEffect, Owns, GcBegin, Acquire, Cutoff, Load, cloud, pods
  <2>3. CloudEffect
    BY <1>20 DEF TypeOK, CloudEffect, GcBegin, cloud
  <2>4. RecordEffect
    BY <1>20, <1>a DEF TypeOK, Control, Releasing, Scanning, Allocating, Deleting, Collecting,
       RecordEffect, GcBegin, Acquire, Cutoff, Load, cloud, pods, Contents, Registries, ForgetIP,
       TrackIP, TrackIPAtEpoch, EmptyReg
  <2>5. Tick \/ now' = now
    BY <1>20 DEF GcBegin
  <2>6. QED
    BY <2>1, <2>2, <2>3, <2>4, <2>5 DEF Effect
<1>21. ASSUME ToolAllocate PROVE Effect
  <2>1. RegistryEffect
    BY <1>21, <1>a DEF TypeOK, RegistryEffect, ToolAllocate, registry
  <2>2. PodEffect
    BY <1>21, <1>a DEF TypeOK, Control, PodEffect, Owns, ToolAllocate, Acquire, cloud, registry,
       pods, local
  <2>3. CloudEffect
    BY <1>21 DEF TypeOK, CloudEffect, ToolAllocate, cloud, registry, local
  <2>4. RecordEffect
    BY <1>21, <1>a DEF TypeOK, Control, Releasing, Scanning, Allocating, Deleting, Collecting,
       RecordEffect, ToolAllocate, Acquire, cloud, registry, pods, local
  <2>5. Tick \/ now' = now
    BY <1>21 DEF ToolAllocate
  <2>6. QED
    BY <2>1, <2>2, <2>3, <2>4, <2>5 DEF Effect
<1>22. ASSUME ToolNewInterface PROVE Effect
  <2>1. RegistryEffect
    BY <1>22, <1>a DEF TypeOK, RegistryEffect, ToolNewInterface, registry
  <2>2. PodEffect
    BY <1>22, <1>a DEF TypeOK, Control, PodEffect, Owns, ToolNewInterface, Acquire, cloud,
       registry, pods, local
  <2>3. CloudEffect
    BY <1>22 DEF TypeOK, CloudEffect, ToolNewInterface, cloud, registry, local
  <2>4. RecordEffect
    BY <1>22, <1>a DEF TypeOK, Control, Releasing, Scanning, Allocating, Deleting, Collecting,
       RecordEffect, ToolNewInterface, Acquire, cloud, registry, pods, local
  <2>5. Tick \/ now' = now
    BY <1>22 DEF ToolNewInterface
  <2>6. QED
    BY <2>1, <2>2, <2>3, <2>4, <2>5 DEF Effect
<1>23. ASSUME AddAssigned PROVE Effect
  <2>1. RegistryEffect
    BY <1>23, <1>a DEF TypeOK, RegistryEffect, AddAssigned, registry
  <2>2. PodEffect
    BY <1>23, <1>a DEF TypeOK, Control, PodEffect, Owns, AddAssigned, ResetLocals, cloud,
       registry, pods
  <2>3. CloudEffect
    BY <1>23 DEF TypeOK, CloudEffect, AddAssigned, cloud, registry
  <2>4. RecordEffect
    BY <1>23, <1>a DEF TypeOK, Control, Releasing, Scanning, Allocating, Deleting, Collecting,
       RecordEffect, AddAssigned, ResetLocals, cloud, registry, pods
  <2>5. Tick \/ now' = now
    BY <1>23 DEF AddAssigned
  <2>6. QED
    BY <2>1, <2>2, <2>3, <2>4, <2>5 DEF Effect
<1>24. ASSUME AddScanned PROVE Effect
  <2>1. RegistryEffect
    BY <1>24, <1>a DEF TypeOK, RegistryEffect, AddScanned, registry
  <2>2. PodEffect
    BY <1>24, <1>a DEF TypeOK, Control, PodEffect, Owns, AddScanned, cloud, registry, pods, local
  <2>3. CloudEffect
    BY <1>24 DEF TypeOK, CloudEffect, AddScanned, cloud, registry, local
  <2>4. RecordEffect
    BY <1>24, <1>a DEF TypeOK, Control, Releasing, Scanning, Allocating, Deleting, Collecting,
       RecordEffect, AddScanned, cloud, registry, pods, local
  <2>5. Tick \/ now' = now
    BY <1>24 DEF AddScanned
  <2>6. QED
    BY <2>1, <2>2, <2>3, <2>4, <2>5 DEF Effect
<1>25. ASSUME AddNoneReusable PROVE Effect
  <2>1. RegistryEffect
    BY <1>25, <1>a DEF TypeOK, RegistryEffect, AddNoneReusable, Load, LoadFails, Save, registry,
       Contents, Registries, ForgetIP, TrackIP, TrackIPAtEpoch, EmptyReg
  <2>2. PodEffect
    BY <1>25, <1>a DEF TypeOK, Control, PodEffect, Owns, AddNoneReusable, ResetLocals, Load,
       LoadFails, cloud, pods, Save, registry
  <2>3. CloudEffect
    BY <1>25 DEF TypeOK, CloudEffect, AddNoneReusable, cloud, registry
  <2>4. RecordEffect
    BY <1>25, <1>a DEF TypeOK, Control, Releasing, Scanning, Allocating, Deleting, Collecting,
       RecordEffect, AddNoneReusable, ResetLocals, Load, LoadFails, cloud, pods, Save, registry,
       Contents, Registries, ForgetIP, TrackIP, TrackIPAtEpoch, EmptyReg
  <2>5. Tick \/ now' = now
    BY <1>25 DEF AddNoneReusable
  <2>6. QED
    BY <2>1, <2>2, <2>3, <2>4, <2>5 DEF Effect
<1>26. ASSUME AddFinish PROVE Effect
  <2>1. RegistryEffect
    BY <1>26, <1>a DEF TypeOK, RegistryEffect, AddFinish, Save, Contents, Registries, ForgetIP,
       TrackIP, TrackIPAtEpoch, EmptyReg
  <2>2. PodEffect
    BY <1>26, <1>a DEF TypeOK, Control, PodEffect, Owns, AddFinish, Release, Save, cloud,
       ResetLocals, Registries, ForgetIP
  <2>3. CloudEffect
    BY <1>26 DEF TypeOK, CloudEffect, AddFinish, cloud
  <2>4. RecordEffect
    BY <1>26, <1>a DEF TypeOK, Control, Releasing, Scanning, Allocating, Deleting, Collecting,
       RecordEffect, AddFinish, Release, Save, cloud, ResetLocals, Contents, Registries, ForgetIP,
       TrackIP, TrackIPAtEpoch, EmptyReg
  <2>5. Tick \/ now' = now
    BY <1>26 DEF AddFinish
  <2>6. QED
    BY <2>1, <2>2, <2>3, <2>4, <2>5 DEF Effect
<1>27. ASSUME AllocateFails PROVE Effect
  <2>1. RegistryEffect
    BY <1>27, <1>a DEF TypeOK, RegistryEffect, AllocateFails, registry
  <2>2. PodEffect
    BY <1>27, <1>a DEF TypeOK, Control, PodEffect, Owns, AllocateFails, AllocationFails, cloud,
       registry, ResetLocals, Return, pods, Release
  <2>3. CloudEffect
    BY <1>27 DEF TypeOK, CloudEffect, AllocateFails, cloud, registry
  <2>4. RecordEffect
    BY <1>27, <1>a DEF TypeOK, Control, Releasing, Scanning, Allocating, Deleting, Collecting,
       RecordEffect, AllocateFails, AllocationFails, cloud, registry, ResetLocals, Return, pods,
       Release
  <2>5. Tick \/ now' = now
    BY <1>27 DEF AllocateFails
  <2>6. QED
    BY <2>1, <2>2, <2>3, <2>4, <2>5 DEF Effect
<1>28. ASSUME LocatePoll PROVE Effect
  <2>1. RegistryEffect
    BY <1>28, <1>a DEF TypeOK, RegistryEffect, LocatePoll, Load, Contents, Registries, ForgetIP,
       TrackIP, TrackIPAtEpoch, EmptyReg
  <2>2. PodEffect
    BY <1>28, <1>a DEF TypeOK, Control, PodEffect, Owns, LocatePoll, Load, cloud, pods, local
  <2>3. CloudEffect
    BY <1>28 DEF TypeOK, CloudEffect, LocatePoll, On, cloud, local
  <2>4. RecordEffect
    BY <1>28, <1>a DEF TypeOK, Control, Releasing, Scanning, Allocating, Deleting, Collecting,
       RecordEffect, LocatePoll, Load, cloud, pods, local, Contents, Registries, ForgetIP,
       TrackIP, TrackIPAtEpoch, EmptyReg
  <2>5. Tick \/ now' = now
    BY <1>28 DEF LocatePoll
  <2>6. QED
    BY <2>1, <2>2, <2>3, <2>4, <2>5 DEF Effect
<1>29. ASSUME LocateGiveUp PROVE Effect
  <2>1. RegistryEffect
    BY <1>29, <1>a DEF TypeOK, RegistryEffect, LocateGiveUp, registry
  <2>2. PodEffect
    BY <1>29, <1>a DEF TypeOK, Control, PodEffect, Owns, LocateGiveUp, AllocationFails, cloud,
       registry, ResetLocals, Return, pods, Release
  <2>3. CloudEffect
    BY <1>29 DEF TypeOK, CloudEffect, LocateGiveUp, cloud, registry
  <2>4. RecordEffect
    BY <1>29, <1>a DEF TypeOK, Control, Releasing, Scanning, Allocating, Deleting, Collecting,
       RecordEffect, LocateGiveUp, AllocationFails, cloud, registry, ResetLocals, Return, pods,
       Release
  <2>5. Tick \/ now' = now
    BY <1>29 DEF LocateGiveUp
  <2>6. QED
    BY <2>1, <2>2, <2>3, <2>4, <2>5 DEF Effect
<1>30. ASSUME NewInterfaceFails PROVE Effect
  <2>1. RegistryEffect
    BY <1>30, <1>a DEF TypeOK, RegistryEffect, NewInterfaceFails, registry
  <2>2. PodEffect
    BY <1>30, <1>a DEF TypeOK, Control, PodEffect, Owns, NewInterfaceFails, Return, cloud,
       registry, Release, ResetLocals
  <2>3. CloudEffect
    BY <1>30 DEF TypeOK, CloudEffect, NewInterfaceFails, cloud, registry
  <2>4. RecordEffect
    BY <1>30, <1>a DEF TypeOK, Control, Releasing, Scanning, Allocating, Deleting, Collecting,
       RecordEffect, NewInterfaceFails, Return, cloud, registry, Release, ResetLocals
  <2>5. Tick \/ now' = now
    BY <1>30 DEF NewInterfaceFails
  <2>6. QED
    BY <2>1, <2>2, <2>3, <2>4, <2>5 DEF Effect
<1>31. ASSUME DelDeallocate PROVE Effect
  <2>1. RegistryEffect
    BY <1>31, <1>a DEF TypeOK, RegistryEffect, DelDeallocate, registry
  <2>2. PodEffect
    BY <1>31, <1>a DEF TypeOK, Control, PodEffect, Owns, DelDeallocate, Unassign, Relinquish,
       registry, local
  <2>3. CloudEffect
    BY <1>31 DEF TypeOK, CloudEffect, DelDeallocate, Unassign, Relinquish, registry, local, Owns,
       Control, Deleting
  <2>4. RecordEffect
    BY <1>31, <1>a DEF TypeOK, Control, Releasing, Scanning, Allocating, Deleting, Collecting,
       RecordEffect, DelDeallocate, Unassign, Relinquish, registry, local
  <2>5. Tick \/ now' = now
    BY <1>31 DEF DelDeallocate
  <2>6. QED
    BY <2>1, <2>2, <2>3, <2>4, <2>5 DEF Effect
<1>32. ASSUME DelFails PROVE Effect
  <2>1. RegistryEffect
    BY <1>32, <1>a DEF TypeOK, RegistryEffect, DelFails, registry
  <2>2. PodEffect
    BY <1>32, <1>a DEF TypeOK, Control, PodEffect, Owns, DelFails, Return, cloud, registry,
       Release, ResetLocals
  <2>3. CloudEffect
    BY <1>32 DEF TypeOK, CloudEffect, DelFails, cloud, registry
  <2>4. RecordEffect
    BY <1>32, <1>a DEF TypeOK, Control, Releasing, Scanning, Allocating, Deleting, Collecting,
       RecordEffect, DelFails, Return, cloud, registry, Release, ResetLocals
  <2>5. Tick \/ now' = now
    BY <1>32 DEF DelFails
  <2>6. QED
    BY <2>1, <2>2, <2>3, <2>4, <2>5 DEF Effect
<1>33. ASSUME DelTrack PROVE Effect
  <2>1. RegistryEffect
    BY <1>33, <1>a DEF TypeOK, RegistryEffect, DelTrack, Save, Contents, Registries, ForgetIP,
       TrackIP, TrackIPAtEpoch, EmptyReg
  <2>2. PodEffect
    BY <1>33, <1>a DEF TypeOK, Control, PodEffect, Owns, DelTrack, Release, Relinquish, Save,
       cloud, ResetLocals
  <2>3. CloudEffect
    BY <1>33 DEF TypeOK, CloudEffect, DelTrack, Relinquish, cloud
  <2>4. RecordEffect
    BY <1>33, <1>a DEF TypeOK, Control, Releasing, Scanning, Allocating, Deleting, Collecting,
       RecordEffect, DelTrack, Release, Relinquish, Save, cloud, ResetLocals, Contents,
       Registries, ForgetIP, TrackIP, TrackIPAtEpoch, EmptyReg
  <2>5. Tick \/ now' = now
    BY <1>33 DEF DelTrack
  <2>6. QED
    BY <2>1, <2>2, <2>3, <2>4, <2>5 DEF Effect
<1>34. ASSUME GcAssigned PROVE Effect
  <2>1. RegistryEffect
    BY <1>34, <1>a DEF TypeOK, RegistryEffect, GcAssigned, registry
  <2>2. PodEffect
    BY <1>34, <1>a DEF TypeOK, Control, PodEffect, Owns, GcAssigned, cloud, registry, pods
  <2>3. CloudEffect
    BY <1>34 DEF TypeOK, CloudEffect, GcAssigned, cloud, registry
  <2>4. RecordEffect
    BY <1>34, <1>a DEF TypeOK, Control, Releasing, Scanning, Allocating, Deleting, Collecting,
       RecordEffect, GcAssigned, cloud, registry, pods
  <2>5. Tick \/ now' = now
    BY <1>34 DEF GcAssigned
  <2>6. QED
    BY <2>1, <2>2, <2>3, <2>4, <2>5 DEF Effect
<1>35. ASSUME GcForget PROVE Effect
  <2>1. RegistryEffect
    BY <1>35, <1>a DEF TypeOK, RegistryEffect, GcForget, Save, registry, Contents, Registries,
       ForgetIP, TrackIP, TrackIPAtEpoch, EmptyReg
  <2>2. PodEffect
    BY <1>35, <1>a DEF TypeOK, Control, PodEffect, Owns, GcForget, GcNext, Save, cloud, registry,
       Release, pods, ResetLocals
  <2>3. CloudEffect
    BY <1>35 DEF TypeOK, CloudEffect, GcForget, cloud, registry
  <2>4. RecordEffect
    BY <1>35, <1>a DEF TypeOK, Releasing, RecordEffect, GcForget, Save, registry, Registries,
       ForgetIP, EmptyReg
  <2>5. Tick \/ now' = now
    BY <1>35 DEF GcForget
  <2>6. QED
    BY <2>1, <2>2, <2>3, <2>4, <2>5 DEF Effect
<1>36. ASSUME GcDone PROVE Effect
  <2>1. RegistryEffect
    BY <1>36, <1>a DEF TypeOK, RegistryEffect, GcDone, registry
  <2>2. PodEffect
    BY <1>36, <1>a DEF TypeOK, Control, PodEffect, Owns, GcDone, Release, cloud, registry, pods,
       ResetLocals
  <2>3. CloudEffect
    BY <1>36 DEF TypeOK, CloudEffect, GcDone, cloud, registry
  <2>4. RecordEffect
    BY <1>36, <1>a DEF TypeOK, Control, Releasing, Scanning, Allocating, Deleting, Collecting,
       RecordEffect, GcDone, Release, cloud, registry, pods, ResetLocals
  <2>5. Tick \/ now' = now
    BY <1>36 DEF GcDone
  <2>6. QED
    BY <2>1, <2>2, <2>3, <2>4, <2>5 DEF Effect
<1>37. ASSUME ToolRegistryList PROVE Effect
  <2>1. RegistryEffect
    BY <1>37, <1>a DEF TypeOK, RegistryEffect, ToolRegistryList, Load, Contents, Registries,
       ForgetIP, TrackIP, TrackIPAtEpoch, EmptyReg
  <2>2. PodEffect
    BY <1>37, <1>a DEF TypeOK, Control, PodEffect, Owns, ToolRegistryList, Load, cloud, pods, local
  <2>3. CloudEffect
    BY <1>37 DEF TypeOK, CloudEffect, ToolRegistryList, cloud, local
  <2>4. RecordEffect
    BY <1>37, <1>a DEF TypeOK, Control, Releasing, Scanning, Allocating, Deleting, Collecting,
       RecordEffect, ToolRegistryList, Load, cloud, pods, local, Contents, Registries, ForgetIP,
       TrackIP, TrackIPAtEpoch, EmptyReg
  <2>5. Tick \/ now' = now
    BY <1>37 DEF ToolRegistryList
  <2>6. QED
    BY <2>1, <2>2, <2>3, <2>4, <2>5 DEF Effect
<1>37b. ASSUME NEW ip \in IP, ToolDeallocate(ip) PROVE Effect
  BY <1>37b DEF ToolDeallocate
<1>38. ASSUME Abort PROVE Effect
  <2>1. RegistryEffect
    BY <1>38, <1>a DEF TypeOK, RegistryEffect, Abort, Save, registry, Contents, Registries,
       ForgetIP, TrackIP, TrackIPAtEpoch, EmptyReg
  <2>2. PodEffect
    BY <1>38, <1>a DEF TypeOK, Control, PodEffect, Owns, Abort, Return, Save, cloud, registry,
       Release, ResetLocals
  <2>3. CloudEffect
    BY <1>38 DEF TypeOK, CloudEffect, Abort, cloud, registry
  <2>4. RecordEffect
    BY <1>38, <1>a DEF TypeOK, Control, Releasing, Scanning, Allocating, Deleting, Collecting,
       RecordEffect, Abort, Return, Save, cloud, registry, Release, ResetLocals, Contents,
       Registries, ForgetIP, TrackIP, TrackIPAtEpoch, EmptyReg
  <2>5. Tick \/ now' = now
    BY <1>38 DEF Abort
  <2>6. QED
    BY <2>1, <2>2, <2>3, <2>4, <2>5 DEF Effect
<1>39. ASSUME Tick PROVE Effect
  <2>1. RegistryEffect
    BY <1>39, <1>a DEF TypeOK, RegistryEffect, Tick, registry
  <2>2. PodEffect
    BY <1>39, <1>a DEF TypeOK, Control, PodEffect, Owns, Tick, cloud, registry, pods, local
  <2>3. CloudEffect
    BY <1>39 DEF TypeOK, CloudEffect, Tick, cloud, registry, local
  <2>4. RecordEffect
    BY <1>39, <1>a DEF TypeOK, Control, Releasing, Scanning, Allocating, Deleting, Collecting,
       RecordEffect, Tick, cloud, registry, pods, local
  <2>5. Tick \/ now' = now
    BY <1>39 DEF Tick
  <2>6. QED
    BY <2>1, <2>2, <2>3, <2>4, <2>5 DEF Effect
<1>q. QED
  BY <1>1, <1>2, <1>3, <1>4, <1>5, <1>6, <1>7, <1>8, <1>9, <1>10, <1>11, <1>12, <1>13, <1>14,
     <1>15, <1>16, <1>17, <1>18, <1>19, <1>20, <1>21, <1>22, <1>23, <1>24, <1>25, <1>26, <1>27,
     <1>28, <1>29, <1>30, <1>31, <1>32, <1>33, <1>34, <1>35, <1>36, <1>37, <1>37b, <1>38, <1>39
     DEF Next, ToolStep, Begin, HolderStep, AddStep, AllocateStep, DelStep, GcStep, Environment

-----------------------------------------------------------------------------
(* What the holder's variables can be after a step.                        *)

(* A scan keeps its snapshot and only drops addresses from it. *)
ScanEffect ==
    pc' \in Scanning =>
        \/ /\ pc = "idle" /\ pc' = "assigned" /\ scanAt' = now /\ todo' \subseteq meta /\ free' = {}
           /\ UNCHANGED <<now, ec2, meta, reg, regExists>>
        \/ /\ pc \in Scanning /\ scanAt' = scanAt /\ ec2' = ec2
           /\ todo' \cup free' \subseteq todo \cup free
           /\ pc # "assigned" => /\ pc' # "assigned"
                                 /\ (todo' \ found') \cup free' \subseteq (todo \ found) \cup free
           /\ pc = "assigned" /\ pc' # "assigned" =>
                /\ todo' = todo /\ found' = Bound /\ free' = {}
                /\ UNCHANGED <<now, stage, addr, since, reg, regExists>>

(* An allocation keeps its interface, and an ADD ends with an address that  *)
(* was free and old enough, or that appeared on that interface.            *)
AllocationEffect ==
    /\ pc' = "locate" =>
         \/ pc = "locate" /\ UNCHANGED <<eni, base, ec2>>
         \/ pc = "allocate" /\ base' = On(eni', meta) /\ UNCHANGED <<meta, stage, addr>>
    /\ pc' = "attach" =>
         \/ pc = "attach" /\ UNCHANGED <<eni, base, ec2>>
         \/ /\ pc = "newif" /\ eni' \notin attached /\ base' \subseteq On(eni', ec2')
            /\ UNCHANGED <<meta, stage, addr>>
    /\ pc' = "finish" =>
         \/ pc = "finish" /\ UNCHANGED <<alloc, ec2>>
         \/ /\ UNCHANGED <<now, ec2, meta, stage, addr>>
            /\ \/ /\ pc = "pick" /\ alloc' \in free
                  /\ regExists => reg[alloc'] # NoEntry /\ reg[alloc'] < now - Wait
               \/ pc = "locate" /\ alloc' \in On(eni, meta) \ base
               \/ pc = "attach" /\ alloc' \in On(eni, meta)

(* DEL takes the address of its own pod; registry-gc takes old entries and *)
(* only drops addresses from them.                                         *)
ReleaseEffect ==
    /\ pc' = "dealloc" =>
         \/ pc = "dealloc" /\ UNCHANGED <<alloc, lock>> /\ (stage[lock] = "deleting" => stage'[lock] = "deleting")
         \/ /\ pc = "idle" /\ lock' \in Pod /\ stage[lock'] = "deleting" /\ addr[lock'] = alloc'
            /\ UNCHANGED <<stage, addr>>
    /\ pc' = "gcassigned" =>
         \/ pc = "gcassigned" /\ todo' = todo
         \/ /\ pc = "idle" /\ UNCHANGED <<now, stage, addr, since>>
            /\ regExists => \A ip \in todo' : reg[ip] # NoEntry /\ reg[ip] < now - FreeAfter
            /\ ~regExists' => todo' = {}
    /\ pc' \in {"gc", "gcforget"} =>
         \/ pc = "gcassigned" /\ found' = Bound /\ todo' = todo /\ UNCHANGED <<stage, addr>>
         \/ pc \in {"gc", "gcforget"} /\ todo' \subseteq todo /\ found' = found
    /\ pc' = "gcforget" => pc = "gcforget" \/ todo # {}
    /\ pc' \in Deleting => pc \in Deleting \/ \E p \in Pod : stage[p] \notin {"off", "adding"}

LocalEffect == ScanEffect /\ AllocationEffect /\ ReleaseEffect

(* Every step treats the local variables in these ways only. *)
LEMMA StepLocalEffect ==
    ASSUME Undisturbed, TypeOK, Control, Next
    PROVE  LocalEffect
<1> USE Undisturbed, SentinelAssumption DEF Undisturbed, Scanning, Deleting
<1>1. ASSUME NEW p \in Pod, AddBegin(p) PROVE LocalEffect
  BY <1>1, ParameterAssumption DEF TypeOK, Control, LocalEffect, ScanEffect, AllocationEffect,
     ReleaseEffect, AddBegin, Acquire, cloud, registry
<1>2. ASSUME NEW p \in Pod, DelBegin(p) PROVE LocalEffect
  BY <1>2, ParameterAssumption DEF TypeOK, Control, LocalEffect, ScanEffect, AllocationEffect,
     ReleaseEffect, DelBegin, Acquire, cloud, registry, pods
<1>3. ASSUME NEW p \in Pod, Bind(p) PROVE LocalEffect
  BY <1>3, ParameterAssumption DEF TypeOK, Control, LocalEffect, ScanEffect, AllocationEffect,
     ReleaseEffect, Bind, cloud, registry, local
<1>4. ASSUME NEW p \in Pod, ChainFails(p) PROVE LocalEffect
  BY <1>4, ParameterAssumption DEF TypeOK, Control, LocalEffect, ScanEffect, AllocationEffect,
     ReleaseEffect, ChainFails, cloud, registry, local
<1>5. ASSUME NEW p \in Pod, StartDel(p) PROVE LocalEffect
  BY <1>5, ParameterAssumption DEF TypeOK, Control, LocalEffect, ScanEffect, AllocationEffect,
     ReleaseEffect, StartDel, cloud, registry, local
<1>6. ASSUME NEW p \in Pod, RemoveNetns(p) PROVE LocalEffect
  BY <1>6, ParameterAssumption DEF TypeOK, Control, LocalEffect, ScanEffect, AllocationEffect,
     ReleaseEffect, RemoveNetns, cloud, registry, local
<1>7. ASSUME NEW p \in Pod, DelNothing(p) PROVE LocalEffect
  BY <1>7, ParameterAssumption DEF TypeOK, Control, LocalEffect, ScanEffect, AllocationEffect,
     ReleaseEffect, DelNothing, Relinquish, cloud, registry, local
<1>8. ASSUME NEW p \in Pod, DelTimesOut(p) PROVE LocalEffect
  BY <1>8, ParameterAssumption DEF TypeOK, Control, LocalEffect, ScanEffect, AllocationEffect,
     ReleaseEffect, DelTimesOut, Relinquish, cloud, registry, local
<1>9. ASSUME NEW ip \in IP, AddReconcile(ip) PROVE LocalEffect
  BY <1>9, ParameterAssumption DEF TypeOK, Control, LocalEffect, ScanEffect, AllocationEffect,
     ReleaseEffect, AddReconcile, Reconciled, LoadFails, cloud, pods, registry
<1>10. ASSUME NEW ip \in IP, AddReconcileFails(ip) PROVE LocalEffect
  BY <1>10, ParameterAssumption DEF TypeOK, Control, LocalEffect, ScanEffect, AllocationEffect,
     ReleaseEffect, AddReconcileFails, cloud, pods, registry
<1>11. ASSUME NEW ip \in IP, AddPick(ip) PROVE LocalEffect
  BY <1>11, ParameterAssumption DEF TypeOK, Control, LocalEffect, ScanEffect, AllocationEffect,
     ReleaseEffect, AddPick, Save, LoadOk, Reusable, cloud, pods, Contents, TrackedBefore, HasIP
<1>12. ASSUME NEW ip \in IP, LocateFound(ip) PROVE LocalEffect
  BY <1>12, ParameterAssumption DEF TypeOK, Control, LocalEffect, ScanEffect, AllocationEffect,
     ReleaseEffect, LocateFound, Return, Located, cloud, pods, registry, Release, ResetLocals
<1>13. ASSUME NEW ip \in IP, NewInterfaceShows(ip) PROVE LocalEffect
  BY <1>13, ParameterAssumption DEF TypeOK, Control, LocalEffect, ScanEffect, AllocationEffect,
     ReleaseEffect, NewInterfaceShows, Return, cloud, pods, registry, Release, ResetLocals
<1>14. ASSUME NEW ip \in IP, GcForgetUsed(ip) PROVE LocalEffect
  BY <1>14, ParameterAssumption DEF TypeOK, Control, LocalEffect, ScanEffect, AllocationEffect,
     ReleaseEffect, GcForgetUsed, cloud, pods, registry
<1>15. ASSUME NEW ip \in IP, GcDeallocate(ip) PROVE LocalEffect
  BY <1>15, ParameterAssumption DEF TypeOK, Control, LocalEffect, ScanEffect, AllocationEffect,
     ReleaseEffect, GcDeallocate, Unassign, registry, pods
<1>16. ASSUME NEW ip \in IP, GcSkip(ip) PROVE LocalEffect
  BY <1>16, ParameterAssumption DEF TypeOK, Control, LocalEffect, ScanEffect, AllocationEffect,
     ReleaseEffect, GcSkip, GcNext, cloud, registry, Release, pods, ResetLocals
<1>17. ASSUME NEW ip \in IP, Sync(ip) PROVE LocalEffect
  BY <1>17, ParameterAssumption DEF TypeOK, Control, LocalEffect, ScanEffect, AllocationEffect,
     ReleaseEffect, Sync, registry, pods, local
<1>18. ASSUME NEW e \in Eni, NEW new \in SUBSET IP, Allocate(e, new) PROVE LocalEffect
  BY <1>18, ParameterAssumption DEF TypeOK, Control, LocalEffect, ScanEffect, AllocationEffect,
     ReleaseEffect, Allocate, registry, pods, On, Visible
<1>19. ASSUME NEW e \in Eni, NEW new \in SUBSET IP, NewInterface(e, new) PROVE LocalEffect
  BY <1>19, ParameterAssumption DEF TypeOK, Control, LocalEffect, ScanEffect, AllocationEffect,
     ReleaseEffect, NewInterface, registry, pods, On, Visible
<1>20. ASSUME GcBegin PROVE LocalEffect
  <2>1. PICK j \in 0 .. Jitter, ok \in LoadOk : todo' = TrackedBefore(Contents(ok), now - FreeAfter - j)
    BY <1>20 DEF GcBegin, Cutoff
  <2>2. FreeAfter \in Nat /\ j \in Nat
    BY ParameterAssumption
  <2>3. regExists => \A ip \in todo' : reg[ip] # NoEntry /\ reg[ip] < now - FreeAfter
    BY <2>1, <2>2 DEF TypeOK, Registries, NoEntry, Contents, TrackedBefore, HasIP
  <2>5. ~regExists' => todo' = {}
    BY <1>20 DEF GcBegin, Load, LoadOk, TypeOK, Contents, EmptyReg, TrackedBefore, HasIP
  <2>4. QED
    BY <1>20, <2>3, <2>5 DEF Control, LocalEffect, ScanEffect, AllocationEffect, ReleaseEffect,
       GcBegin, Acquire, pods
<1>21. ASSUME ToolAllocate PROVE LocalEffect
  BY <1>21, ParameterAssumption DEF TypeOK, Control, LocalEffect, ScanEffect, AllocationEffect,
     ReleaseEffect, ToolAllocate, Acquire, cloud, registry, pods, local
<1>22. ASSUME ToolNewInterface PROVE LocalEffect
  BY <1>22, ParameterAssumption DEF TypeOK, Control, LocalEffect, ScanEffect, AllocationEffect,
     ReleaseEffect, ToolNewInterface, Acquire, cloud, registry, pods, local
<1>23. ASSUME AddAssigned PROVE LocalEffect
  BY <1>23, ParameterAssumption DEF TypeOK, Control, LocalEffect, ScanEffect, AllocationEffect,
     ReleaseEffect, AddAssigned, ResetLocals, GetIPs, cloud, registry, pods
<1>24. ASSUME AddScanned PROVE LocalEffect
  BY <1>24, ParameterAssumption DEF TypeOK, Control, LocalEffect, ScanEffect, AllocationEffect,
     ReleaseEffect, AddScanned, cloud, registry, pods, local
<1>25. ASSUME AddNoneReusable PROVE LocalEffect
  BY <1>25, ParameterAssumption DEF TypeOK, Control, LocalEffect, ScanEffect, AllocationEffect,
     ReleaseEffect, AddNoneReusable, ResetLocals, LoadFails, cloud, pods, registry
<1>26. ASSUME AddFinish PROVE LocalEffect
  BY <1>26, ParameterAssumption DEF TypeOK, Control, LocalEffect, ScanEffect, AllocationEffect,
     ReleaseEffect, AddFinish, Release, cloud, ResetLocals
<1>27. ASSUME AllocateFails PROVE LocalEffect
  BY <1>27, ParameterAssumption DEF TypeOK, Control, LocalEffect, ScanEffect, AllocationEffect,
     ReleaseEffect, AllocateFails, AllocationFails, cloud, registry, ResetLocals, Return, pods,
     Release
<1>28. ASSUME LocatePoll PROVE LocalEffect
  BY <1>28, ParameterAssumption DEF TypeOK, Control, LocalEffect, ScanEffect, AllocationEffect,
     ReleaseEffect, LocatePoll, cloud, pods, local
<1>29. ASSUME LocateGiveUp PROVE LocalEffect
  BY <1>29, ParameterAssumption DEF TypeOK, Control, LocalEffect, ScanEffect, AllocationEffect,
     ReleaseEffect, LocateGiveUp, AllocationFails, cloud, registry, ResetLocals, Return, pods,
     Release
<1>30. ASSUME NewInterfaceFails PROVE LocalEffect
  BY <1>30, ParameterAssumption DEF TypeOK, Control, LocalEffect, ScanEffect, AllocationEffect,
     ReleaseEffect, NewInterfaceFails, Return, cloud, registry, Release, ResetLocals
<1>31. ASSUME DelDeallocate PROVE LocalEffect
  BY <1>31, ParameterAssumption DEF TypeOK, Control, LocalEffect, ScanEffect, AllocationEffect,
     ReleaseEffect, DelDeallocate, Unassign, Relinquish, registry, local
<1>32. ASSUME DelFails PROVE LocalEffect
  BY <1>32, ParameterAssumption DEF TypeOK, Control, LocalEffect, ScanEffect, AllocationEffect,
     ReleaseEffect, DelFails, Return, cloud, registry, Release, ResetLocals
<1>33. ASSUME DelTrack PROVE LocalEffect
  BY <1>33, ParameterAssumption DEF TypeOK, Control, LocalEffect, ScanEffect, AllocationEffect,
     ReleaseEffect, DelTrack, Release, Relinquish, cloud, ResetLocals
<1>34. ASSUME GcAssigned PROVE LocalEffect
  BY <1>34, ParameterAssumption DEF TypeOK, Control, LocalEffect, ScanEffect, AllocationEffect,
     ReleaseEffect, GcAssigned, GetIPs, cloud, registry, pods
<1>35. ASSUME GcForget PROVE LocalEffect
  BY <1>35, ParameterAssumption DEF TypeOK, Control, LocalEffect, ScanEffect, AllocationEffect,
     ReleaseEffect, GcForget, GcNext, cloud, registry, Release, pods, ResetLocals
<1>36. ASSUME GcDone PROVE LocalEffect
  BY <1>36, ParameterAssumption DEF TypeOK, Control, LocalEffect, ScanEffect, AllocationEffect,
     ReleaseEffect, GcDone, Release, cloud, registry, pods, ResetLocals
<1>37. ASSUME ToolRegistryList PROVE LocalEffect
  BY <1>37, ParameterAssumption DEF TypeOK, Control, LocalEffect, ScanEffect, AllocationEffect,
     ReleaseEffect, ToolRegistryList, cloud, pods, local
<1>37b. ASSUME NEW ip \in IP, ToolDeallocate(ip) PROVE LocalEffect
  BY <1>37b DEF ToolDeallocate
<1>38. ASSUME Abort PROVE LocalEffect
  BY <1>38, ParameterAssumption DEF TypeOK, Control, LocalEffect, ScanEffect, AllocationEffect,
     ReleaseEffect, Abort, Return, cloud, registry, Release, ResetLocals
<1>39. ASSUME Tick PROVE LocalEffect
  BY <1>39, ParameterAssumption DEF TypeOK, Control, LocalEffect, ScanEffect, AllocationEffect,
     ReleaseEffect, Tick, cloud, registry, pods, local
<1>q. QED
  BY <1>1, <1>2, <1>3, <1>4, <1>5, <1>6, <1>7, <1>8, <1>9, <1>10, <1>11, <1>12, <1>13, <1>14,
     <1>15, <1>16, <1>17, <1>18, <1>19, <1>20, <1>21, <1>22, <1>23, <1>24, <1>25, <1>26, <1>27,
     <1>28, <1>29, <1>30, <1>31, <1>32, <1>33, <1>34, <1>35, <1>36, <1>37, <1>37b, <1>38, <1>39
     DEF Next, ToolStep, Begin, HolderStep, AddStep, AllocateStep, DelStep, GcStep, Environment
=============================================================================
