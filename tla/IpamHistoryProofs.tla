------------------------- MODULE IpamHistoryProofs --------------------------
(***************************************************************************)
(* How long an address rests between two pods, and how many addresses one *)
(* run of registry-gc releases, for every value of the constants.          *)
(***************************************************************************)
EXTENDS IpamHistoryInvariant, IpamSafetyProofs, FiniteSetTheorems

(* The histories only watch: what they are added to is a step of Ipam. *)
LEMMA HistoryWatches ==
    /\ HInit => Init
    /\ [HNext]_<<vars, history>> => [Next]_vars
BY DEF HInit, HNext

LEMMA HistorySpec == HSpec => Spec
BY HistoryWatches, PTL DEF HSpec, Spec

-----------------------------------------------------------------------------
(* What a step does to the run of registry-gc and of DEL.                  *)

(* ADD and allocation leave the labels of DEL and registry-gc alone. *)
LEMMA AddLabels ==
    ASSUME Control, AddStep \/ AllocateStep
    PROVE  /\ pc \in Scanning \cup Allocating \cup {"finish"}
           /\ pc' \notin Deleting \cup Collecting
           /\ lock' \in {lock, Free}
<1> USE DEF Control, Scanning, Allocating, Deleting, Collecting, Release, Return, ResetLocals,
        AllocationFails
<1>1. CASE AddStep
  BY <1>1 DEF AddStep, AddAssigned, AddScanned, AddNoneReusable, AddFinish, AddReconcile,
     AddReconcileFails, AddPick
<1>2. CASE AllocateStep
  BY <1>2 DEF AllocateStep, AllocateFails, LocatePoll, LocateGiveUp, NewInterfaceFails, Allocate,
     NewInterface, LocateFound, NewInterfaceShows
<1> QED BY <1>1, <1>2

(* A step of registry-gc begins a run, releases an address, takes one off  *)
(* the budget, or changes neither.                                         *)
ReapEffect ==
    lock' = Gc =>
        \/ /\ pc = "idle" /\ pc' = "gcassigned" /\ reap' = MaxReap /\ ec2' = ec2
        \/ /\ lock = Gc /\ pc = "gc" /\ pc' = "gcforget" /\ reap' = reap
           /\ \E ip \in ec2 : ec2' = ec2 \ {ip}
        \/ /\ lock = Gc /\ pc = "gcforget" /\ pc' = "gc" /\ ec2' = ec2
           /\ reap' = reap - 1 /\ reap' # 0
        \/ /\ lock = Gc /\ UNCHANGED <<ec2, reap>>
           /\ pc' # "idle" /\ (pc' = "gcforget" <=> pc = "gcforget")

LEMMA StepReapEffect ==
    ASSUME TypeOK, Control, Next
    PROVE  ReapEffect
<1> USE SentinelAssumption DEF ReapEffect
<1>1. CASE Begin
  BY <1>1 DEF Control, Begin, GcBegin, ToolAllocate, ToolNewInterface, AddBegin, DelBegin, Acquire,
     cloud
<1>2. CASE AddStep \/ AllocateStep
  BY <1>2, AddLabels DEF Control, Scanning, Allocating
<1>3. CASE DelStep
  BY <1>3 DEF Control, Deleting, DelStep, DelDeallocate, DelFails, DelTrack, Return, Release
<1>4. CASE GcStep
  BY <1>4 DEF TypeOK, Control, Collecting, GcStep, GcAssigned, GcForget, GcDone, GcForgetUsed,
     GcDeallocate, GcSkip, GcNext, Unassign, Release, ResetLocals, cloud
<1>5. CASE ToolStep
  BY <1>5 DEF ToolStep, ToolRegistryList, ToolDeallocate
<1>6. CASE Abort
  BY <1>6 DEF Abort, Return, Release
<1>7. CASE Environment
  BY <1>7 DEF Control, Environment, Tick, Sync, Bind, ChainFails, StartDel, RemoveNetns, DelNothing,
     DelTimesOut, cloud, local
<1> QED BY <1>1, <1>2, <1>3, <1>4, <1>5, <1>6, <1>7 DEF Next, HolderStep

(* The budget of registry-gc: every release takes one off, and the run     *)
(* ends when none is left.                                                 *)
LEMMA ReapingStep ==
    ASSUME TypeOK, Control, Reaping, HNext
    PROVE  Reaping'
<1> SUFFICES ASSUME lock' = Gc, MaxReap > 0
             PROVE  /\ reap' >= 1 /\ ec2' \subseteq before'
                    /\ IsFiniteSet(before' \ ec2')
                    /\ Cardinality(before' \ ec2')
                         = MaxReap - reap' + (IF pc' = "gcforget" THEN 1 ELSE 0)
  BY DEF Reaping
<1>1. MaxReap \in Int /\ reap \in Int /\ ReapEffect
  BY ParameterAssumption, StepReapEffect DEF TypeOK, HNext
<1>2. CASE /\ pc = "idle" /\ pc' = "gcassigned" /\ reap' = MaxReap /\ ec2' = ec2
  <2>1. before' \ ec2' = {} BY <1>2 DEF HNext
  <2> QED BY <1>1, <1>2, <2>1, FS_EmptySet DEF HNext
<1>3. CASE lock = Gc /\ pc' # "idle" /\ ~(pc = "idle" /\ pc' = "gcassigned")
  <2>1. before' = before BY <1>3 DEF HNext
  <2>2. /\ reap >= 1 /\ ec2 \subseteq before /\ IsFiniteSet(before \ ec2)
        /\ Cardinality(before \ ec2) = MaxReap - reap + (IF pc = "gcforget" THEN 1 ELSE 0)
    BY <1>3 DEF Reaping
  <2>3. CASE pc = "gc" /\ pc' = "gcforget" /\ reap' = reap /\ \E ip \in ec2 : ec2' = ec2 \ {ip}
    <3>1. PICK ip \in ec2 : ec2' = ec2 \ {ip} BY <2>3
    <3>2. before' \ ec2' = (before \ ec2) \cup {ip} /\ ip \notin before \ ec2
      BY <2>1, <2>2, <3>1
    <3>3. /\ IsFiniteSet(before' \ ec2')
          /\ Cardinality(before' \ ec2') = Cardinality(before \ ec2) + 1
      BY <2>2, <3>2, FS_AddElement
    <3> QED BY <1>1, <2>1, <2>2, <2>3, <3>1, <3>3
  <2>4. CASE pc = "gcforget" /\ pc' = "gc" /\ ec2' = ec2 /\ reap' = reap - 1 /\ reap' # 0
    BY <1>1, <2>1, <2>2, <2>4
  <2>5. CASE UNCHANGED <<ec2, reap>> /\ (pc' = "gcforget" <=> pc = "gcforget")
    BY <2>1, <2>2, <2>5
  <2> QED BY <1>1, <1>3, <2>3, <2>4, <2>5 DEF ReapEffect
<1> QED BY <1>1, <1>2, <1>3, SentinelAssumption DEF ReapEffect, Control

(* One run of registry-gc (actionRegistryGc) releases at most max-reap     *)
(* addresses, whatever is in use, fails or disturbs it, and whoever else   *)
(* changes addresses between two runs; for a max-reap of 0 this is false.  *)
THEOREM BudgetKept == ASSUME MaxReap # 0 PROVE HSpec => []ReapBudget
<1>1. HInit => TypeOK /\ Control /\ Reaping
  BY TypeInit, SentinelAssumption DEF HInit, Init, Reaping
<1>2. TypeOK /\ Control /\ Reaping /\ [HNext]_<<vars, history>> => (TypeOK /\ Control /\ Reaping)'
  <2> SUFFICES ASSUME TypeOK, Control, Reaping, [HNext]_<<vars, history>>
               PROVE  TypeOK' /\ Control' /\ Reaping'
    OBVIOUS
  <2>1. TypeOK' /\ Control' BY HistoryWatches, TypeStep
  <2>2. CASE HNext BY <2>1, <2>2, ReapingStep
  <2>3. CASE UNCHANGED <<vars, history>>
    BY <2>1, <2>3 DEF Reaping, vars, history, cloud, local
  <2> QED BY <2>2, <2>3
<1>3. TypeOK /\ Reaping => ReapBudget
  BY ParameterAssumption DEF TypeOK, Reaping, ReapBudget
<1> QED BY <1>1, <1>2, <1>3, PTL DEF HSpec

-----------------------------------------------------------------------------
(* What a step does to a DEL under way.                                    *)

GiveUpEffect ==
    /\ pc' \in Deleting =>
         \/ pc \in Deleting /\ lock' = lock /\ alloc' = alloc
         \/ pc = "idle" /\ lock' \in Pod /\ stage'[lock'] = "deleting"
    /\ pc' = "deltrack" /\ stage'[lock'] = "deleting" =>
         \/ pc = "deltrack" /\ stage[lock] \in {"deleting", "up", "handoff"}
         \/ pc = "idle" /\ SkipDeallocation /\ Owns(lock', alloc') /\ UNCHANGED <<ec2, meta>>
    /\ pc \in Deleting /\ pc' \in Deleting /\ stage[lock] \in {"deleting", "released", "off"} =>
         stage'[lock] \in {"deleting", "released", "off"}
    /\ pc = "deltrack" /\ stage[lock] = "deleting" /\ stage'[lock] # "deleting" =>
         /\ regExists' /\ reg'[alloc] = Trunc(now) /\ pc' = "idle"
         /\ UNCHANGED <<now, ec2, meta>>

LEMMA StepGiveUpEffect ==
    ASSUME Undisturbed, TypeOK, Control, Next
    PROVE  GiveUpEffect
<1> USE SentinelAssumption, Undisturbed DEF Undisturbed, GiveUpEffect
<1>0. /\ stage \in [Pod -> Stages] /\ addr \in [Pod -> IP \cup {NoIP}]
      /\ lock = Free <=> pc = "idle"
      /\ pc \in Deleting => lock \in Pod /\ alloc \in IP
      /\ \A p \in Pod : stage[p] = "adding" => pc \in Scanning \cup Allocating \cup {"finish"}
  BY DEF TypeOK, Control
<1>1. CASE Begin
  BY <1>0, <1>1 DEF Begin, GcBegin, ToolAllocate, ToolNewInterface, AddBegin, DelBegin,
     Acquire, Deleting, Owns, cloud, pods
<1>2. CASE AddStep \/ AllocateStep
  BY <1>2, AddLabels DEF Scanning, Allocating, Deleting
<1>3. CASE DelStep
  <2>1. CASE DelDeallocate
    BY <1>0, <2>1 DEF DelDeallocate, Relinquish, Deleting, local
  <2>2. CASE DelFails
    BY <1>0, <2>2 DEF DelFails, Return, Release, Deleting
  <2>3. CASE DelTrack
    <3>1. regExists' /\ reg'[alloc] = Trunc(now)
      BY <1>0, <2>3 DEF DelTrack, Save, TrackIP, Deleting
    <3> QED BY <2>3, <3>1 DEF DelTrack, Release, cloud, Deleting
  <2> QED BY <1>3, <2>1, <2>2, <2>3 DEF DelStep
<1>4. CASE GcStep
  BY <1>4 DEF GcStep, GcAssigned, GcForget, GcDone, GcForgetUsed, GcDeallocate, GcSkip, GcNext,
     Release, Deleting
<1>5. CASE ToolStep
  BY <1>0, <1>5 DEF ToolStep, ToolRegistryList, ToolDeallocate, Deleting
<1>6. CASE Abort
  BY <1>0, <1>6 DEF Abort, Return, Release, Deleting, Scanning, Allocating
<1>7. CASE Environment
  <2>1. ASSUME NEW p \in Pod, Bind(p) \/ ChainFails(p) \/ StartDel(p) PROVE GiveUpEffect
    BY <1>0, <2>1 DEF Bind, ChainFails, StartDel, Deleting, local, Stages
  <2>2. ASSUME NEW p \in Pod, RemoveNetns(p) PROVE GiveUpEffect
    BY <1>0, <2>2 DEF RemoveNetns, Deleting, local, Stages
  <2>3. ASSUME NEW p \in Pod, DelNothing(p) \/ DelTimesOut(p) PROVE GiveUpEffect
    BY <1>0, <2>3 DEF DelNothing, DelTimesOut, Relinquish, Deleting, local, Stages
  <2>4. CASE Tick \/ \E ip \in IP : Sync(ip)
    BY <1>0, <2>4 DEF Tick, Sync, Deleting, pods, local
  <2> QED BY <1>7, <2>1, <2>2, <2>3, <2>4 DEF Environment
<1> QED BY <1>1, <1>2, <1>3, <1>4, <1>5, <1>6, <1>7 DEF Next, HolderStep

-----------------------------------------------------------------------------
(* The step of RestToTheSecond's invariant.                                *)

(* A DEL keeps its address assigned until it has marked it as free. *)
LEMMA GivingUpStep ==
    ASSUME TypeOK, Control, Assigned, GivingUp, Effect, GiveUpEffect, TypeOK', Control'
    PROVE  GivingUp'
<1>1. ASSUME pc' \in Deleting PROVE stage'[lock'] \in {"deleting", "released", "off"}
  BY <1>1 DEF GivingUp, GiveUpEffect
<1>2. ASSUME pc' = "deltrack", stage'[lock'] = "deleting"
      PROVE  SkipDeallocation /\ alloc' \in ec2' \cap meta'
  <2>1. CASE pc = "deltrack"
    <3>1. stage[lock] = "deleting" /\ alloc' = alloc /\ alloc \in IP
      BY <1>2, <2>1 DEF GiveUpEffect, GivingUp, Deleting, Control
    <3>2. SkipDeallocation /\ alloc \in ec2 \cap meta BY <2>1, <3>1 DEF GivingUp
    <3> QED BY <2>1, <3>1, <3>2 DEF Effect, CloudEffect
  <2>2. CASE pc = "idle"
    <3>1. /\ SkipDeallocation /\ Owns(lock', alloc') /\ UNCHANGED <<ec2, meta>>
          /\ lock' \in Pod /\ alloc' \in IP
      BY <1>2, <2>2 DEF GiveUpEffect, Control, Deleting
    <3>2. Owned(alloc') BY <3>1 DEF Owned
    <3> QED BY <3>1, <3>2 DEF Assigned
  <2> QED BY <1>2, <2>1, <2>2 DEF GiveUpEffect
<1> QED BY <1>1, <1>2 DEF GivingUp

(* A DEL marks the address it gives up with the time of this step, and no  *)
(* step after it makes the entry of the address older.                     *)
LEMMA RestingStep ==
    ASSUME ~CountDeaths, HNext, TypeOK, TypeOK', Control, Resting, Rested, GivingUp,
           AllocationInv, Effect, GiveUpEffect
    PROVE  Resting'
<1>0. /\ now \in Nat /\ now' \in Nat /\ now <= now' /\ Start \in Nat /\ Start > 0
      /\ ec2' \subseteq IP /\ reg' \in Registries
  BY ParameterAssumption, TimingAssumption DEF TypeOK, Effect, Tick
<1>1. \A ip \in IP : gaveUp'[ip] = IF ip \notin ec2' THEN 0
                                   ELSE IF GivesUp(ip) THEN now ELSE gaveUp[ip]
  BY DEF HNext
<1>2. gaveUp' \in [IP -> Nat] BY <1>0 DEF HNext, Resting
<1>3. ASSUME NEW ip \in IP, gaveUp'[ip] > 0
      PROVE  /\ gaveUp'[ip] <= now' /\ ip \in ec2' \cap meta'
             /\ regExists' /\ Fresh(ip, gaveUp[ip])'
  <2>1. ip \in ec2' BY <1>0, <1>1, <1>3
  <2>2. CASE GivesUp(ip)
    <3>1. /\ pc = "deltrack" /\ alloc = ip /\ stage[lock] = "deleting"
          /\ stage'[lock] # "deleting"
      BY <2>2 DEF GivesUp
    <3>2. ip \in ec2 \cap meta BY <3>1 DEF GivingUp
    <3>3. regExists' /\ reg'[ip] = Trunc(now) /\ UNCHANGED <<now, ec2, meta>>
      BY <3>1 DEF GiveUpEffect
    <3>4. gaveUp'[ip] = now BY <1>1, <2>1, <2>2
    <3>5. Trunc(now) \in Nat /\ Trunc(now) >= now - (Second - 1) BY <1>0, TruncBound
    <3> QED BY <1>0, <3>2, <3>3, <3>4, <3>5 DEF Fresh
  <2>3. CASE ~GivesUp(ip)
    <3>1. gaveUp'[ip] = gaveUp[ip] /\ gaveUp[ip] \in Nat BY <1>1, <1>3, <2>1, <2>3 DEF Resting
    <3>2. /\ gaveUp[ip] <= now /\ ip \in ec2 /\ ip \in meta /\ regExists
          /\ Fresh(ip, gaveUp[ip])
      BY <1>3, <3>1 DEF Resting
    <3>3. ip \in meta' BY <3>2 DEF Effect, CloudEffect
    <3>4. ~(pc = "attach" /\ ip \in base)
      BY <1>3, <3>1 DEF Rested, AllocationInv, On
    <3>5. reg'[ip] = NoEntry \/ reg'[ip] >= gaveUp[ip] - (Second - 1)
      BY <3>1, <3>2, <3>4, FreshKept DEF Effect
    <3>6. regExists' BY <3>2 DEF Effect, RegistryEffect
    <3> QED BY <1>0, <2>1, <3>1, <3>2, <3>3, <3>5, <3>6 DEF Fresh
  <2> QED BY <2>2, <2>3
<1> QED BY <1>0, <1>2, <1>3 DEF Resting

(* An address is chosen only if it is new on its interface or its entry is *)
(* older than the wait, and it rests on while its ADD ends.                *)
LEMMA RestedStep ==
    ASSUME ~CountDeaths, HNext, TypeOK, TypeOK', Control, Control', Assigned, Resting, Rested,
           Effect, LocalEffect
    PROVE  Rested'
<1>0. /\ now \in Nat /\ now' \in Nat /\ now <= now' /\ ec2 \subseteq IP /\ meta \subseteq IP
      /\ now >= Start /\ gaveUp \in [IP -> Nat]
  BY DEF TypeOK, Effect, Tick, Resting
<1>1. ASSUME NEW ip \in IP, pc # "deltrack"
      PROVE  gaveUp'[ip] \in {0, gaveUp[ip]}
  BY <1>1 DEF HNext, GivesUp
<1>2. ASSUME pc' = "locate", NEW ip \in On(eni', IP) \ base' PROVE gaveUp'[ip] = 0
  <2>1. ip \in IP /\ EniOf[ip] = eni' BY <1>2 DEF On
  <2>2. CASE pc = "locate" /\ UNCHANGED <<eni, base, ec2>>
    BY <1>1, <1>2, <2>1, <2>2 DEF Rested, On
  <2>3. CASE pc = "allocate" /\ base' = On(eni', meta)
    <3>1. ip \notin meta BY <1>2, <2>1, <2>3 DEF On
    <3>2. gaveUp[ip] = 0 BY <1>0, <2>1, <3>1 DEF Resting
    <3> QED BY <1>1, <2>1, <2>3, <3>2
  <2> QED BY <1>2, <2>2, <2>3 DEF LocalEffect, AllocationEffect
<1>3. ASSUME pc' = "attach", NEW ip \in On(eni', IP) PROVE gaveUp'[ip] = 0
  <2>1. ip \in IP /\ EniOf[ip] = eni' BY <1>3 DEF On
  <2>2. CASE pc = "attach" /\ UNCHANGED <<eni, base, ec2>>
    BY <1>1, <1>3, <2>1, <2>2 DEF Rested, On
  <2>3. CASE pc = "newif" /\ eni' \notin attached
    <3>1. ip \notin ec2 BY <2>1, <2>3 DEF Assigned
    <3>2. gaveUp[ip] = 0 BY <1>0, <2>1, <3>1 DEF Resting
    <3> QED BY <1>1, <2>1, <2>3, <3>2
  <2> QED BY <1>3, <2>2, <2>3 DEF LocalEffect, AllocationEffect
<1>4. ASSUME pc' = "finish" PROVE now' > gaveUp'[alloc'] + Wait - (Second - 1)
  <2>1. alloc' \in IP /\ gaveUp[alloc'] \in Nat BY <1>0, <1>4 DEF Control
  <2>2. Start > Wait /\ Wait \in Nat /\ Second \in Nat /\ Second >= 1 /\ Start \in Nat
    BY Delays, TimingAssumption
  <2>3. pc # "deltrack"
    BY <1>4 DEF LocalEffect, AllocationEffect
  <2>4. gaveUp'[alloc'] \in {0, gaveUp[alloc']} BY <1>1, <2>1, <2>3
  <2>5. SUFFICES now > gaveUp[alloc'] + Wait - (Second - 1)
    BY <1>0, <2>1, <2>2, <2>4
  <2>6. CASE pc = "finish" /\ alloc' = alloc
    BY <2>6 DEF Rested
  <2>7. CASE gaveUp[alloc'] = 0
    BY <1>0, <2>2, <2>7
  <2>8. CASE pc = "pick" /\ gaveUp[alloc'] # 0
    <3>1. gaveUp[alloc'] > 0 BY <2>1, <2>8
    <3>2. regExists /\ Fresh(alloc', gaveUp[alloc']) BY <2>1, <3>1 DEF Resting
    <3>3. reg[alloc'] # NoEntry /\ reg[alloc'] < now - Wait /\ reg[alloc'] \in Int
      BY <1>4, <2>1, <2>8, <3>2 DEF LocalEffect, AllocationEffect, TypeOK, Registries, NoEntry
    <3> QED BY <1>0, <2>1, <2>2, <3>2, <3>3 DEF Fresh
  <2>9. CASE pc = "locate" /\ alloc' \in On(eni, meta) \ base
    BY <1>0, <2>1, <2>7, <2>9 DEF Rested, On
  <2>10. CASE pc = "attach" /\ alloc' \in On(eni, meta)
    BY <1>0, <2>1, <2>7, <2>10 DEF Rested, On
  <2> QED BY <1>4, <2>6, <2>7, <2>8, <2>9, <2>10 DEF LocalEffect, AllocationEffect
<1> QED BY <1>2, <1>3, <1>4 DEF Rested

(* HInv is an invariant of the address manager with its histories: every   *)
(* step of cmdAdd, cmdDel and registry-gc keeps resting addresses resting. *)
THEOREM HistoryInvariance == ASSUME Undisturbed, ~CountDeaths PROVE HSpec => []HInv
<1>1. HInit => HInv
  <2> SUFFICES ASSUME HInit PROVE HInv OBVIOUS
  <2>1. Start \in Nat /\ IInv BY Delays, InvariantInit DEF HInit
  <2>2. Resting /\ Rested /\ GivingUp
    BY <2>1 DEF HInit, Init, Resting, Rested, GivingUp, Deleting
  <2>3. Reaping BY SentinelAssumption DEF HInit, Init, Reaping
  <2> QED BY <2>1, <2>2, <2>3 DEF HInv
<1>2. HInv /\ [HNext]_<<vars, history>> => HInv'
  <2> SUFFICES ASSUME HInv, [HNext]_<<vars, history>> PROVE HInv' OBVIOUS
  <2>1. IInv' BY InvariantStep, HistoryWatches DEF HInv
  <2>2. CASE HNext
    <3>1. Effect /\ LocalEffect /\ GiveUpEffect
      BY <2>2, StepEffect, StepLocalEffect, StepGiveUpEffect DEF HInv, IInv, HNext
    <3>2. GivingUp' BY <2>1, <3>1, GivingUpStep DEF HInv, IInv
    <3>3. Resting' BY <2>1, <2>2, <3>1, RestingStep DEF HInv, IInv
    <3>4. Rested' BY <2>1, <2>2, <3>1, RestedStep DEF HInv, IInv
    <3>5. Reaping' BY <2>2, ReapingStep DEF HInv, IInv
    <3> QED BY <2>1, <3>2, <3>3, <3>4, <3>5 DEF HInv
  <2>3. CASE UNCHANGED <<vars, history>>
    <3>1. Resting' /\ Rested' /\ GivingUp'
      BY <2>3 DEF HInv, Resting, Rested, GivingUp, Fresh, vars, history, cloud, registry, pods, local
    <3>2. Reaping' BY <2>3 DEF HInv, Reaping, vars, history, cloud, local
    <3> QED BY <2>1, <3>1, <3>2 DEF HInv
  <2> QED BY <2>2, <2>3
<1> QED BY <1>1, <1>2, PTL DEF HSpec

(* An address is handed to another pod ReuseIPWait after cmdDel gave it    *)
(* up, or less than a second earlier, whatever the number of pods and      *)
(* addresses, whichever writes fail and however ADDs, DELs and registry-gc *)
(* interleave.                                                             *)
THEOREM RestKept == ASSUME Undisturbed, ~CountDeaths PROVE HSpec => RestToTheSecond
<1> DEFINE Handed == \A p \in Pod : HandedOut(p) => now > gaveUp[addr'[p]] + Wait - (Second - 1)
<1>1. HInv /\ [HNext]_<<vars, history>> => [Handed]_<<vars, history>>
  <2> SUFFICES ASSUME HInv, HNext, NEW p \in Pod, stage[p] # "handoff", stage'[p] = "handoff"
               PROVE  now > gaveUp[addr'[p]] + Wait - (Second - 1)
    BY DEF HandedOut
  <2>1. PodEffect BY StepEffect DEF HInv, IInv, HNext, Effect
  <2>2. pc = "finish" /\ addr'[p] = alloc BY <2>1 DEF PodEffect
  <2> QED BY <2>2 DEF HInv, Rested
<1>2. HSpec => [][Handed]_<<vars, history>>
  <2> HIDE DEF Handed
  <2> QED BY <1>1, HistoryInvariance, PTL DEF HSpec
<1> QED BY <1>2 DEF RestToTheSecond
=============================================================================
