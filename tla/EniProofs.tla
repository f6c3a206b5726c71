----------------------------- MODULE EniProofs ------------------------------
(***************************************************************************)
(* EniInv is an invariant of Eni, and with it the freshness of cached      *)
(* answers, the explanation of leaked interfaces and the device indexes    *)
(* without a gap: for every set of interfaces and processes, every         *)
(* lifetime of answers and every number of failures and commands.          *)
(***************************************************************************)
EXTENDS EniInvariant, FiniteSetTheorems, TLAPS

(* A time without its fraction of a second is a time, and not a later one. *)
LEMMA TruncEarlier == ASSUME NEW t \in Nat
                      PROVE  Trunc(t) \in Int /\ Trunc(t) <= t
BY ClockAssumption DEF Trunc

(* Only the lookup of p changes, and stays a lookup. *)
OnlyLookup(p) ==
    /\ ask' \in [Proc -> Key \cup {NoKey}] /\ step' \in [Proc -> Steps]
    /\ got' \in [Proc -> [at : Nat, when : Nat]]
    /\ \A q \in Proc \ {p} : ask'[q] = ask[q] /\ step'[q] = step[q] /\ got'[q] = got[q]

(* What a process has of document and client, and the faults left. *)
ClientTypeOK == doc \in [Proc -> Once] /\ client \in [Proc -> Once] /\ faults \in 0 .. MaxFaults

LEMMA AnswerTyped ==
    ASSUME NEW p \in Proc, NEW t \in Nat, NEW s \in Steps, CacheTypeOK, Answer(p, t, s)
    PROVE  OnlyLookup(p) /\ ask'[p] = ask[p] /\ step'[p] = s /\ got'[p] = [at |-> t, when |-> now]
<1>1. got' \in [Proc -> [at : Nat, when : Nat]] /\ got'[p] = [at |-> t, when |-> now]
  BY ClockAssumption DEF CacheTypeOK, Answer
<1> QED BY <1>1 DEF CacheTypeOK, Answer, To, OnlyLookup

LEMMA ToTyped ==
    ASSUME NEW p \in Proc, NEW s \in Steps, CacheTypeOK, To(p, s), UNCHANGED <<ask, got>>
    PROVE  OnlyLookup(p) /\ ask'[p] = ask[p] /\ step'[p] = s /\ got'[p] = got[p]
BY DEF CacheTypeOK, To, OnlyLookup

LEMMA AskTyped ==
    ASSUME NEW p \in Proc, NEW k \in Key, CacheTypeOK, Ask(p, k)
    PROVE  OnlyLookup(p) /\ ask'[p] = k /\ step'[p] \in {"doc", "get"}
BY DEF CacheTypeOK, Ask, To, OnlyLookup, Steps

LEMMA EndTyped ==
    ASSUME NEW p \in Proc, CacheTypeOK, ProcessEnds(p)
    PROVE  /\ OnlyLookup(p) /\ step'[p] = "idle"
           /\ doc' \in [Proc -> Once] /\ client' \in [Proc -> Once]
BY DEF CacheTypeOK, ProcessEnds, OnlyLookup, Steps, Nothing, Once

LEMMA FaultTyped ==
    ASSUME CacheTypeOK
    PROVE  /\ Fault => faults' \in 0 .. MaxFaults
           /\ UNCHANGED faults => faults' \in 0 .. MaxFaults
BY ClockAssumption DEF CacheTypeOK, Fault

LEMMA ClientTyped ==
    ASSUME NEW p \in Proc, CacheTypeOK
    PROVE  /\ IdDocOk(p) /\ UNCHANGED client => ClientTypeOK'
           /\ IdDocFails(p) /\ UNCHANGED client => ClientTypeOK'
           /\ HasClient(p) /\ (Fault \/ UNCHANGED faults) => ClientTypeOK'
           /\ ClientFails(p) => ClientTypeOK'
           /\ UNCHANGED <<doc, client>> /\ (Fault \/ UNCHANGED faults) => ClientTypeOK'
<1> USE FaultTyped DEF ClientTypeOK, Once
<1> QED BY DEF CacheTypeOK, IdDocOk, IdDocFails, HasClient, ClientFails

(* A step of one process that leaves clock and files alone concerns only   *)
(* the answer of this process.                                             *)
LEMMA OneLookup ==
    ASSUME NEW p \in Proc, CacheTypeOK, CacheInv,
           UNCHANGED <<now, file>>, ClientTypeOK', OnlyLookup(p), AnswerSound(p)'
    PROVE  CacheTypeOK' /\ CacheInv'
<1>1. CacheTypeOK' BY DEF CacheTypeOK, ClientTypeOK, OnlyLookup
<1>2. ASSUME NEW q \in Proc \ {p} PROVE AnswerSound(q)'
  BY <1>2 DEF CacheInv, AnswerSound, OnlyLookup
<1>3. ASSUME NEW k \in Key PROVE EntrySound(k)'
  BY <1>3 DEF CacheInv, EntrySound, Unreadable
<1> QED BY <1>1, <1>2, <1>3 DEF CacheInv

(* What a lookup does to the cache: every answer it ends with is fresh, and *)
(* so is the entry it stores.                                               *)
LEMMA LookupKeepsCache == ASSUME NEW p \in Proc, CacheTypeOK, CacheInv, LookupStep(p)
                          PROVE  CacheTypeOK' /\ CacheInv'
<1> USE KeyAssumption, ClockAssumption, ClientTyped DEF Steps
<1>a. /\ AnswerSound(p) /\ (\A k \in Key : EntrySound(k))
      /\ now \in Nat /\ step[p] \in Steps /\ got[p].at \in Nat /\ Life \in [Key -> Nat]
  BY DEF CacheInv, CacheTypeOK
<1>1. CASE LimitsIdDoc(p)
  <2>1. ClientTypeOK' BY <1>1 DEF LimitsIdDoc
  <2>2. OnlyLookup(p) /\ ask'[p] = ask[p] /\ step'[p] \in {"get", "fallback"}
    BY <1>1, <1>a, AnswerTyped, ToTyped DEF LimitsIdDoc
  <2>3. AnswerSound(p)' BY <1>1, <1>a, <2>2 DEF LimitsIdDoc, AnswerSound
  <2> QED BY <1>1, <2>1, <2>2, <2>3, OneLookup DEF LimitsIdDoc
<1>2. CASE CacheGet(p)
  <2>1. ask[p] \in Key BY <1>2, <1>a DEF CacheGet, AnswerSound
  <2>2. ClientTypeOK' BY <1>2 DEF CacheGet
  <2>3. CASE Usable(ask[p])
    <3>1. /\ file[ask[p]].at \in Nat /\ now <= file[ask[p]].expires
          /\ file[ask[p]].expires \in Int
          /\ file[ask[p]].expires <= file[ask[p]].at + MaxCall + Life[ask[p]]
      BY <2>1, <2>3, <1>a DEF Usable, EntrySound, CacheTypeOK
    <3>2. /\ OnlyLookup(p) /\ ask'[p] = ask[p] /\ step'[p] = "found"
          /\ got'[p] = [at |-> file[ask[p]].at, when |-> now]
      BY <1>2, <2>3, <3>1, AnswerTyped DEF CacheGet
    <3>3. AnswerSound(p)' BY <1>a, <2>1, <3>1, <3>2 DEF AnswerSound
    <3> QED BY <1>2, <2>2, <3>2, <3>3, OneLookup DEF CacheGet
  <2>4. CASE ~Usable(ask[p])
    <3>1. OnlyLookup(p) /\ ask'[p] = ask[p] /\ step'[p] = "fetch"
      BY <1>2, <2>4, ToTyped DEF CacheGet
    <3>2. AnswerSound(p)' BY <2>1, <3>1 DEF AnswerSound
    <3> QED BY <1>2, <2>2, <3>1, <3>2, OneLookup DEF CacheGet
  <2> QED BY <2>3, <2>4
<1>b. ASSUME NEW o \in {"fallback", "error"}, step[p] = "fetch",
             \/ Describe(p, o)
             \/ IdDocFails(p) /\ Answer(p, now, "error") /\ UNCHANGED client
             \/ ClientFails(p) /\ Answer(p, now, "error")
             \/ ClientPanics(p) /\ Panic(p),
             UNCHANGED <<now, file>>
      PROVE  CacheTypeOK' /\ CacheInv'
  <2>1. ClientTypeOK' BY <1>b DEF Describe, ClientPanics
  <2>2. \/ /\ OnlyLookup(p) /\ ask'[p] = ask[p] /\ step'[p] \in {"open", "fallback", "error"}
           /\ got'[p] = [at |-> now, when |-> now]
        \/ OnlyLookup(p) /\ ask'[p] = ask[p] /\ step'[p] = "panic"
    BY <1>b, <1>a, AnswerTyped, ToTyped DEF Describe, Panic
  <2>3. AnswerSound(p)' BY <1>b, <1>a, <2>2 DEF AnswerSound
  <2> QED BY <1>b, <2>1, <2>2, <2>3, OneLookup
<1>3. CASE DescribeInstanceTypes(p)
  BY <1>3, <1>b DEF DescribeInstanceTypes
<1>4. CASE DescribeSubnets(p)
  BY <1>4, <1>b DEF DescribeSubnets
<1>5. CASE DescribeVpc(p)
  BY <1>5, <1>b DEF DescribeVpc
<1>6. CASE StoreOpen(p)
  <2>1. /\ ask[p] \in Key
        /\ got[p].at <= now /\ now <= got[p].at + MaxCall
    BY <1>6, <1>a DEF StoreOpen, AnswerSound
  <2>2. /\ OnlyLookup(p) /\ ask'[p] = ask[p]
        /\ \/ step'[p] = "write" /\ got'[p] = got[p]
           \/ step'[p] = "found" /\ got'[p] = [at |-> got[p].at, when |-> now]
    BY <1>6, <1>a, ToTyped, AnswerTyped DEF StoreOpen
  <2>3. ClientTypeOK' BY <1>6 DEF StoreOpen
  <2>4. /\ file' \in {file, [file EXCEPT ![ask[p]] = Unreadable]} /\ now' = now
    BY <1>6 DEF StoreOpen
  <2>5. file' \in [Key -> [at : Int, expires : Int]]
    BY <2>4, <2>1 DEF CacheTypeOK, Unreadable
  <2>6. AnswerSound(p)' BY <1>a, <2>1, <2>2, <2>4 DEF AnswerSound
  <2>7. ASSUME NEW k \in Key PROVE EntrySound(k)'
    BY <1>a, <2>1, <2>4, <2>7 DEF CacheTypeOK, EntrySound
  <2>8. ASSUME NEW q \in Proc \ {p} PROVE AnswerSound(q)'
    BY <2>2, <2>4, <2>8 DEF CacheInv, AnswerSound, OnlyLookup
  <2> QED BY <2>2, <2>3, <2>4, <2>5, <2>6, <2>7, <2>8
          DEF CacheInv, CacheTypeOK, ClientTypeOK, OnlyLookup
<1>7. CASE StoreWrite(p)
  <2>1. /\ ask[p] \in Key
        /\ got[p].at <= now /\ now <= got[p].at + MaxCall
    BY <1>7, <1>a DEF StoreWrite, AnswerSound
  <2> DEFINE t == Trunc(now + Life[ask[p]])
  <2>2. t \in Int /\ t <= now + Life[ask[p]] BY <1>a, <2>1, TruncEarlier
  <2> HIDE DEF t
  <2>3. ClientTypeOK' BY <1>7 DEF StoreWrite
  <2>4. /\ file' \in {file, [file EXCEPT ![ask[p]] = [at |-> got[p].at, expires |-> t]]}
        /\ now' = now
    BY <1>7 DEF StoreWrite, t
  <2>5. /\ OnlyLookup(p) /\ ask'[p] = ask[p] /\ step'[p] = "found"
        /\ got'[p] = [at |-> got[p].at, when |-> now]
    BY <1>7, <1>a, AnswerTyped DEF StoreWrite
  <2>6. file' \in [Key -> [at : Int, expires : Int]]
    BY <1>a, <2>1, <2>2, <2>4 DEF CacheTypeOK
  <2>7. AnswerSound(p)' BY <1>a, <2>1, <2>4, <2>5 DEF AnswerSound
  <2>8. ASSUME NEW k \in Key PROVE EntrySound(k)'
    BY <1>a, <2>1, <2>2, <2>4, <2>8 DEF CacheTypeOK, EntrySound
  <2>9. ASSUME NEW q \in Proc \ {p} PROVE AnswerSound(q)'
    BY <2>4, <2>5, <2>9 DEF CacheInv, AnswerSound, OnlyLookup
  <2> QED BY <2>3, <2>4, <2>5, <2>6, <2>7, <2>8, <2>9
          DEF CacheInv, CacheTypeOK, ClientTypeOK, OnlyLookup
<1> QED BY <1>1, <1>2, <1>3, <1>4, <1>5, <1>6, <1>7 DEF LookupStep

-----------------------------------------------------------------------------
(* What the steps of Eni do to the cache.                                  *)

(* A step outside of any lookup. *)
LEMMA QuietKeepsCache ==
    ASSUME CacheTypeOK, CacheInv,
           UNCHANGED <<now, file, doc, client, lookup>>, Fault \/ UNCHANGED faults
    PROVE  CacheTypeOK' /\ CacheInv'
<1>1. CacheTypeOK' BY FaultTyped DEF CacheTypeOK, lookup
<1>2. ASSUME NEW q \in Proc PROVE AnswerSound(q)'
  BY <1>2 DEF CacheInv, AnswerSound, lookup
<1>3. ASSUME NEW k \in Key PROVE EntrySound(k)'
  BY <1>3 DEF CacheInv, EntrySound, Unreadable
<1> QED BY <1>1, <1>2, <1>3 DEF CacheInv

(* The end of a process. *)
LEMMA EndKeepsCache ==
    ASSUME NEW p \in Proc, CacheTypeOK, CacheInv,
           UNCHANGED <<now, file>>, ProcessEnds(p), Fault \/ UNCHANGED faults
    PROVE  CacheTypeOK' /\ CacheInv'
<1>1. OnlyLookup(p) /\ step'[p] = "idle" /\ ClientTypeOK'
  BY EndTyped, FaultTyped DEF ClientTypeOK
<1>2. AnswerSound(p)' BY <1>1 DEF AnswerSound
<1> QED BY <1>1, <1>2, OneLookup

(* The beginning of a lookup. *)
LEMMA AskKeepsCache ==
    ASSUME NEW p \in Proc, NEW k \in Key, CacheTypeOK, CacheInv,
           UNCHANGED <<now, file>>, Ask(p, k), ClientTypeOK'
    PROVE  CacheTypeOK' /\ CacheInv'
<1>1. OnlyLookup(p) /\ ask'[p] \in Key /\ step'[p] \in {"doc", "get"}
  BY AskTyped
<1>2. AnswerSound(p)' BY <1>1 DEF AnswerSound
<1> QED BY <1>1, <1>2, OneLookup

(* The holder goes on after a lookup. *)
LEMMA ProceedKeepsCache ==
    ASSUME CacheTypeOK, CacheInv, NEW o, Proceed(o)
    PROVE  CacheTypeOK' /\ CacheInv'
<1> USE EniAssumption
<1>1. OnlyLookup(Holder) /\ step'[Holder] = "idle"
  BY DEF CacheTypeOK, Proceed, To, OnlyLookup, Steps, Nothing
<1>2. ClientTypeOK' BY ClientTyped DEF Proceed
<1>3. AnswerSound(Holder)' BY <1>1 DEF AnswerSound
<1> QED BY <1>1, <1>2, <1>3, OneLookup DEF Proceed

(* A process that dereferences nil. *)
LEMMA PanicKeepsCache ==
    ASSUME NEW p \in Proc, CacheTypeOK, CacheInv,
           UNCHANGED <<now, file>>, Panic(p), ClientTypeOK'
    PROVE  CacheTypeOK' /\ CacheInv'
<1>1. OnlyLookup(p) /\ step'[p] = "panic"
  BY ToTyped DEF Panic, Steps
<1>2. AnswerSound(p)' BY <1>1 DEF AnswerSound
<1> QED BY <1>1, <1>2, OneLookup

(* Time passes, but not more than MaxCall while an answer is being stored. *)
LEMMA TickKeepsCache ==
    ASSUME CacheTypeOK, CacheInv, Tick
    PROVE  CacheTypeOK' /\ CacheInv'
<1>1. CacheTypeOK' BY ClockAssumption DEF CacheTypeOK, Tick, MayTick, lookup
<1>2. ASSUME NEW q \in Proc PROVE AnswerSound(q)'
  <2>1. AnswerSound(q) /\ now \in Nat /\ got[q].at \in Nat /\ MaxCall \in Nat
    BY <1>2, ClockAssumption DEF CacheInv, CacheTypeOK
  <2>2. /\ now' = now + 1 /\ step'[q] = step[q] /\ got'[q] = got[q] /\ ask'[q] = ask[q]
        /\ step[q] \in {"open", "write"} => now - got[q].at < MaxCall
    BY <1>2 DEF Tick, MayTick, lookup
  <2> QED BY <2>1, <2>2 DEF AnswerSound
<1>3. ASSUME NEW k \in Key PROVE EntrySound(k)'
  BY <1>3 DEF CacheInv, EntrySound, Unreadable, Tick
<1> QED BY <1>1, <1>2, <1>3 DEF CacheInv

(* Every step keeps the cache files and the answers sound. *)
LEMMA CacheStep ==
    ASSUME CacheTypeOK, CacheInv, Next
    PROVE  CacheTypeOK' /\ CacheInv'
<1> USE EniAssumption, ClientTyped DEF Key
<1>1. ASSUME Fault \/ UNCHANGED faults, Return PROVE CacheTypeOK' /\ CacheInv'
  BY <1>1, EndKeepsCache DEF Return
<1>2. ASSUME NoCache PROVE CacheTypeOK' /\ CacheInv'
  BY <1>2, QuietKeepsCache DEF NoCache, cacheVars
<1>3. CASE HolderStep
  <2>1. CASE Lookup(Holder) BY <2>1, LookupKeepsCache DEF Lookup
  <2>2. CASE GotSubnets
    BY <2>2, <1>1, AskKeepsCache DEF GotSubnets, AskNext
  <2>3. CASE GotLimits
    BY <2>3, <1>1, ProceedKeepsCache DEF GotLimits
  <2>4. CASE GetClient
    BY <2>4, AskKeepsCache, PanicKeepsCache DEF GetClient, ClientPanics
  <2>5. CASE GotBatch
    BY <2>5, ProceedKeepsCache DEF GotBatch
  <2>6. CASE CreateNetworkInterface
    BY <2>6, <1>1, <1>2 DEF CreateNetworkInterface, Failing
  <2>7. CASE AttachNetworkInterface
    BY <2>7, <1>2, QuietKeepsCache DEF AttachNetworkInterface, Refused
  <2>8. CASE Cleanup BY <2>8, <1>1 DEF Cleanup, Failing
  <2>9. CASE ModifyAttribute
    BY <2>9, QuietKeepsCache DEF ModifyAttribute, Failing
  <2>10. CASE PollMetadata BY <2>10, <1>1, <1>2 DEF PollMetadata
  <2>11. CASE DescribeInterface
    <3>1. CASE HasClient(Holder) /\ UNCHANGED <<now, file, faults, lookup>>
      <4>1. OnlyLookup(Holder) BY <3>1 DEF CacheTypeOK, OnlyLookup, lookup
      <4>2. AnswerSound(Holder)' BY <3>1 DEF CacheInv, AnswerSound, lookup
      <4> QED BY <3>1, <4>1, <4>2, OneLookup
    <3>2. CASE HasClient(Holder) /\ UNCHANGED <<now, file, faults>> /\ Panic(Holder)
      BY <3>2, PanicKeepsCache
    <3> QED BY <2>11, <3>1, <3>2, <1>1 DEF DescribeInterface
  <2>12. CASE Detach BY <2>12, <1>1, <1>2 DEF Detach
  <2>13. CASE WaitDetached BY <2>13, <1>1, <1>2 DEF WaitDetached, Failing
  <2>14. CASE DeleteInterface BY <2>14, <1>1 DEF DeleteInterface, Failing
  <2>15. CASE Crash BY <2>15, <1>1 DEF Crash
  <2> QED BY <1>3, <2>1, <2>2, <2>3, <2>4, <2>5, <2>6, <2>7, <2>8, <2>9, <2>10,
             <2>11, <2>12, <2>13, <2>14, <2>15 DEF HolderStep
<1>4. CASE Beside
  <2>1. ASSUME NEW e \in Interface, DetachDone(e) \/ Sync(e)
        PROVE  CacheTypeOK' /\ CacheInv'
    BY <2>1, <1>2 DEF DetachDone, Sync, NoCache
  <2>2. ASSUME NEW p \in Proc, Lookup(p) PROVE CacheTypeOK' /\ CacheInv'
    BY <2>2, LookupKeepsCache DEF Lookup
  <2>3. ASSUME NEW p \in Proc, AskAgain(p) PROVE CacheTypeOK' /\ CacheInv'
    BY <2>3, AskKeepsCache DEF AskAgain
  <2>4. ASSUME NEW p \in Proc, QueryEnds(p) PROVE CacheTypeOK' /\ CacheInv'
    BY <2>4, EndKeepsCache DEF QueryEnds
  <2> QED BY <1>4, <2>1, <2>2, <2>3, <2>4, TickKeepsCache DEF Beside
<1>5. CASE Start
  <2>1. CASE NewInterface BY <2>1, AskKeepsCache DEF NewInterface, AskNext
  <2>2. ASSUME NEW e \in Interface, RemoveInterface(e) PROVE CacheTypeOK' /\ CacheInv'
    BY <2>2, <1>2 DEF RemoveInterface
  <2>3. ASSUME NEW p \in Proc, Query(p) PROVE CacheTypeOK' /\ CacheInv'
    BY <2>3, AskKeepsCache DEF Query
  <2> QED BY <1>5, <2>1, <2>2, <2>3 DEF Start
<1> QED BY <1>3, <1>4, <1>5 DEF Next

-----------------------------------------------------------------------------
(* What the steps of Eni do to interfaces.                                 *)

(* The types of what is not the cache's. *)
EniTypeOK ==
    /\ status \in [Interface -> Statuses] /\ index \in [Interface -> Nat]
    /\ shown \subseteq Interface /\ marked \subseteq Attached
    /\ op \in Ops /\ cur \in Interface \cup {NoEni}
    /\ at \in Nat /\ polls \in 0 .. MaxPolls
    /\ removed \in BOOLEAN /\ hurt \subseteq Interface

Interfaces == EniTypeOK /\ Working /\ Accounting

(* Lookups and the clock leave interfaces alone. *)
LEMMA IdleKeepsInterfaces ==
    ASSUME Interfaces, UNCHANGED <<ec2, work, history>>
    PROVE  Interfaces'
BY DEF Interfaces, EniTypeOK, Working, Accounting, SeenTo, Attached, ec2, work, history

(* A command goes on, or ends, without touching interfaces. *)
LEMMA WorkKeepsInterfaces ==
    ASSUME Interfaces, UNCHANGED <<ec2, history>>,
           op \in {"idle", "subnets", "limits", "client", "batch", "create"},
           op' \in {"idle", "subnets", "limits", "client", "batch", "create"},
           cur' = NoEni, at' \in Nat, polls' \in 0 .. MaxPolls
    PROVE  Interfaces'
<1> USE EniAssumption DEF Interfaces, ec2, history
<1>1. EniTypeOK' BY DEF EniTypeOK, Ops, Attached
<1>2. Working' BY DEF Working
<1>3. Accounting' BY DEF Accounting, SeenTo
<1> QED BY <1>1, <1>2, <1>3

(* A command that ends leaves its interface accounted for: it had nothing  *)
(* to see to, or records the mishap.                                       *)
LEMMA ReturnKeepsInterfaces ==
    ASSUME Interfaces, Return, UNCHANGED ec2,
           \/ UNCHANGED history /\ op \notin {"attach", "cleanup", "modify", "wait", "delete"}
           \/ Mishap
    PROVE  Interfaces'
<1> USE EniAssumption DEF Interfaces, ec2
<1>1. /\ hurt \subseteq hurt' /\ hurt' \subseteq Interface /\ removed' = removed
      /\ op \in {"attach", "cleanup", "modify", "wait", "delete"} => cur \in hurt'
    BY DEF EniTypeOK, Working, Mishap, history
<1>2. EniTypeOK' BY <1>1 DEF EniTypeOK, Ops, Attached, Return
<1>3. Working' BY DEF Working, Return
<1>4. Accounting' BY <1>1 DEF Accounting, SeenTo, Return
<1> QED BY <1>2, <1>3, <1>4

(* A command goes on with the interface it works on. *)
LEMMA GoOnKeepsInterfaces ==
    ASSUME Interfaces, UNCHANGED <<ec2, history, cur, at>>,
           polls' \in 0 .. MaxPolls,
           \/ op \in {"describe", "detach"} /\ op' \in {"describe", "detach"}
           \/ op = "attach" /\ op' = "cleanup"
           \/ op = "wait" /\ op' = "wait"
           \/ op = "wait" /\ op' = "delete" /\ status[cur] = "available"
           \/ op = "poll" /\ op' = "poll"
    PROVE  Interfaces'
<1> USE EniAssumption DEF Interfaces, ec2, history
<1>1. EniTypeOK' BY DEF EniTypeOK, Ops, Attached
<1>2. Working' BY DEF Working
<1>3. Accounting' BY DEF Accounting, SeenTo
<1> QED BY <1>1, <1>2, <1>3

LEMMA CreateKeepsInterfaces ==
    ASSUME Interfaces, CreateNetworkInterface
    PROVE  Interfaces'
<1> USE EniAssumption
<1>1. ASSUME NEW e \in Interface,
             status[e] = "absent", status' = [status EXCEPT ![e] = "available"],
             op = "create", op' = "attach", cur' = e, hurt' = hurt \ {e},
             UNCHANGED <<at, polls, index, shown, marked, removed>>
      PROVE  Interfaces'
  <2> USE <1>1 DEF Interfaces
  <2>1. EniTypeOK' BY DEF EniTypeOK, Ops, Statuses, Attached
  <2>2. Working' BY DEF EniTypeOK, Working
  <2>3. Accounting' BY DEF EniTypeOK, Working, Accounting, SeenTo, Attached
  <2> QED BY <2>1, <2>2, <2>3
<1> QED BY <1>1, ReturnKeepsInterfaces DEF CreateNetworkInterface, Failing, ec2

LEMMA AttachKeepsInterfaces ==
    ASSUME Interfaces, AttachNetworkInterface
    PROVE  Interfaces'
<1> USE EniAssumption
<1>1. ASSUME op = "attach", status' = [status EXCEPT ![cur] = "in-use"],
             index' = [index EXCEPT ![cur] = at], GoOn("modify"),
             UNCHANGED <<shown, marked, history>>
      PROVE  Interfaces'
  <2> USE <1>1 DEF Interfaces, GoOn, history
  <2>1. EniTypeOK' BY DEF EniTypeOK, Ops, Statuses, Attached
  <2>2. Working' BY DEF EniTypeOK, Working
  <2>3. Accounting' BY DEF EniTypeOK, Working, Accounting, SeenTo
  <2> QED BY <2>1, <2>2, <2>3
<1>2. op = "attach" /\ GoOn("cleanup") /\ UNCHANGED <<ec2, history>> => Interfaces'
  BY GoOnKeepsInterfaces DEF GoOn, Interfaces, EniTypeOK
<1> QED BY <1>1, <1>2 DEF AttachNetworkInterface, Refused

LEMMA DeletionKeepsInterfaces ==
    ASSUME Interfaces, Cleanup \/ DeleteInterface
    PROVE  Interfaces'
<1> USE EniAssumption
<1>1. ASSUME op \in {"cleanup", "delete"}, status' = [status EXCEPT ![cur] = "absent"],
             Return, UNCHANGED <<index, shown, marked, history>>
      PROVE  Interfaces'
  <2> USE <1>1 DEF Interfaces, Return, history
  <2>1. EniTypeOK' BY DEF EniTypeOK, Working, Ops, Statuses, Attached
  <2>2. Working' BY DEF Working
  <2>3. Accounting' BY DEF EniTypeOK, Working, Accounting, SeenTo
  <2> QED BY <2>1, <2>2, <2>3
<1> QED BY <1>1, ReturnKeepsInterfaces DEF Cleanup, DeleteInterface, Failing, ec2

LEMMA ModifyKeepsInterfaces ==
    ASSUME Interfaces, ModifyAttribute
    PROVE  Interfaces'
<1> USE EniAssumption DEF Interfaces, ModifyAttribute, GoOn, Failing, Mishap, history
<1>1. EniTypeOK' BY DEF EniTypeOK, Working, Ops, Attached
<1>2. Working' BY DEF Working
<1>3. Accounting' BY DEF EniTypeOK, Working, Accounting, SeenTo
<1> QED BY <1>1, <1>2, <1>3

LEMMA DetachKeepsInterfaces ==
    ASSUME Interfaces, Detach
    PROVE  Interfaces'
<1> USE EniAssumption
<1>1. ASSUME op = "detach", cur \in Attached, status' = [status EXCEPT ![cur] = "detaching"],
             removed' = TRUE, GoOn("wait"), UNCHANGED <<hurt, index, shown, marked>>
      PROVE  Interfaces'
  <2> USE <1>1 DEF Interfaces, GoOn, Attached
  <2>1. EniTypeOK' BY DEF EniTypeOK, Ops, Statuses
  <2>2. Working' BY DEF EniTypeOK, Working
  <2>3. Accounting' BY DEF EniTypeOK, Accounting, SeenTo
  <2> QED BY <2>1, <2>2, <2>3
<1> QED BY <1>1, ReturnKeepsInterfaces DEF Detach, ec2

(* The completion takes the mark off an interface that had a mishap or     *)
(* whose command is still waiting for it.                                  *)
LEMMA DetachDoneKeepsInterfaces ==
    ASSUME Interfaces, NEW e \in Interface, DetachDone(e)
    PROVE  Interfaces'
<1> USE EniAssumption DEF Interfaces, DetachDone, work, history
<1>1. EniTypeOK' BY DEF EniTypeOK, Statuses, Attached
<1>2. Working' BY DEF EniTypeOK, Working
<1>3. Accounting' BY DEF EniTypeOK, Accounting, SeenTo
<1> QED BY <1>1, <1>2, <1>3

(* Every step keeps interfaces accounted for. *)
LEMMA InterfaceStep ==
    ASSUME Interfaces, Next
    PROVE  Interfaces'
<1> USE EniAssumption
<1>0. polls \in 0 .. MaxPolls /\ at \in Nat /\ cur \in Interface \cup {NoEni}
  BY DEF Interfaces, EniTypeOK
<1>c. op \in {"idle", "subnets", "limits", "client", "batch", "create"} <=> cur = NoEni
  BY DEF Interfaces, Working
<1>1. CASE HolderStep
  <2>1. CASE Lookup(Holder) BY <2>1, IdleKeepsInterfaces DEF Lookup
  <2>2. CASE GotSubnets
    <3>1. NextIndex \in Nat
      BY FS_CardinalityType, FS_Subset DEF NextIndex, Interfaces, EniTypeOK
    <3> QED BY <2>2, <3>1, <1>0, <1>c, WorkKeepsInterfaces, ReturnKeepsInterfaces
            DEF GotSubnets, Done
  <2>3. CASE GotLimits
    BY <2>3, <1>0, <1>c, WorkKeepsInterfaces, ReturnKeepsInterfaces
    DEF GotLimits, Done, Proceed, GoOn
  <2>4. CASE GetClient
    BY <2>4, <1>0, <1>c, WorkKeepsInterfaces DEF GetClient, GoOn
  <2>5. CASE GotBatch
    BY <2>5, <1>0, <1>c, WorkKeepsInterfaces DEF GotBatch, Done, Proceed, GoOn
  <2>6. CASE PollMetadata
    BY <2>6, <1>0, ReturnKeepsInterfaces, GoOnKeepsInterfaces DEF PollMetadata, PolledEnough
  <2>7. CASE DescribeInterface
    BY <2>7, <1>0, ReturnKeepsInterfaces, GoOnKeepsInterfaces DEF DescribeInterface, GoOn
  <2>8. CASE WaitDetached
    BY <2>8, <1>0, ReturnKeepsInterfaces, GoOnKeepsInterfaces
    DEF WaitDetached, WaitedEnough, GoOn, Failing
  <2>9. CASE Crash BY <2>9, ReturnKeepsInterfaces DEF Crash
  <2> QED BY <1>1, <2>1, <2>2, <2>3, <2>4, <2>5, <2>6, <2>7, <2>8, <2>9,
             CreateKeepsInterfaces, AttachKeepsInterfaces, DeletionKeepsInterfaces,
             ModifyKeepsInterfaces, DetachKeepsInterfaces DEF HolderStep
<1>2. CASE Beside
  <2>1. ASSUME NEW e \in Interface, Sync(e) PROVE Interfaces'
    BY <2>1 DEF Sync, Interfaces, EniTypeOK, Working, Accounting, SeenTo, Attached, work, history
  <2>2. ASSUME NEW p \in Proc, Lookup(p) \/ AskAgain(p) \/ QueryEnds(p) PROVE Interfaces'
    BY <2>2, IdleKeepsInterfaces DEF Lookup, AskAgain, QueryEnds
  <2>3. CASE Tick BY <2>3, IdleKeepsInterfaces DEF Tick
  <2> QED BY <1>2, <2>1, <2>2, <2>3, DetachDoneKeepsInterfaces DEF Beside
<1>3. CASE Start
  <2>1. CASE NewInterface
    BY <2>1, <1>0, <1>c, WorkKeepsInterfaces DEF NewInterface, GoOn
  <2>2. ASSUME NEW e \in Interface, RemoveInterface(e) PROVE Interfaces'
    <3> USE <2>2 DEF RemoveInterface, Interfaces, ec2, history
    <3>1. EniTypeOK' BY DEF EniTypeOK, Ops, Attached
    <3>2. Working' BY DEF Working
    <3>3. Accounting' BY DEF Accounting, SeenTo
    <3> QED BY <3>1, <3>2, <3>3
  <2>3. ASSUME NEW p \in Proc, Query(p) PROVE Interfaces'
    BY <2>3, IdleKeepsInterfaces DEF Query
  <2> QED BY <1>3, <2>1, <2>2, <2>3 DEF Start
<1> QED BY <1>1, <1>2, <1>3 DEF Next

-----------------------------------------------------------------------------
(* What the steps of Eni do to device indexes.                             *)

(* The interfaces that take a device index are finitely many. *)
LEMMA AttachedFinite == IsFiniteSet(Attached) /\ Cardinality(Attached) \in Nat
BY EniAssumption, FS_Subset, FS_CardinalityType DEF Attached

(* A step that attaches and detaches nothing and chooses no device index. *)
LEMMA SameIndexes ==
    ASSUME Interfaces, Indexing, UNCHANGED <<index, shown, removed>>,
           Attached' = Attached, ~removed => \A e \in Interface : status'[e] # "detaching",
           \/ op' \notin {"limits", "client", "batch", "create", "attach"}
           \/ at' = at /\ op \in {"limits", "client", "batch", "create", "attach"},
           ~removed => op' \notin {"wait", "delete"}
    PROVE  Indexing'
BY DEF Indexing

(* A step that leaves interfaces alone. *)
LEMMA QuietIndexes ==
    ASSUME Interfaces, Indexing, UNCHANGED <<ec2, removed>>,
           \/ op' \notin {"limits", "client", "batch", "create", "attach"}
           \/ at' = at /\ op \in {"limits", "client", "batch", "create", "attach"},
           op' \notin {"wait", "delete"} \/ op \in {"wait", "delete"}
    PROVE  Indexing'
<1>1. Attached' = Attached BY DEF Attached, ec2
<1> QED BY <1>1, SameIndexes DEF ec2, Indexing

(* The number of interfaces shown is the first free index or a taken one. *)
LEMMA ChosenIndex ==
    ASSUME Interfaces, Indexing, ~removed
    PROVE  NextIndex >= 1 /\ NextIndex <= Cardinality(Attached) + 1
<1>1. shown \subseteq Attached BY DEF Indexing
<1>2. Cardinality(shown) \in Nat /\ Cardinality(shown) <= Cardinality(Attached)
  BY <1>1, AttachedFinite, FS_Subset, FS_CardinalityType
<1> QED BY <1>2, AttachedFinite DEF NextIndex

(* EC2 attaches at the first free index: no gap comes up. *)
LEMMA AttachNoGap ==
    ASSUME Interfaces, Indexing, op = "attach", MayAttach,
           status' = [status EXCEPT ![cur] = "in-use"],
           index' = [index EXCEPT ![cur] = at], GoOn("modify"),
           UNCHANGED <<shown, removed>>
    PROVE  Indexing'
<1> SUFFICES ASSUME ~removed PROVE Indexing' BY DEF Indexing
<1>1. /\ cur \in Interface /\ status[cur] = "available" /\ at \in Nat
      /\ status \in [Interface -> Statuses] /\ index \in [Interface -> Nat]
  BY DEF Interfaces, EniTypeOK, Working
<1>2. cur \notin Attached BY <1>1 DEF Attached
<1>3. Attached' = Attached \cup {cur} BY <1>1 DEF Attached
<1>4. Cardinality(Attached)' = Cardinality(Attached) + 1
  BY <1>2, <1>3, AttachedFinite, FS_AddElement
<1>5. at = Cardinality(Attached) + 1
  BY <1>1, AttachedFinite DEF Indexing, MayAttach
<1>6. \A e \in Attached : index'[e] = index[e] BY <1>1, <1>2 DEF Attached
<1>7. index'[cur] = at BY <1>1
<1>8. {index'[e] : e \in Attached'} = {index[e] : e \in Attached} \cup {at}
  BY <1>3, <1>6, <1>7
<1>9. {index'[e] : e \in Attached'} = 1 .. Cardinality(Attached)'
  BY <1>4, <1>5, <1>8, AttachedFinite DEF Indexing
<1>10. shown' \subseteq Attached' BY <1>3 DEF Indexing
<1>11. \A e \in Interface : status'[e] # "detaching" BY <1>1 DEF Indexing
<1> QED BY <1>9, <1>10, <1>11 DEF Indexing, GoOn

(* Every step keeps the indexes without a gap. *)
LEMMA IndexStep ==
    ASSUME Interfaces, Indexing, Next
    PROVE  Indexing'
<1> USE EniAssumption
<1>t. /\ status \in [Interface -> Statuses] /\ cur \in Interface \cup {NoEni}
      /\ op \in {"cleanup", "delete"} => cur \in Interface /\ status[cur] = "available"
  BY DEF Interfaces, EniTypeOK, Working
<1>1. CASE HolderStep
  <2>1. CASE Lookup(Holder) BY <2>1, QuietIndexes DEF Lookup, work, history, Indexing
  <2>2. CASE GotSubnets
    <3>1. CASE op' = "limits" /\ at' = NextIndex /\ UNCHANGED <<ec2, history>>
      <4>1. Attached' = Attached BY <3>1 DEF Attached, ec2
      <4> QED BY <3>1, <4>1, ChosenIndex DEF Indexing, ec2, history
    <3>2. CASE Return /\ UNCHANGED <<ec2, history>>
      BY <3>2, QuietIndexes DEF Return, history
    <3> QED BY <2>2, <3>1, <3>2 DEF GotSubnets
  <2>3. CASE GotLimits
    BY <2>3, QuietIndexes DEF GotLimits, Done, Proceed, GoOn, Return, history
  <2>4. CASE GetClient
    BY <2>4, QuietIndexes DEF GetClient, GoOn, history
  <2>5. CASE GotBatch
    BY <2>5, QuietIndexes DEF GotBatch, Done, Proceed, GoOn, history
  <2>6. CASE CreateNetworkInterface
    <3>1. ASSUME NEW e \in Interface, status[e] = "absent",
                 status' = [status EXCEPT ![e] = "available"],
                 op = "create", op' = "attach", UNCHANGED <<at, index, shown, removed>>
          PROVE  Indexing'
      <4>1. Attached' = Attached BY <3>1, <1>t DEF Attached
      <4>2. ~removed => \A i \in Interface : status'[i] # "detaching"
        BY <3>1, <1>t DEF Indexing
      <4> QED BY <3>1, <4>1, <4>2, SameIndexes
    <3>2. ASSUME Return, UNCHANGED <<ec2, removed>> PROVE Indexing'
      BY <3>2, QuietIndexes DEF Return
    <3> QED BY <2>6, <3>1, <3>2 DEF CreateNetworkInterface, Failing, Mishap, history
  <2>7. CASE AttachNetworkInterface
    BY <2>7, AttachNoGap, QuietIndexes
    DEF AttachNetworkInterface, Refused, GoOn, history
  <2>8. CASE Cleanup \/ DeleteInterface
    <3>1. CASE status' = [status EXCEPT ![cur] = "absent"]
      <4>1. Attached' = Attached
        BY <2>8, <3>1, <1>t DEF Cleanup, DeleteInterface, Attached
      <4>2. ~removed => \A i \in Interface : status'[i] # "detaching"
        BY <3>1, <1>t DEF Indexing
      <4> QED BY <2>8, <4>1, <4>2, SameIndexes
              DEF Cleanup, DeleteInterface, Return, Failing, Mishap, history
    <3>2. CASE UNCHANGED status
      BY <2>8, <3>2, QuietIndexes
      DEF Cleanup, DeleteInterface, Return, Failing, Mishap, history, ec2
    <3> QED BY <2>8, <3>1, <3>2 DEF Cleanup, DeleteInterface
  <2>9. CASE ModifyAttribute
    <3>1. Attached' = Attached BY <2>9 DEF ModifyAttribute, Attached
    <3> QED BY <2>9, <3>1, SameIndexes
            DEF ModifyAttribute, GoOn, Failing, Mishap, history, Indexing
  <2>10. CASE PollMetadata
    BY <2>10, QuietIndexes DEF PollMetadata, Return, history
  <2>11. CASE DescribeInterface
    BY <2>11, QuietIndexes DEF DescribeInterface, GoOn, Return, history
  <2>12. CASE Detach
    BY <2>12, QuietIndexes DEF Detach, Return, history, ec2, Indexing
  <2>13. CASE WaitDetached
    BY <2>13, QuietIndexes DEF WaitDetached, GoOn, Return, Failing, Mishap, history
  <2>14. CASE Crash
    BY <2>14, QuietIndexes DEF Crash, Return, Mishap
  <2> QED BY <1>1, <2>1, <2>2, <2>3, <2>4, <2>5, <2>6, <2>7, <2>8, <2>9, <2>10,
             <2>11, <2>12, <2>13, <2>14 DEF HolderStep
<1>2. CASE Beside
  <2>1. ASSUME NEW e \in Interface, Sync(e) PROVE Indexing'
    <3>1. Attached' = Attached BY <2>1 DEF Sync, Attached
    <3>2. ~removed => shown' \subseteq Attached' BY <2>1, <3>1 DEF Sync, Indexing
    <3> QED BY <2>1, <3>1, <3>2 DEF Sync, Indexing, work, history
  <2>2. ASSUME NEW e \in Interface, DetachDone(e) PROVE Indexing'
    BY <2>2 DEF DetachDone, Indexing, history
  <2>3. ASSUME NEW p \in Proc, Lookup(p) \/ AskAgain(p) \/ QueryEnds(p) PROVE Indexing'
    BY <2>3, QuietIndexes DEF Lookup, AskAgain, QueryEnds, work, history
  <2>4. CASE Tick BY <2>4, QuietIndexes DEF Tick, work, history
  <2> QED BY <1>2, <2>1, <2>2, <2>3, <2>4 DEF Beside
<1>3. CASE Start
  <2>1. CASE NewInterface BY <2>1, QuietIndexes DEF NewInterface, GoOn, history
  <2>2. ASSUME NEW e \in Interface, RemoveInterface(e) PROVE Indexing'
    BY <2>2, QuietIndexes DEF RemoveInterface, history
  <2>3. ASSUME NEW p \in Proc, Query(p) PROVE Indexing'
    BY <2>3, QuietIndexes DEF Query, work, history
  <2> QED BY <1>3, <2>1, <2>2, <2>3 DEF Start
<1> QED BY <1>1, <1>2, <1>3 DEF Next

-----------------------------------------------------------------------------
(* The program starts in a state of the invariant. *)
LEMMA EniInitial == Init => EniInv
<1> SUFFICES ASSUME Init PROVE EniInv OBVIOUS
<1> USE KeyAssumption, ClockAssumption, EniAssumption DEF Init, CacheInit
<1>1. index \in [Interface -> Nat] /\ Attached = {e \in Interface : index[e] > 0}
  BY DEF Attached
<1>2. CacheTypeOK BY DEF CacheTypeOK, Unreadable, Once, Steps, Nothing
<1>3. /\ status \in [Interface -> Statuses] /\ marked \subseteq Attached
      /\ shown \subseteq Interface
  BY <1>1 DEF Statuses
<1>4. TypeOK
  <2>1. MaxPolls \in Nat /\ MaxCommands \in Nat OBVIOUS
  <2>2. polls \in 0 .. MaxPolls /\ commands \in 0 .. MaxCommands BY <2>1
  <2>3. op \in Ops /\ at \in Nat BY DEF Ops
  <2>4. cur \in Interface \cup {NoEni} /\ removed \in BOOLEAN /\ hurt \subseteq Interface
    OBVIOUS
  <2> HIDE DEF Init, CacheInit
  <2> QED BY <1>1, <1>2, <1>3, <2>2, <2>3, <2>4 DEF TypeOK
<1>5. CacheInv BY DEF CacheInv, AnswerSound, EntrySound
<1>6. Working BY DEF Working
<1>7. Accounting BY <1>1 DEF Accounting
<1>8. {index[e] : e \in Attached} = 1 .. Cardinality(Attached) BY <1>1
<1>9. Indexing BY <1>1, <1>8 DEF Indexing
<1> QED BY <1>4, <1>5, <1>6, <1>7, <1>9 DEF EniInv

(* EniInv holds in every state: what each command, EC2, the metadata       *)
(* service and the other commands do, in any order and with any failures,  *)
(* keeps caches sound, interfaces accounted for and indexes without a gap. *)
THEOREM EniInvariance == Spec => []EniInv
<1>1. EniInv /\ [Next]_vars => EniInv'
  <2> SUFFICES ASSUME EniInv, [Next]_vars PROVE EniInv' OBVIOUS
  <2>1. CacheTypeOK /\ CacheInv /\ Interfaces /\ Indexing
    BY DEF EniInv, TypeOK, Interfaces, EniTypeOK
  <2>2. CASE Next
    <3>1. CacheTypeOK' /\ CacheInv' BY <2>1, <2>2, CacheStep
    <3>2. Interfaces' BY <2>1, <2>2, InterfaceStep
    <3>3. Indexing' BY <2>1, <2>2, IndexStep
    <3>4. commands' \in 0 .. MaxCommands
      <4>1. commands \in 0 .. MaxCommands BY DEF EniInv, TypeOK
      <4>2. commands' = commands \/ (commands > 0 /\ commands' = commands - 1)
        BY <2>2 DEF Next, HolderStep, Beside, Start
      <4> QED BY <4>1, <4>2, EniAssumption
    <3> QED BY <3>1, <3>2, <3>3, <3>4 DEF EniInv, TypeOK, Interfaces, EniTypeOK
  <2>3. CASE UNCHANGED vars
    <3>1. Interfaces' BY <2>1, <2>3, IdleKeepsInterfaces DEF vars
    <3>2. CacheTypeOK' /\ CacheInv'
      BY <2>1, <2>3, QuietKeepsCache DEF vars, cacheVars
    <3>3. Indexing' BY <2>1, <2>3, QuietIndexes DEF vars, work, history
    <3> QED BY <3>1, <3>2, <3>3, <2>3 DEF EniInv, TypeOK, Interfaces, EniTypeOK, vars
  <2> QED BY <2>2, <2>3
<1> QED BY <1>1, EniInitial, PTL DEF Spec

(* Types, in every state: in particular polls end at their limit, and only *)
(* attached interfaces are marked.                                         *)
THEOREM EniTypeCorrect == Spec => []TypeOK
<1>1. EniInv => TypeOK BY DEF EniInv
<1> QED BY <1>1, EniInvariance, PTL

(* An answer that ENILimits, GetSubnetsForInstance or the VPC functions     *)
(* return was EC2's at most its lifetime and one call ago, whatever other  *)
(* processes do to the cache file meanwhile.                               *)
THEOREM AnswersFresh == Spec => []CacheFresh
<1>1. EniInv => CacheFresh BY DEF EniInv, CacheInv, AnswerSound, CacheFresh
<1> QED BY <1>1, EniInvariance, PTL

(* An interface is left behind by NewInterface or RemoveInterface only if  *)
(* a call about it failed, its command was killed or its detachment timed  *)
(* out.                                                                    *)
THEOREM NoSilentLeak == Spec => []LeaksExplained
<1>1. EniInv => LeaksExplained
  BY DEF EniInv, Accounting, SeenTo, LeaksExplained, Leaked
<1> QED BY <1>1, EniInvariance, PTL

(* While none is removed, the number of interfaces in the metadata is a    *)
(* sound device index for NewInterface: indexes in use have no gap.        *)
THEOREM NoIndexGap == Spec => []Contiguous
<1>1. EniInv => Contiguous BY DEF EniInv, Indexing, Contiguous
<1> QED BY <1>1, EniInvariance, PTL
=============================================================================
