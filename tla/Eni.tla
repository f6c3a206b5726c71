-------------------------------- MODULE Eni --------------------------------
(***************************************************************************)
(* The life of the instance's network interfaces (aws/interface.go):      *)
(* NewInterface, which an ADD or the new-interface command runs, and      *)
(* RemoveInterface, which the remove-interface command runs.  Both run    *)
(* under the lock file, so one of them is at work at a time; beside it,   *)
(* EC2 completes detachments, the metadata service follows EC2, and the   *)
(* commands that take no lock look up cached answers.                      *)
(***************************************************************************)
EXTENDS ApiCache

CONSTANTS
    Interface, NoEni,   \* interfaces besides the boot interface
    Boots,              \* device indexes the instance may boot with, 0 if not attached
    Asked,              \* what commands that take no lock ask
    Holder,             \* the process that has the lock file
    Adapters,           \* EC2's limit on the interfaces of the instance
    DefaultAdapters,    \* the program's default for that limit
    MaxPolls,           \* polls of the metadata, and of a detachment
    MaxCommands         \* bound on the commands that are started

ASSUME EniAssumption ==
    /\ IsFiniteSet(Interface) /\ NoEni \notin Interface
    /\ Holder \in Proc /\ Asked \subseteq Key
    /\ Boots \subseteq [Interface -> Nat]
    /\ \A b \in Boots : LET used == {e \in Interface : b[e] > 0}
                       IN  {b[e] : e \in used} = 1 .. Cardinality(used)
    /\ {Adapters, DefaultAdapters, MaxPolls, MaxCommands} \subseteq Nat

VARIABLES
    status,     \* absent, available, in use, or detaching
    index,      \* device index of an interface that is attached; the boot interface has 0
    shown,      \* interfaces the metadata service shows
    marked,     \* interfaces that EC2 deletes when the instance terminates
    op,         \* next step of the holder
    cur,        \* the interface it works on
    at,         \* the device index it chose
    polls,      \* polls it has made
    commands,   \* commands that may still be started
    removed,    \* history: an interface was detached
    hurt        \* history: interfaces that a failed call, a crash or a timeout concerned

ec2     == <<status, index, shown, marked>>
work    == <<op, cur, at, polls>>
history == <<removed, hurt>>
vars    == <<cacheVars, ec2, work, commands, history>>

Statuses == {"absent", "available", "in-use", "detaching"}
Ops == {"idle", "subnets", "limits", "client", "batch", "create", "attach",
        "cleanup", "modify", "poll", "describe", "detach", "wait", "delete"}

(* Interfaces that take a device index. *)
Attached == {e \in Interface : status[e] \in {"in-use", "detaching"}}

-----------------------------------------------------------------------------
GoOn(o) == op' = o /\ UNCHANGED <<cur, at, polls>>

(* The command returns, and its process ends. *)
Return ==
    /\ op' = "idle" /\ cur' = NoEni /\ at' = 0 /\ polls' = 0
    /\ ProcessEnds(Holder)
    /\ UNCHANGED <<now, file>>

NoCache == UNCHANGED cacheVars
Mishap == hurt' = hurt \cup ({cur} \ {NoEni}) /\ UNCHANGED removed

(* A call of EC2 fails. *)
Failing == Fault /\ Mishap

(* The holder's lookup has come back. *)
Done(o) == op = o /\ step[Holder] \in Ended

(* The holder goes on with what the lookup returned. *)
Proceed(o) ==
    /\ GoOn(o)
    /\ To(Holder, "idle")
    /\ ask' = [ask EXCEPT ![Holder] = NoKey]
    /\ got' = [got EXCEPT ![Holder] = Nothing]
    /\ UNCHANGED <<now, file, doc, client, faults>>

(* The next lookup of the same process. *)
AskNext(k) == Ask(Holder, k) /\ UNCHANGED <<now, file, doc, client, faults>>

-----------------------------------------------------------------------------
(* NewInterface.                                                           *)

NewInterface ==
    /\ op = "idle"
    /\ AskNext(Subnets)
    /\ GoOn("subnets")
    /\ UNCHANGED <<ec2, history>>

(* MUTANT: indexes are counted from one. *)
NextIndexOver == Cardinality(shown) + 2

(* The number of interfaces the metadata shows is the new device index. *)
NextIndex == Cardinality(shown) + 1

(* GetInterfaces follows GetSubnetsForInstance, and ENILimits that. *)
GotSubnets ==
    /\ Done("subnets")
    /\ \/ /\ step[Holder] = "found"
          /\ op' = "limits" /\ at' = NextIndex
          /\ AskNext(Limits)
          /\ UNCHANGED <<cur, polls>>
       \/ step[Holder] = "error" /\ Return /\ UNCHANGED faults
       \/ Fault /\ Return
    /\ UNCHANGED <<ec2, history>>

(* The limit is EC2's, or the default if that cannot be had.  The command  *)
(* also ends when no subnet has the required tags.                         *)
GotLimits ==
    /\ Done("limits")
    /\ LET limit == IF step[Holder] = "found" THEN Adapters ELSE DefaultAdapters
       IN  \/ at < limit /\ Proceed("client")
           \/ Return /\ UNCHANGED faults
    /\ UNCHANGED <<ec2, history>>

(* NewInterfaceOnSubnetAtIndex starts with newEC2 and getIDDoc, then looks *)
(* at the limits again, for the number of addresses to ask for.            *)
GetClient ==
    /\ op = "client"
    /\ \/ HasClient(Holder) /\ Ask(Holder, Limits) /\ GoOn("batch") /\ UNCHANGED faults
       \/ ClientPanics(Holder) /\ Panic(Holder) /\ GoOn("client")
    /\ UNCHANGED <<now, file, ec2, history>>

GotBatch ==
    /\ Done("batch")
    /\ Proceed("create")
    /\ UNCHANGED <<ec2, history>>

CreateNetworkInterface ==
    /\ op = "create"
    /\ \/ \E e \in Interface :
            /\ status[e] = "absent"
            /\ status' = [status EXCEPT ![e] = "available"]
            /\ op' = "attach" /\ cur' = e
            /\ hurt' = hurt \ {e}
            /\ NoCache
            /\ UNCHANGED <<at, polls, index, shown, marked, removed>>
       \/ Failing /\ Return /\ UNCHANGED ec2
       \/ (\A e \in Interface : status[e] # "absent")
          /\ Return /\ UNCHANGED <<faults, ec2, history>>

(* EC2 attaches at a free device index, within its limit. *)
MayAttach ==
    /\ at \notin {index[e] : e \in Attached}
    /\ Cardinality(Attached) + 1 < Adapters

(* MUTANT: the interface is not deleted when it could not be attached. *)
RefusedUncleaned == Return /\ UNCHANGED faults

Refused == GoOn("cleanup") /\ NoCache

AttachNetworkInterface ==
    /\ op = "attach"
    /\ \/ /\ MayAttach
          /\ status' = [status EXCEPT ![cur] = "in-use"]
          /\ index' = [index EXCEPT ![cur] = at]
          /\ GoOn("modify")
          /\ NoCache
          /\ UNCHANGED <<shown, marked, history>>
       \/ ~MayAttach /\ Refused /\ UNCHANGED <<ec2, history>>
       \/ Fault /\ GoOn("cleanup") /\ UNCHANGED <<now, file, doc, client, lookup, ec2, history>>

(* The clean-up after a failed attachment may fail itself. *)
Cleanup ==
    /\ op = "cleanup"
    /\ \/ status' = [status EXCEPT ![cur] = "absent"] /\ UNCHANGED <<faults, history>>
       \/ Failing /\ UNCHANGED status
    /\ Return
    /\ UNCHANGED <<index, shown, marked>>

(* The interface is to go with the instance; a failure is only printed. *)
ModifyAttribute ==
    /\ op = "modify"
    /\ \/ marked' = marked \cup {cur} /\ UNCHANGED <<faults, history>>
       \/ Failing /\ UNCHANGED marked
    /\ GoOn("poll")
    /\ UNCHANGED <<now, file, doc, client, lookup, status, index, shown>>

(* MUTANT: the interface is waited for as long as it takes. *)
PolledEnoughNever == FALSE

PolledEnough == polls = MaxPolls

PollMetadata ==
    /\ op = "poll"
    /\ \/ (cur \in shown \/ PolledEnough) /\ Return /\ UNCHANGED faults
       \/ /\ cur \notin shown /\ ~PolledEnough
          /\ polls' = IF polls = MaxPolls THEN polls ELSE polls + 1
          /\ UNCHANGED <<op, cur, at>>
          /\ NoCache
    /\ UNCHANGED <<ec2, history>>

-----------------------------------------------------------------------------
(* RemoveInterface.                                                        *)

RemoveInterface(e) ==
    /\ op = "idle"
    /\ op' = "describe" /\ cur' = e
    /\ NoCache
    /\ UNCHANGED <<at, polls, ec2, history>>

(* describeNetworkInterface with a client of its own.  An interface that   *)
(* is not attached has no Attachment, and that is dereferenced.            *)
DescribeInterface ==
    /\ op = "describe" /\ step[Holder] # "panic"
    /\ \/ /\ HasClient(Holder)
          /\ \/ cur \in Attached /\ GoOn("detach") /\ UNCHANGED lookup
             \/ status[cur] = "available" /\ GoOn("describe") /\ Panic(Holder)
          /\ UNCHANGED <<now, file, faults>>
       \/ status[cur] = "absent" /\ Return /\ UNCHANGED faults
       \/ Fault /\ Return
    /\ UNCHANGED <<ec2, history>>

(* EC2 refuses if the attachment is gone: the detachment that an earlier   *)
(* command did not wait for may have been completed since the description. *)
Detach ==
    /\ op = "detach"
    /\ \/ /\ cur \in Attached
          /\ status' = [status EXCEPT ![cur] = "detaching"]
          /\ removed' = TRUE
          /\ GoOn("wait") /\ NoCache
          /\ UNCHANGED hurt
       \/ /\ Fault \/ (cur \notin Attached /\ UNCHANGED faults)
          /\ Return /\ UNCHANGED <<status, history>>
    /\ UNCHANGED <<index, shown, marked>>

(* MUTANT: one poll too many. *)
WaitedEnoughOver == polls = MaxPolls + 1

WaitedEnough == polls = MaxPolls

(* waitUtilInterfaceDetaches gives up after a number of polls; then nobody *)
(* deletes the interface once it is detached.                              *)
WaitDetached ==
    /\ op = "wait"
    /\ \/ status[cur] = "available" /\ GoOn("delete") /\ NoCache /\ UNCHANGED history
       \/ status[cur] # "available" /\ ~WaitedEnough
          /\ polls' = polls + 1 /\ UNCHANGED <<op, cur, at, history>> /\ NoCache
       \/ status[cur] # "available" /\ WaitedEnough
          /\ Return /\ Mishap /\ UNCHANGED faults
       \/ Failing /\ Return
    /\ UNCHANGED ec2

DeleteInterface ==
    /\ op = "delete"
    /\ \/ status' = [status EXCEPT ![cur] = "absent"] /\ UNCHANGED <<faults, history>>
       \/ Failing /\ UNCHANGED status
    /\ Return
    /\ UNCHANGED <<index, shown, marked>>

-----------------------------------------------------------------------------
(* A process that panics or is killed leaves everything as it is. *)
Crash ==
    /\ op # "idle"
    /\ \/ step[Holder] = "panic" /\ UNCHANGED faults
       \/ Fault
    /\ Return
    /\ Mishap
    /\ UNCHANGED ec2

(* EC2 completes a detachment, which unmarks the interface. *)
DetachDone(e) ==
    /\ status[e] = "detaching"
    /\ status' = [status EXCEPT ![e] = "available"]
    /\ index' = [index EXCEPT ![e] = 0]
    /\ marked' = marked \ {e}
    /\ UNCHANGED <<shown, cacheVars, work, history>>

(* The metadata service catches up. *)
Sync(e) ==
    /\ shown' = IF e \in Attached THEN shown \cup {e} ELSE shown \ {e}
    /\ shown' # shown
    /\ UNCHANGED <<status, index, marked, cacheVars, work, history>>

-----------------------------------------------------------------------------
(* The commands that take no lock: they look something up, and end. *)
Query(p) ==
    /\ p # Holder
    /\ step[p] = "idle"
    /\ \E k \in Asked : Ask(p, k)
    /\ UNCHANGED <<now, file, doc, client, faults, ec2, work, history>>

QueryEnds(p) ==
    /\ p # Holder
    /\ step[p] \in Ended \cup {"panic"}
    /\ ProcessEnds(p)
    /\ UNCHANGED <<now, file, faults, ec2, work, history>>

(* vpccidr and vpcpeercidr ask once per interface. *)
AskAgain(p) ==
    /\ p # Holder
    /\ step[p] \in Ended /\ ask[p] = Vpc
    /\ Ask(p, Vpc)
    /\ UNCHANGED <<now, file, doc, client, faults, ec2, work, history>>

Lookup(p) == LookupStep(p) /\ UNCHANGED <<ec2, work, history>>

Tick ==
    /\ MayTick
    /\ now' = now + 1
    /\ UNCHANGED <<file, doc, client, lookup, faults, ec2, work, history>>

(* The process that has the lock. *)
HolderStep ==
    /\ \/ Lookup(Holder)
       \/ GotSubnets \/ GotLimits \/ GetClient \/ GotBatch
       \/ CreateNetworkInterface \/ AttachNetworkInterface \/ Cleanup
       \/ ModifyAttribute \/ PollMetadata
       \/ DescribeInterface \/ Detach \/ WaitDetached \/ DeleteInterface
       \/ Crash
    /\ UNCHANGED commands

(* What goes on beside it. *)
Beside ==
    /\ \/ \E e \in Interface : DetachDone(e) \/ Sync(e)
       \/ \E p \in Proc \ {Holder} : Lookup(p) \/ AskAgain(p) \/ QueryEnds(p)
       \/ Tick
    /\ UNCHANGED commands

Start ==
    /\ commands > 0 /\ commands' = commands - 1
    /\ \/ NewInterface
       \/ \E e \in Interface : RemoveInterface(e)
       \/ \E p \in Proc : Query(p)

Init ==
    /\ CacheInit
    /\ index \in Boots
    /\ status = [e \in Interface |-> IF index[e] > 0 THEN "in-use" ELSE "absent"]
    /\ shown = {e \in Interface : index[e] > 0}
    /\ marked = shown
    /\ op = "idle" /\ cur = NoEni /\ at = 0 /\ polls = 0
    /\ commands = MaxCommands
    /\ removed = FALSE /\ hurt = {}

Next == HolderStep \/ Beside \/ Start

Spec == Init /\ [][Next]_vars

(* The process that has the lock keeps being scheduled. *)
FairSpec == Spec /\ WF_vars(HolderStep)

-----------------------------------------------------------------------------
(* Types. *)
TypeOK ==
    /\ CacheTypeOK
    /\ status \in [Interface -> Statuses]
    /\ index \in [Interface -> Nat]
    /\ shown \subseteq Interface /\ marked \subseteq Attached
    /\ op \in Ops /\ cur \in Interface \cup {NoEni}
    /\ at \in Nat /\ polls \in 0 .. MaxPolls /\ commands \in 0 .. MaxCommands
    /\ removed \in BOOLEAN /\ hurt \subseteq Interface

(* Whatever the interleaving of readers and writers of a cache file, an    *)
(* answer that is used was EC2's at most its lifetime and one call ago,    *)
(* although Store counts the lifetime from the time it writes.             *)
CacheFresh ==
    \A p \in Proc : step[p] = "found" =>
        got[p].when - got[p].at <= Life[ask[p]] + MaxCall

(* Interfaces that cost money and that nobody is going to delete: attached *)
(* to nothing, or attached but not deleted with the instance.              *)
Leaked == {e \in Interface : /\ status[e] # "absent"
                             /\ e \notin marked
                             /\ op = "idle" \/ cur # e}

(* NewInterface and RemoveInterface leave such an interface behind only if *)
(* a call about this very interface failed, its command was killed, or its *)
(* detachment timed out: a refused attachment is cleaned up after.         *)
LeaksExplained == Leaked \subseteq hurt

(* The number of interfaces shown is a sound device index as long as none  *)
(* is removed: the indexes in use have no gap, whatever the metadata       *)
(* misses and whichever attachments are refused.                           *)
Contiguous ==
    ~removed => {index[e] : e \in Attached} = 1 .. Cardinality(Attached)

(* A command under the lock ends, whatever EC2 and the metadata service do. *)
CommandEnds == op # "idle" ~> op = "idle"

(* Without the limits NewInterface goes on with the default ones: "unable  *)
(* to determine AWS limits, using fallback".                               *)
FallbackUsable == op = "client" => step[Holder] # "panic"
=============================================================================
