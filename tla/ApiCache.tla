------------------------------ MODULE ApiCache ------------------------------
(***************************************************************************)
(* The answers of EC2 that the program keeps in files (aws/cache, and its *)
(* users in aws/limits.go, aws/subnets.go and aws/vpc.go), and the client *)
(* each process makes itself on first use (aws/client.go).                 *)
(*                                                                         *)
(* Plugins and most commands of the tool run under the lock file, but     *)
(* limits, max-pods, vpccidr, vpcpeercidr and subnets do not: several     *)
(* processes may read and write one cache file at the same time.  An      *)
(* answer is represented by the time at which EC2 gave it.                 *)
(***************************************************************************)
EXTENDS Integers, FiniteSets

CONSTANTS
    Proc,           \* processes
    Limits, Subnets, Vpc,   \* cached questions: ENILimits, subnets, VPC and peer CIDRs
    Life,           \* lifetime of the answer to each question, in ticks
    Second,         \* ticks per second
    MaxCall,        \* longest time from EC2's answer to its being stored
    NoKey,
    MaxTime,        \* bound on the clock
    MaxFaults       \* bound on the calls that fail

Key == {Limits, Subnets, Vpc}

ASSUME KeyAssumption ==
    /\ Cardinality(Key) = 3
    /\ NoKey \notin Key
    /\ Life \in [Key -> Nat]

ASSUME ClockAssumption ==
    /\ Second \in Nat \ {0}
    /\ {MaxCall, MaxTime, MaxFaults} \subseteq Nat

VARIABLES
    now,        \* wall clock
    file,       \* cache files: missing or torn, or an answer and its expiry
    doc,        \* getIDDoc of a process: not called, failed once, or has the document
    client,     \* newEC2 of a process: not called, failed once, or has the client
    ask,        \* the question a process is looking up
    step,       \* where it is in the lookup
    got,        \* the answer, when it came and when it was given back
    faults      \* failures that may still occur

lookup    == <<ask, step, got>>
cacheVars == <<now, file, doc, client, lookup, faults>>

Unreadable == [at |-> -1, expires |-> -1]
Nothing == [at |-> 0, when |-> 0]
Once == {"unset", "nil", "ok"}
Steps == {"idle", "doc", "get", "fetch", "open", "write",
          "found", "fallback", "error", "panic"}

(* What a lookup ends with. *)
Ended == {"found", "fallback", "error"}

-----------------------------------------------------------------------------
Fault == faults > 0 /\ faults' = faults - 1

To(p, s) == step' = [step EXCEPT ![p] = s]

(* The function returns the answer it has, at this time. *)
Answer(p, at, s) ==
    /\ got' = [got EXCEPT ![p] = [at |-> at, when |-> now]]
    /\ To(p, s)
    /\ UNCHANGED ask

(* ENILimits wants the instance type first; the others look into the cache. *)
Ask(p, k) ==
    /\ ask' = [ask EXCEPT ![p] = k]
    /\ To(p, IF k = Limits THEN "doc" ELSE "get")
    /\ UNCHANGED got

(* getIDDoc calls the metadata service once.  An error is returned to the  *)
(* caller of that time; the calls after it get no document and no error.   *)
IdDocOk(p) ==
    /\ doc[p] # "nil"
    /\ doc' = [doc EXCEPT ![p] = "ok"]
    /\ UNCHANGED faults

IdDocFails(p) ==
    /\ doc[p] = "unset"
    /\ Fault
    /\ doc' = [doc EXCEPT ![p] = "nil"]

(* ENILimits falls back to default limits, with or without an error. *)
LimitsIdDoc(p) ==
    /\ step[p] = "doc"
    /\ \/ IdDocOk(p) /\ To(p, "get") /\ UNCHANGED <<ask, got>>
       \/ IdDocFails(p) /\ Answer(p, now, "fallback")
       \/ /\ doc[p] = "nil"
          /\ Answer(p, now, "fallback")
          /\ UNCHANGED <<doc, faults>>
    /\ UNCHANGED <<now, file, client>>

(* MUTANT: an entry is used whatever its expiry. *)
UsableAlways(k) == file[k] # Unreadable

(* An entry that does not expire before this time. *)
Usable(k) == file[k] # Unreadable /\ file[k].expires >= now

CacheGet(p) ==
    /\ step[p] = "get"
    /\ \/ Usable(ask[p]) /\ Answer(p, file[ask[p]].at, "found")
       \/ ~Usable(ask[p]) /\ To(p, "fetch") /\ UNCHANGED <<ask, got>>
    /\ UNCHANGED <<now, file, doc, client, faults>>

(* newEC2 makes its client once, for the region the document names. *)
HasClient(p) ==
    /\ client[p] = "ok" \/ (client[p] = "unset" /\ doc[p] # "nil")
    /\ client' = [client EXCEPT ![p] = "ok"]
    /\ doc' = [doc EXCEPT ![p] = "ok"]

ClientFails(p) ==
    /\ client[p] = "unset"
    /\ IdDocFails(p)
    /\ client' = [client EXCEPT ![p] = "nil"]

(* A document or a client that is missing is dereferenced. *)
ClientPanics(p) ==
    /\ client[p] = "nil" \/ (client[p] = "unset" /\ doc[p] = "nil")
    /\ UNCHANGED <<doc, client, faults>>

Panic(p) == To(p, "panic") /\ UNCHANGED <<ask, got>>

(* EC2 is asked, and answers or does not. *)
Describe(p, otherwise) ==
    /\ HasClient(p)
    /\ \/ Answer(p, now, "open") /\ UNCHANGED faults
       \/ Fault /\ Answer(p, now, otherwise)

(* ENILimits, which has the document: an error means the default limits. *)
DescribeInstanceTypes(p) ==
    /\ step[p] = "fetch" /\ ask[p] = Limits
    /\ Describe(p, "fallback")
    /\ UNCHANGED <<now, file>>

(* GetSubnetsForInstance gets the document itself, before the client. *)
DescribeSubnets(p) ==
    /\ step[p] = "fetch" /\ ask[p] = Subnets
    /\ \/ Describe(p, "error")
       \/ IdDocFails(p) /\ Answer(p, now, "error") /\ UNCHANGED client
       \/ ClientPanics(p) /\ Panic(p)
    /\ UNCHANGED <<now, file>>

(* DescribeVPCCIDRs and DescribeVPCPeerCIDRs. *)
DescribeVpc(p) ==
    /\ step[p] = "fetch" /\ ask[p] = Vpc
    /\ \/ Describe(p, "error")
       \/ ClientFails(p) /\ Answer(p, now, "error")
       \/ ClientPanics(p) /\ Panic(p)
    /\ UNCHANGED <<now, file>>

(* Store truncates the file when it opens it ... *)
StoreOpen(p) ==
    /\ step[p] = "open"
    /\ \/ /\ file' = [file EXCEPT ![ask[p]] = Unreadable]
          /\ To(p, "write")
          /\ UNCHANGED <<ask, got, faults>>
       \/ Fault /\ Answer(p, got[p].at, "found") /\ UNCHANGED file
    /\ UNCHANGED <<now, doc, client>>

(* Times are written without their fractions of a second. *)
Trunc(t) == t - (t % Second)

(* ... and writes it with one call, unless that fails.  The answer is      *)
(* returned in any case.                                                   *)
StoreWrite(p) ==
    /\ step[p] = "write"
    /\ \/ /\ file' = [file EXCEPT ![ask[p]] =
                        [at |-> got[p].at, expires |-> Trunc(now + Life[ask[p]])]]
          /\ UNCHANGED faults
       \/ Fault /\ UNCHANGED file
    /\ Answer(p, got[p].at, "found")
    /\ UNCHANGED <<now, doc, client>>

(* A lookup in progress.  The clock does not pass MaxCall between EC2's    *)
(* answer and its being stored.                                            *)
LookupStep(p) ==
    \/ LimitsIdDoc(p) \/ CacheGet(p)
    \/ DescribeInstanceTypes(p) \/ DescribeSubnets(p) \/ DescribeVpc(p)
    \/ StoreOpen(p) \/ StoreWrite(p)

MayTick ==
    /\ now < MaxTime
    /\ \A p \in Proc : step[p] \in {"open", "write"} => now - got[p].at < MaxCall

(* A process ends: the next one starts without a document and a client. *)
ProcessEnds(p) ==
    /\ doc' = [doc EXCEPT ![p] = "unset"]
    /\ client' = [client EXCEPT ![p] = "unset"]
    /\ ask' = [ask EXCEPT ![p] = NoKey]
    /\ step' = [step EXCEPT ![p] = "idle"]
    /\ got' = [got EXCEPT ![p] = Nothing]

CacheInit ==
    /\ now = 0
    /\ file = [k \in Key |-> Unreadable]
    /\ doc = [p \in Proc |-> "unset"]
    /\ client = [p \in Proc |-> "unset"]
    /\ ask = [p \in Proc |-> NoKey]
    /\ step = [p \in Proc |-> "idle"]
    /\ got = [p \in Proc |-> Nothing]
    /\ faults = MaxFaults

-----------------------------------------------------------------------------
(* Types: part of the type invariant of the modules that use the cache. *)
CacheTypeOK ==
    /\ now \in 0 .. MaxTime /\ faults \in 0 .. MaxFaults
    /\ file \in [Key -> [at : Int, expires : Int]]
    /\ doc \in [Proc -> Once] /\ client \in [Proc -> Once]
    /\ ask \in [Proc -> Key \cup {NoKey}] /\ step \in [Proc -> Steps]
    /\ got \in [Proc -> [at : Nat, when : Nat]]
=============================================================================
