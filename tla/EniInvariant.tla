---------------------------- MODULE EniInvariant ----------------------------
(***************************************************************************)
(* The inductive invariant of Eni: what holds between two steps and makes *)
(* the properties of Eni hold after the next one.  EniProofs proves that   *)
(* it is inductive.                                                        *)
(***************************************************************************)
EXTENDS Eni

(* The lookup of a process: an answer that is being stored is at most one  *)
(* call old, and one that is returned at most its lifetime and one call.   *)
AnswerSound(p) ==
    /\ step[p] \notin {"idle", "panic"} => ask[p] \in Key
    /\ step[p] \in {"open", "write"} => got[p].at <= now /\ now <= got[p].at + MaxCall
    /\ step[p] = "found" => got[p].when - got[p].at <= Life[ask[p]] + MaxCall

(* An entry of the cache expires at most its lifetime and one call after   *)
(* EC2 gave the answer.                                                    *)
EntrySound(k) ==
    file[k] # Unreadable =>
        /\ file[k].at \in Nat
        /\ file[k].expires <= file[k].at + MaxCall + Life[k]

CacheInv ==
    /\ \A p \in Proc : AnswerSound(p)
    /\ \A k \in Key : EntrySound(k)

(* The interface a command works on, and what EC2 has made of it so far. *)
Working ==
    /\ op \in {"idle", "subnets", "limits", "client", "batch", "create"}
          <=> cur = NoEni
    /\ op \in {"attach", "cleanup", "delete"} => status[cur] = "available"
    /\ op \in {"modify", "poll"} => status[cur] = "in-use"
    /\ op = "wait" => status[cur] \in {"detaching", "available"}

(* The command at work will see to the interface, or say that it could not. *)
SeenTo(e) == cur = e /\ op \in {"attach", "cleanup", "modify", "wait", "delete"}

(* Every interface is gone, goes with the instance, had a mishap, or is    *)
(* being seen to.  A detachment nobody waits for has had one, so that its  *)
(* completion, which takes the mark off, leaves nothing unexplained.       *)
Accounting ==
    /\ \A e \in Interface : \/ status[e] = "absent"
                            \/ e \in marked \cup hurt
                            \/ SeenTo(e)
    /\ \A e \in Interface : status[e] = "detaching" =>
          e \in hurt \/ (cur = e /\ op = "wait")

(* While no interface has been removed: the metadata shows no interface    *)
(* that is not attached, so that the chosen device index is at most the    *)
(* first free one, and that one is free unless an attachment was missed.   *)
Indexing ==
    ~removed =>
        /\ \A e \in Interface : status[e] # "detaching"
        /\ op \notin {"wait", "delete"}
        /\ shown \subseteq Attached
        /\ op \in {"limits", "client", "batch", "create", "attach"} =>
              at >= 1 /\ at <= Cardinality(Attached) + 1
        /\ {index[e] : e \in Attached} = 1 .. Cardinality(Attached)

EniInv == TypeOK /\ CacheInv /\ Working /\ Accounting /\ Indexing
=============================================================================
