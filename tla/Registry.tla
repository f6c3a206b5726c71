------------------------------ MODULE Registry ------------------------------
(***************************************************************************)
(* The contents of the free-address registry of aws/registry.go, as a     *)
(* function from addresses to the time each was released on, and the      *)
(* operations the Registry type offers on loaded contents.  The file that *)
(* holds the contents, and what happens when it is missing or torn, is    *)
(* part of the state of module Ipam.                                      *)
(*                                                                         *)
(* Time is a natural number of ticks; Second ticks make the one second to *)
(* which lib.JSONTime rounds a time when it is written (RFC 3339).        *)
(***************************************************************************)
EXTENDS Integers

CONSTANTS
    IP,      \* the addresses the instance's subnets can hand out
    Second   \* ticks in one second

ASSUME SecondAssumption == Second \in Nat \ {0}

(* registryIP.ReleasedOn of an address tracked at the Go epoch, and the   *)
(* absence of an entry.                                                    *)
Epoch == 0
NoEntry == -1

Registries == [IP -> Nat \cup {NoEntry}]

(* JSONTime.MarshalJSON: RFC 3339 keeps no fraction of a second. *)
Trunc(t) == t - (t % Second)

(* defaultRegistry: also what load() makes of an undecodable file. *)
EmptyReg == [ip \in IP |-> NoEntry]

(* load() of a missing file, once FindFreeIPsAtIndex returned `free'. *)
Prefilled(free) == [ip \in IP |-> IF ip \in free THEN Epoch ELSE NoEntry]

HasIP(r, ip) == r[ip] # NoEntry

(* MUTANT: an address that is tracked already keeps its time. *)
TrackIPKeeping(r, ips, t) ==
    [ip \in IP |-> IF ip \in ips /\ r[ip] = NoEntry THEN Trunc(t) ELSE r[ip]]

(* TrackIP, for a set of addresses tracked at the same time. *)
TrackIP(r, ips, t) == [ip \in IP |-> IF ip \in ips THEN Trunc(t) ELSE r[ip]]

TrackIPAtEpoch(r, ips) == [ip \in IP |-> IF ip \in ips THEN Epoch ELSE r[ip]]

(* MUTANT: the entry is removed from the loaded contents only. *)
ForgetIPUnsaved(r, ip) == r

ForgetIP(r, ip) == [r EXCEPT ![ip] = NoEntry]

(* TrackedBefore compares the stored, truncated time with an exact one. *)
TrackedBefore(r, t) == {ip \in IP : HasIP(r, ip) /\ r[ip] < t}
=============================================================================
