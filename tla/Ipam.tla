-------------------------------- MODULE Ipam --------------------------------
(***************************************************************************)
(* internal/ipam: the allocator that hands the host addresses of an IPv4   *)
(* pool to devices.  An address is an integer of Width bits (32 in the     *)
(* code); a network is a base address and a prefix length, as             *)
(* net.ParseCIDR returns them.  Every method runs under the allocator's    *)
(* mutex, so every method is one action.                                   *)
(***************************************************************************)
EXTENDS Integers, FiniteSets

CONSTANT Width          \* bits of an address

ASSUME WidthAssumption == Width \in Nat \ {0}

VARIABLES
  network,              \* [base, ones]: the pool
  serverIP,             \* the gateway's own address
  used,                 \* addresses marked as taken
  held                  \* addresses callers were given and have not returned

vars == <<network, serverIP, used, held>>

(* Powers of two. *)
pow2[k \in 0 .. Width] == IF k = 0 THEN 1 ELSE 2 * pow2[k - 1]

Addresses == 0 .. (pow2[Width] - 1)
Size(n) == pow2[Width - n.ones]
Networks == {n \in [base : Addresses, ones : 0 .. Width] : n.base % Size(n) = 0}

Contains(n, ip) == ip \div Size(n) = n.base \div Size(n)

NeverBroadcast(ip, n) == FALSE                                     \* mutant
isBroadcast(ip, n) == ip = n.base + (Size(n) - 1)

(***************************************************************************)
(* next increments the octets from the last, carrying while one wraps to   *)
(* zero: addition modulo 2^Width.                                          *)
(***************************************************************************)
NextUnwrapped(ip) == ip + 1                                        \* mutant
next(ip) == (ip + 1) % pow2[Width]

firstHost(n) == next(n.base)

(***************************************************************************)
(* The loop of Allocate from ip on: the set of the address it returns,     *)
(* empty when the loop ends without one.                                   *)
(***************************************************************************)
ScanFrom(n, u) ==
  LET scan[ip \in Addresses] ==
        IF ~Contains(n, ip) \/ isBroadcast(ip, n) THEN {}
        ELSE IF ip \notin u THEN {ip}
        ELSE scan[next(ip)]
  IN  scan[firstHost(n)]

Init ==
  /\ network \in Networks
  /\ serverIP = firstHost(network)
  /\ used = {serverIP}
  /\ held = {}

Allocate ==
  \E ip \in ScanFrom(network, used) :
    /\ used' = used \cup {ip}
    /\ held' = held \cup {ip}
    /\ UNCHANGED <<network, serverIP>>

ReserveUnchecked(ip) ==                                            \* mutant
  /\ Contains(network, ip)
  /\ used' = used \cup {ip}
  /\ held' = held \cup {ip}
  /\ UNCHANGED <<network, serverIP>>

Reserve(ip) ==
  /\ Contains(network, ip)
  /\ ip \notin used
  /\ used' = used \cup {ip}
  /\ held' = held \cup {ip}
  /\ UNCHANGED <<network, serverIP>>

(***************************************************************************)
(* Callers return what they were given; what goes wrong when one returns   *)
(* an address twice is a question for ControlPlane.                        *)
(***************************************************************************)
Release(ip) ==
  /\ ip \in held
  /\ used' = used \ {ip}
  /\ held' = held \ {ip}
  /\ UNCHANGED <<network, serverIP>>

Next ==
  \/ Allocate
  \/ \E ip \in Addresses : Reserve(ip) \/ Release(ip)

Spec == Init /\ [][Next]_vars

-----------------------------------------------------------------------------

(* The host addresses of a pool, by their definition: every address but   *)
(* the network's own and the broadcast address.                            *)
Hosts(n) == {ip \in Addresses : n.base < ip /\ ip < n.base + Size(n) - 1}

(* The address the allocator should hand out: the lowest free host.       *)
LowestFree(n, u) ==
  {ip \in Hosts(n) \ u : \A other \in Hosts(n) \ u : ip <= other}

(* Types: no address computed leaves the address space.                    *)
TypeOK ==
  /\ network \in Networks
  /\ serverIP \in Addresses
  /\ used \subseteq Addresses
  /\ held \subseteq Addresses

(* The loop of Allocate, with its carry, its end at the broadcast address  *)
(* and its end outside the network, returns the lowest free host for every *)
(* pool down to /31 and /32, and fails exactly when no host is free.       *)
AllocateReturnsLowestFree ==
  ScanFrom(network, used) = LowestFree(network, used)

(* Whatever callers allocate, reserve and return, the gateway's own        *)
(* address is never among what they hold, so no peer is given it.          *)
ServerAddressNeverHandedOut ==
  serverIP \in used /\ serverIP \notin held

=============================================================================
