------------------------- MODULE ControlPlaneProofs -------------------------
(***************************************************************************)
(* Properties of ControlPlane that hold in every interleaving, proved for  *)
(* every set of keys, people, tenants, goroutines and addresses, with any  *)
(* faults, with or without a registry.                                     *)
(***************************************************************************)
EXTENDS ControlPlane, TLAPS

(* Setting a key of a map: the entry set is the one given, the others stay. *)
LEMMA SetMap ==
  ASSUME NEW S, NEW T, NEW m, IsMap(m, S, T), NEW k \in S, NEW v \in T
  PROVE  /\ IsMap(Set(m, k, v), S, T)
         /\ DOMAIN Set(m, k, v) = DOMAIN m \cup {k}
         /\ Set(m, k, v)[k] = v
         /\ \A x \in DOMAIN m \ {k} : Set(m, k, v)[x] = m[x]
BY Zenon DEF IsMap, Set

(* Unsetting a key of a map leaves the other entries as they are. *)
LEMMA UnsetMap ==
  ASSUME NEW S, NEW T, NEW m, IsMap(m, S, T), NEW k
  PROVE  /\ IsMap(Unset(m, k), S, T)
         /\ DOMAIN Unset(m, k) = DOMAIN m \ {k}
         /\ \A x \in DOMAIN m \ {k} : Unset(m, k)[x] = m[x]
BY Zenon DEF IsMap, Unset

(* The empty map is a map between any two sets. *)
LEMMA EmptyMap ==
  ASSUME NEW S, NEW T
  PROVE  IsMap(Empty, S, T) /\ DOMAIN Empty = {}
BY Zenon DEF IsMap, Empty

(* Replacing the entry of a key a map has. *)
LEMMA ExceptMap ==
  ASSUME NEW S, NEW T, NEW m, IsMap(m, S, T), NEW k \in DOMAIN m, NEW v \in T
  PROVE  /\ IsMap([m EXCEPT ![k] = v], S, T)
         /\ DOMAIN [m EXCEPT ![k] = v] = DOMAIN m
         /\ [m EXCEPT ![k] = v][k] = v
         /\ \A x \in DOMAIN m \ {k} : [m EXCEPT ![k] = v][x] = m[x]
BY Zenon DEF IsMap

(* An entry of a map is of the map's type. *)
LEMMA EntryOf ==
  ASSUME NEW S, NEW T, NEW m, IsMap(m, S, T), NEW x \in DOMAIN m
  PROVE  x \in S /\ m[x] \in T
BY Zenon DEF IsMap

(* Removing a set of keys from the device keeps it a map. *)
LEMMA WithoutMap ==
  ASSUME NEW S, NEW T, NEW m, IsMap(m, S, T), NEW gone
  PROVE  /\ IsMap(Without(m, gone), S, T)
         /\ DOMAIN Without(m, gone) = DOMAIN m \ gone
         /\ \A x \in DOMAIN m \ gone : Without(m, gone)[x] = m[x]
BY Zenon DEF IsMap, Without

(* The device stays a map to sets of addresses when a peer is added. *)
LEMMA WithPeerMap ==
  ASSUME NEW d, IsMap(d, DeviceKeys, SUBSET AllowedIPs),
         NEW k \in Keys, NEW ip \in Hosts
  PROVE  /\ IsMap(WithPeer(d, k, ip), DeviceKeys, SUBSET AllowedIPs)
         /\ DOMAIN WithPeer(d, k, ip) = DOMAIN d \cup {k}
         /\ WithPeer(d, k, ip)[k] = {ip}
         /\ \A x \in DOMAIN d \ {k} : WithPeer(d, k, ip)[x] = d[x] \ {ip}
BY Zenon DEF IsMap, WithPeer, DeviceKeys, AllowedIPs

(* The snapshots of the loops hold the key, owner and address of peers. *)
LEMMA SnapshotType ==
  ASSUME IsMap(store, Keys, Peer), NEW K \in SUBSET DOMAIN store
  PROVE  Snapshot(K) \in SUBSET Target
<1>1. \A k \in K : k \in Keys /\ store[k] \in Peer
  BY Zenon, EntryOf
<1>2. \A k \in K : [key |-> k, subject |-> store[k].subject, ip |-> store[k].ip]
                    \in Target
  BY Zenon, <1>1 DEF Target, Peer
<1> QED BY Zenon, <1>2 DEF Snapshot

(* The lease registered allows is a time. *)
LEMMA LeaseEndType ==
  ASSUME TypeOK, NEW k, NEW s, Registered(k, s)
  PROVE  LeaseEnd(k) \in Nat
<1>1. now + LeaseTTL \in Nat
  BY ConstantsAssumption DEF TypeOK
<1>2. Registry => list.reg[k] \in Registration
  BY Zenon, EntryOf DEF TypeOK, Registered, Allowed, Lookup
<1>3. Registry => list.reg[k].end \in Nat
  BY Zenon, <1>2 DEF Registration
<1> QED BY Zenon, <1>1, <1>3 DEF LeaseEnd

(* Every operation keeps the variables in their types (TypeOK). *)
LEMMA TypeStep == ASSUME TypeOK, [Next]_vars PROVE TypeOK'
<1> USE ConstantsAssumption DEF TypeOK, memory, provider
<1>1. ASSUME NEW t \in Threads, Arrive(t) PROVE TypeOK'
  <2>0. t \in Procs
    BY Zenon DEF Procs
  <2>1. ASSUME NEW k \in Keys, NEW s \in Subjects, NEW asked \in Asked,
               Enroll(t, k, s, asked)
        PROVE  TypeOK'
    <3>1. LeaseEnd(k) \in Nat
      BY Zenon, <2>1, LeaseEndType DEF Enroll
    <3>2. [call |-> "tenant", key |-> k, subject |-> s, ip |-> NoIP,
           lease |-> LeaseEnd(k), tenant |-> asked] \in Job
      BY Zenon, <3>1 DEF Job, Calls, WithAddress, WithTenant
    <3>3. IsMap(job', Procs, Job)
      BY Zenon, <2>0, <2>1, <3>2, SetMap DEF Enroll
    <3> QED BY Zenon, <2>1, <3>3 DEF Enroll
  <2>2. ASSUME NEW k \in Keys, NEW s \in Subjects, Heartbeat(t, k, s)
        PROVE  TypeOK'
    <3>1. store[k] \in Peer
      BY Zenon, <2>2, EntryOf DEF Heartbeat, OwnedBy
    <3>2. [call |-> "member", key |-> k, subject |-> s, ip |-> NoIP,
           lease |-> 0, tenant |-> store[k].tenant] \in Job
      BY Zenon, <3>1 DEF Job, Calls, WithAddress, WithTenant, Peer
    <3>3. IsMap(job', Procs, Job)
      BY ZenonT(30), <2>0, <2>2, <3>2, SetMap DEF Heartbeat
    <3> QED BY Zenon, <2>2, <3>3 DEF Heartbeat
  <2>3. ASSUME NEW k \in Keys, NEW s \in Subjects, Deregister(t, k, s)
        PROVE  TypeOK'
    <3>1. store[k] \in Peer
      BY Zenon, <2>3, EntryOf DEF Deregister, OwnedBy
    <3>2. Dropping(k, s, store[k].ip) \in Job
      BY Zenon, <3>1 DEF Job, Calls, WithAddress, WithTenant, Peer, Dropping
    <3>3. IsMap(job', Procs, Job)
      BY Zenon, <2>0, <2>3, <3>2, SetMap DEF Deregister
    <3> QED BY Zenon, <2>3, <3>3 DEF Deregister
  <2> QED BY Zenon, <1>1, <2>1, <2>2, <2>3 DEF Arrive
<1>2. ASSUME NEW p \in Procs, Drop(p) PROVE TypeOK'
  <2>0. p \in DOMAIN job /\ job[p] \in Job
    BY Zenon, <1>2, EntryOf DEF Drop, RemovePeer, DeletePeer, ReleaseIP, At
  <2>1. CASE RemovePeer(p)
    <3>1. [job[p] EXCEPT !.call = "delete"] \in Job
      BY Zenon, <2>0, <2>1 DEF RemovePeer, At, Job, Calls, WithAddress, WithTenant
    <3>2. IsMap(job', Procs, Job)
      BY Zenon, <2>0, <2>1, <3>1, ExceptMap DEF RemovePeer
    <3>3. IsMap(WithoutPeer(device, job[p].key), DeviceKeys, SUBSET AllowedIPs)
      BY Zenon, UnsetMap DEF WithoutPeer
    <3> QED BY Zenon, <2>1, <3>2, <3>3 DEF RemovePeer
  <2>2. CASE DeletePeer(p)
    <3>1. [job[p] EXCEPT !.call = "release"] \in Job
      BY Zenon, <2>0, <2>2 DEF DeletePeer, At, Job, Calls, WithAddress, WithTenant
    <3>2. IsMap(job', Procs, Job)
      BY Zenon, <2>0, <2>2, <3>1, ExceptMap DEF DeletePeer
    <3> QED BY Zenon, <2>2, <3>2, UnsetMap DEF DeletePeer
  <2>3. CASE ReleaseIP(p)
    BY ZenonT(30), <2>3, UnsetMap DEF ReleaseIP, Released, Return
  <2> QED BY Zenon, <1>2, <2>1, <2>2, <2>3 DEF Drop
<1>3. ASSUME NEW t \in Threads, Serve(t) PROVE TypeOK'
  <2>0. t \in Procs
    BY Zenon DEF Procs
  <2>d. CASE Drop(t)
    BY Zenon, <2>0, <2>d, <1>2
  <2> SUFFICES ASSUME ~Drop(t) PROVE TypeOK'
    BY Zenon, <2>d
  <2>t. t \in DOMAIN job /\ job[t] \in Job
    BY Zenon, <1>3, EntryOf
    DEF Serve, ChooseTenant, GetPeer, Allocate, AddPeer, AddPeerFails,
        UndoAllocate, Put, CheckMember, CheckRegistered, Renew, At
  <2>r. IsMap(Unset(job, t), Procs, Job)
    BY Zenon, UnsetMap
  <2>1. CASE ChooseTenant(t)
    <3>1. ASSUME NEW n \in Choices(job[t].subject, job[t].tenant)
          PROVE  [job[t] EXCEPT !.call = "get", !.tenant = n] \in Job
      BY Zenon, <2>t DEF Choices, Job, Calls, WithAddress, WithTenant
    <3>2. ASSUME NEW n \in Choices(job[t].subject, job[t].tenant),
                 job' = [job EXCEPT ![t].call = "get", ![t].tenant = n]
          PROVE  IsMap(job', Procs, Job)
      <4>1. IsMap([job EXCEPT ![t] = [job[t] EXCEPT !.call = "get", !.tenant = n]],
                  Procs, Job)
        BY Zenon, <2>t, <3>1, ExceptMap
      <4> QED BY Zenon, <3>2, <4>1
    <3>3. IsMap(job', Procs, Job)
      BY Zenon, <2>r, <2>1, <3>2 DEF ChooseTenant, Return
    <3> QED BY Zenon, <2>1, <3>3 DEF ChooseTenant
  <2>2. CASE GetPeer(t)
    <3>1. ASSUME job[t].key \in DOMAIN store
          PROVE  [job[t] EXCEPT !.call = "readd", !.ip = store[job[t].key].ip] \in Job
      <4>1. store[job[t].key] \in Peer
        BY <3>1, EntryOf
      <4> QED BY Zenon, <2>t, <2>2, <4>1
        DEF GetPeer, At, Job, Calls, WithAddress, WithTenant, Peer
    <3>2. [job[t] EXCEPT !.call = "allocate"] \in Job
      BY Zenon, <2>t, <2>2 DEF GetPeer, At, Job, Calls, WithAddress, WithTenant
    <3>3. IsMap(job', Procs, Job)
      BY <2>t, <2>r, <2>2, <3>1, <3>2, ExceptMap DEF GetPeer, Return, OwnedBy
    <3> QED BY Zenon, <2>2, <3>3 DEF GetPeer
  <2>3. CASE Allocate(t)
    <3>1. ASSUME NEW ip \in Hosts
          PROVE  [job[t] EXCEPT !.call = "add", !.ip = ip] \in Job
      BY Zenon, <2>t, <2>3 DEF Allocate, At, Job, Calls, WithAddress, WithTenant
    <3>2. ASSUME NEW ip \in Hosts,
                 job' = [job EXCEPT ![t].call = "add", ![t].ip = ip]
          PROVE  IsMap(job', Procs, Job)
      <4>1. IsMap([job EXCEPT ![t] = [job[t] EXCEPT !.call = "add", !.ip = ip]],
                  Procs, Job)
        BY Zenon, <2>t, <3>1, ExceptMap
      <4> QED BY Zenon, <3>2, <4>1
    <3>3. IsMap(job', Procs, Job)
      BY Zenon, <2>r, <2>3, <3>2 DEF Allocate, Return, FreeIn
    <3> QED BY Zenon, <2>3, <3>3 DEF Allocate, FreeIn, Marked
  <2>4. CASE AddPeer(t)
    <3>1. [job[t] EXCEPT !.call = "put"] \in Job
      BY Zenon, <2>t, <2>4 DEF AddPeer, At, Job, Calls, WithAddress, WithTenant
    <3>2. IsMap(job', Procs, Job)
      BY Zenon, <2>t, <2>4, <3>1, ExceptMap DEF AddPeer
    <3>3. job[t].key \in Keys /\ job[t].ip \in Hosts
      BY Zenon, <2>t, <2>4 DEF AddPeer, At, Job, WithAddress
    <3>4. IsMap(WithPeer(device, job[t].key, job[t].ip), DeviceKeys, SUBSET AllowedIPs)
      BY Zenon, <3>3, WithPeerMap
    <3> QED BY Zenon, <2>4, <3>2, <3>4 DEF AddPeer
  <2>5. CASE AddPeerFails(t)
    <3>1. [job[t] EXCEPT !.call = "undo"] \in Job
      BY Zenon, <2>t, <2>5 DEF AddPeerFails, At, Job, Calls, WithAddress, WithTenant
    <3>2. IsMap(job', Procs, Job)
      BY Zenon, <2>t, <2>5, <3>1, ExceptMap DEF AddPeerFails
    <3> QED BY Zenon, <2>5, <3>2 DEF AddPeerFails
  <2>6. CASE UndoAllocate(t)
    BY Zenon, <2>r, <2>6 DEF UndoAllocate, Released, Return
  <2>7. CASE Put(t)
    <3>1. [subject |-> job[t].subject, ip |-> job[t].ip,
           lease |-> job[t].lease, tenant |-> job[t].tenant] \in Peer
      BY Zenon, <2>t, <2>7 DEF Put, At, Job, WithAddress, WithTenant, Peer
    <3>2. job[t].key \in Keys
      BY Zenon, <2>t DEF Job
    <3>3. IsMap(store', Keys, Peer)
      BY ZenonT(30), <2>7, <3>1, <3>2, SetMap DEF Put
    <3> QED BY Zenon, <2>r, <2>7, <3>3 DEF Put, Return
  <2>8. CASE CheckMember(t)
    <3>1. [job[t] EXCEPT !.call = "check"] \in Job
      BY Zenon, <2>t DEF Job, Calls, WithAddress, WithTenant
    <3>2. IsMap(job', Procs, Job)
      BY <2>t, <2>r, <2>8, <3>1, ExceptMap DEF CheckMember, Return
    <3> QED BY Zenon, <2>8, <3>2 DEF CheckMember
  <2>9. CASE CheckRegistered(t)
    <3>1. ASSUME Registered(job[t].key, job[t].subject)
          PROVE  [job[t] EXCEPT !.call = "renew", !.lease = LeaseEnd(job[t].key)] \in Job
      BY Zenon, <2>t, <3>1, LeaseEndType DEF Job, Calls, WithAddress, WithTenant
    <3>2. IsMap(job', Procs, Job)
      BY <2>t, <2>r, <2>9, <3>1, ExceptMap DEF CheckRegistered, Return
    <3> QED BY Zenon, <2>9, <3>2 DEF CheckRegistered
  <2>10. CASE Renew(t)
    <3>1. ASSUME job[t].key \in DOMAIN store
          PROVE  [store[job[t].key] EXCEPT !.lease = job[t].lease] \in Peer
      <4>1. store[job[t].key] \in Peer
        BY <3>1, EntryOf
      <4> QED BY Zenon, <2>t, <4>1 DEF Job, Peer
    <3>2. IsMap(store', Keys, Peer)
      BY <2>10, <3>1, ExceptMap DEF Renew
    <3> QED BY Zenon, <2>r, <2>10, <3>2 DEF Renew, Return
  <2> QED BY Zenon, <1>3, <2>1, <2>2, <2>3, <2>4, <2>5, <2>6, <2>7, <2>8, <2>9,
                <2>10
    DEF Serve
<1>4. CASE ReapExpired
  <2>1. Snapshot({k \in DOMAIN store : Expired(k)}) \in SUBSET Target
    BY Zenon, SnapshotType
  <2> QED BY Zenon, <1>4, <2>1 DEF ReapExpired, Loops
<1>5. CASE Refresh
  BY <1>5 DEF Refresh
<1>6. CASE Reconcile
  <2>1. Snapshot(DOMAIN store) \in SUBSET Target
    BY Zenon, SnapshotType
  <2> QED BY Zenon, <1>6, <2>1 DEF Reconcile, Loops
<1>7. ASSUME NEW p \in Loops, NextPeer(p) PROVE TypeOK'
  <2>1. PICK x \in todo[p] :
          /\ todo' = [todo EXCEPT ![p] = @ \ {x}]
          /\ IF p = "syncer" /\ StillAllowed(x)
             THEN UNCHANGED job
             ELSE job' = Set(job, p, Dropping(x.key, x.subject, x.ip))
    BY Zenon, <1>7 DEF NextPeer
  <2>2. x \in Target /\ p \in Procs
    BY Zenon DEF Procs
  <2>3. Dropping(x.key, x.subject, x.ip) \in Job
    BY Zenon, <2>2 DEF Dropping, Job, Calls, WithAddress, WithTenant, Target
  <2>4. IsMap(job', Procs, Job)
    <3>1. IsMap(Set(job, p, Dropping(x.key, x.subject, x.ip)), Procs, Job)
      BY Zenon, <2>2, <2>3, SetMap
    <3> QED BY Zenon, <2>1, <3>1
  <2>5. todo' \in [Loops -> SUBSET Target]
    BY Zenon, <2>1
  <2> QED BY Zenon, <1>7, <2>4, <2>5 DEF NextPeer
<1>8. CASE StartUp
  <2>1. IsMap(Without(device, OursOnDevice), DeviceKeys, SUBSET AllowedIPs)
    BY Zenon, WithoutMap
  <2>2. NoList.expires \in Nat /\ IsMap(NoList.reg, Keys, Registration)
    BY Zenon, EmptyMap DEF NoList
  <2>3. list'.expires \in Nat /\ IsMap(list'.reg, Keys, Registration)
    BY <1>8, <2>2 DEF StartUp
  <2> QED BY Zenon, <1>8, <2>1, <2>3 DEF StartUp, NewPool
<1>9. CASE Environment
  <2>1. CASE StartFails
    <3>1. \A gone : IsMap(Without(device, gone), DeviceKeys, SUBSET AllowedIPs)
      BY Zenon, WithoutMap
    <3> QED BY Zenon, <2>1, <3>1 DEF StartFails
  <2>2. CASE Crash
    <3>1. NoList.expires \in Nat /\ IsMap(NoList.reg, Keys, Registration)
      BY Zenon, EmptyMap DEF NoList
    <3>2. IsMap(Empty, Keys, Peer) /\ IsMap(Empty, Procs, Job)
      BY Zenon, EmptyMap
    <3> QED BY Zenon, <2>2, <3>1, <3>2 DEF Crash
  <2>3. CASE Tick
    BY <2>3 DEF Tick
  <2>4. ASSUME NEW k \in Keys, TakeBack(k) PROVE TypeOK'
    BY Zenon, <2>4, UnsetMap DEF TakeBack
  <2>5. ASSUME NEW k \in Keys, NEW s \in Subjects, Register(k, s) PROVE TypeOK'
    <3>1. [subject |-> s, end |-> now + RegTTL] \in Registration
      BY DEF Registration
    <3>2. IsMap(reg', Keys, Registration)
      BY Zenon, <2>5, <3>1, SetMap DEF Register
    <3> QED BY <2>5, <3>2 DEF Register
  <2>6. ASSUME NEW s \in Subjects, NEW T \in (SUBSET Tenants) \ {{}},
               ChangeTenancy(s, T)
        PROVE  TypeOK'
    BY Zenon, <2>6 DEF ChangeTenancy
  <2> QED BY Zenon, <1>9, <2>1, <2>2, <2>3, <2>4, <2>5, <2>6 DEF Environment
<1>10. CASE UNCHANGED vars
  BY Zenon, <1>10 DEF vars
<1> QED
  BY Zenon, <1>1, <1>2, <1>3, <1>4, <1>5, <1>6, <1>7, <1>8, <1>9, <1>10
  DEF Next, Walk, Procs

(* Whatever operations, faults and restarts happen, the store, the pool,   *)
(* the device, the key list and the operations in flight stay well formed: *)
(* an operation that programs the device or stores a peer has an address   *)
(* of the pool in hand, and one that stores a peer has a tenant.           *)
THEOREM TypeCorrect == Spec => []TypeOK
<1>1. Init => TypeOK
  <2> SUFFICES ASSUME Init PROVE TypeOK
    BY Zenon
  <2>1. /\ IsMap(Empty, Keys, Peer) /\ IsMap(Empty, Procs, Job)
        /\ IsMap(Empty, Keys, Registration)
    BY Zenon, EmptyMap
  <2>2. IsMap(ByHand, DeviceKeys, SUBSET AllowedIPs)
    BY Zenon, ByHandAssumption DEF IsMap, DeviceKeys, AllowedIPs
  <2> QED BY Zenon, <2>1, <2>2, ConstantsAssumption DEF Init, TypeOK, NoList
<1> QED BY <1>1, TypeStep, PTL DEF Spec

-----------------------------------------------------------------------------
(* The gateway's address. *)

(* ServerAddressReserved is not inductive: an operation in flight carries  *)
(* the address it will program, store or release.  No such address is the  *)
(* gateway's, nor is one in a loop's snapshot.                             *)
ServerInv ==
  /\ ServerAddressReserved
  /\ \A p \in DOMAIN job : job[p].ip # ServerIP
  /\ \A p \in Loops : \A x \in todo[p] : x.ip # ServerIP

(* Every operation keeps ServerInv. *)
LEMMA ServerStep == ASSUME TypeOK, ServerInv, [Next]_vars PROVE ServerInv'
<1> USE ConstantsAssumption DEF ServerInv, ServerAddressReserved, memory, provider
<1>1. ASSUME NEW t \in Threads, Arrive(t) PROVE ServerInv'
  BY <1>1
  DEF Arrive, Enroll, Heartbeat, Deregister, Dropping, OwnedBy, Set, NoIP
<1>2. ASSUME NEW p \in Procs, Drop(p) PROVE ServerInv'
  <2>0. p \in DOMAIN job /\ job[p] \in Job
    BY Zenon, <1>2, EntryOf DEF Drop, RemovePeer, DeletePeer, ReleaseIP, At, TypeOK
  <2>1. CASE RemovePeer(p)
    BY Zenon, <2>0, <2>1 DEF RemovePeer, WithoutPeer, Unset, Job
  <2>2. CASE DeletePeer(p)
    BY Zenon, <2>0, <2>2 DEF DeletePeer, Unset, Job
  <2>3. CASE ReleaseIP(p)
    BY Zenon, <2>0, <2>3 DEF ReleaseIP, Released, Return, Unset
  <2> QED BY Zenon, <1>2, <2>1, <2>2, <2>3 DEF Drop
<1>3. ASSUME NEW t \in Threads, Serve(t) PROVE ServerInv'
  <2>d. CASE Drop(t)
    BY Zenon, <2>d, <1>2 DEF Procs
  <2> SUFFICES ASSUME ~Drop(t) PROVE ServerInv'
    BY Zenon, <2>d
  <2>t. t \in DOMAIN job /\ job[t] \in Job
    BY Zenon, <1>3, EntryOf
    DEF TypeOK, Serve, ChooseTenant, GetPeer, Allocate, AddPeer, AddPeerFails,
        UndoAllocate, Put, CheckMember, CheckRegistered, Renew, At
  <2>1. CASE ChooseTenant(t)
    <3>1. ASSUME NEW n, job' = [job EXCEPT ![t].call = "get", ![t].tenant = n]
          PROVE  \A p \in DOMAIN job' : job'[p].ip # ServerIP
      BY Zenon, <2>t, <3>1 DEF Job
    <3>2. Return(t) => \A p \in DOMAIN job' : job'[p].ip # ServerIP
      BY Zenon DEF Return, Unset
    <3> QED BY Zenon, <2>1, <3>1, <3>2 DEF ChooseTenant
  <2>2. CASE GetPeer(t)
    BY <2>t, <2>2 DEF GetPeer, OwnedBy, Return, Unset, Job
  <2>3. CASE Allocate(t)
    <3>1. ASSUME NEW ip, ip # ServerIP,
                 job' = [job EXCEPT ![t].call = "add", ![t].ip = ip]
          PROVE  \A p \in DOMAIN job' : job'[p].ip # ServerIP
      BY Zenon, <2>t, <3>1 DEF Job
    <3>2. Return(t) => \A p \in DOMAIN job' : job'[p].ip # ServerIP
      BY Zenon DEF Return, Unset
    <3>3. ServerIP \in used /\ ServerIP \notin FreeIn(used)
      BY Zenon, <2>3 DEF Allocate, At, FreeIn
    <3> QED BY Zenon, <2>3, <3>1, <3>2, <3>3 DEF Allocate, Marked
  <2>4. CASE AddPeer(t)
    BY Zenon, <2>t, <2>4 DEF AddPeer, WithPeer, Job
  <2>5. CASE AddPeerFails(t)
    BY Zenon, <2>t, <2>5 DEF AddPeerFails, Job
  <2>6. CASE UndoAllocate(t)
    BY Zenon, <2>t, <2>6 DEF UndoAllocate, Released, Return, Unset
  <2>7. CASE Put(t)
    BY Zenon, <2>t, <2>7 DEF Put, Set, Return, Unset
  <2>8. CASE CheckMember(t)
    BY <2>t, <2>8 DEF CheckMember, Return, Unset, Job
  <2>9. CASE CheckRegistered(t)
    BY <2>t, <2>9 DEF CheckRegistered, Return, Unset, Job
  <2>10. CASE Renew(t)
    <3>1. \A k \in DOMAIN store : store[k] \in Peer
      BY Zenon, EntryOf DEF TypeOK
    <3> QED BY Zenon, <2>t, <2>10, <3>1 DEF Renew, Return, Unset, Peer
  <2> QED BY Zenon, <1>3, <2>1, <2>2, <2>3, <2>4, <2>5, <2>6, <2>7, <2>8, <2>9, <2>10
    DEF Serve
<1>4. CASE ReapExpired
  BY <1>4 DEF ReapExpired, Snapshot, TypeOK
<1>5. CASE Refresh
  BY Zenon, <1>5 DEF Refresh
<1>6. CASE Reconcile
  BY <1>6 DEF Reconcile, Snapshot, TypeOK
<1>7. ASSUME NEW p \in Loops, NextPeer(p) PROVE ServerInv'
  BY <1>7 DEF NextPeer, Set, Dropping, TypeOK
<1>8. CASE StartUp
  BY Zenon, <1>8 DEF StartUp, NewPool, Without
<1>9. CASE Environment
  <2>1. CASE StartFails
    BY Zenon, <2>1 DEF StartFails, Without
  <2>2. CASE Crash
    BY Zenon, <2>2 DEF Crash, Empty
  <2>3. CASE Tick
    BY Zenon, <2>3 DEF Tick
  <2>4. ASSUME NEW k \in Keys, TakeBack(k) PROVE ServerInv'
    BY Zenon, <2>4 DEF TakeBack
  <2>5. ASSUME NEW k \in Keys, NEW s \in Subjects, Register(k, s)
        PROVE  ServerInv'
    BY Zenon, <2>5 DEF Register
  <2>6. ASSUME NEW s \in Subjects, NEW T, ChangeTenancy(s, T) PROVE ServerInv'
    BY Zenon, <2>6 DEF ChangeTenancy
  <2> QED BY Zenon, <1>9, <2>1, <2>2, <2>3, <2>4, <2>5, <2>6 DEF Environment
<1>10. CASE UNCHANGED vars
  BY Zenon, <1>10 DEF vars
<1> QED
  BY Zenon, <1>1, <1>2, <1>3, <1>4, <1>5, <1>6, <1>7, <1>8, <1>9, <1>10
  DEF Next, Walk, Procs

(* In every interleaving the gateway's own address is kept out of the      *)
(* pool's hands: no device is ever given it, stored with it or routed it,  *)
(* whatever fails and however often the server restarts                    *)
(* (ServerAddressReserved).                                                *)
THEOREM ServerAddressStaysReserved == Spec => []ServerAddressReserved
<1>1. Init => ServerInv
  BY Zenon, ConstantsAssumption, ByHandAssumption
  DEF Init, ServerInv, ServerAddressReserved, Empty
<1>2. TypeOK /\ ServerInv /\ [Next]_vars => ServerInv'
  BY Zenon, ServerStep
<1>3. ServerInv => ServerAddressReserved
  BY DEF ServerInv
<1> QED BY <1>1, <1>2, <1>3, TypeCorrect, PTL DEF Spec

-----------------------------------------------------------------------------
(* Leases and registrations. *)

(* LeaseWithinRegistration is not inductive either: a handler computes a   *)
(* lease from the list and stores it later, and the list is a copy of the  *)
(* provider's registrations.  What is bounded by the last registration     *)
(* issued is every end in the provider's records, in the list and in hand. *)
(* That bound only grows, because a registration is issued for RegTTL from *)
(* now on.                                                                 *)
IssuedBound == \A k \in Keys : issued[k] <= now + RegTTL
RegWithin == \A k \in DOMAIN reg : reg[k].end <= issued[k]
ListWithin == \A k \in DOMAIN list.reg : list.reg[k].end <= issued[k]
JobsWithin ==
  Registry => \A p \in DOMAIN job : job[p].lease <= issued[job[p].key]
StoreWithin ==
  Registry => \A k \in DOMAIN store : store[k].lease <= issued[k]

LeaseInv ==
  /\ IssuedBound /\ RegWithin /\ ListWithin
  /\ JobsWithin /\ StoreWithin

(* The types of what LeaseInv compares. *)
LEMMA LeaseTypes ==
  ASSUME TypeOK
  PROVE  /\ now \in Nat /\ RegTTL \in Nat
         /\ \A k \in Keys : issued[k] \in Nat
         /\ \A k \in DOMAIN reg : k \in Keys /\ reg[k] \in Registration
         /\ \A k \in DOMAIN list.reg : k \in Keys /\ list.reg[k] \in Registration
         /\ \A p \in DOMAIN job : job[p] \in Job
         /\ \A k \in DOMAIN store : k \in Keys /\ store[k] \in Peer
BY EntryOf, ConstantsAssumption DEF TypeOK

(* The lease registered allows ends within the registration. *)
LEMMA LeaseEndBound ==
  ASSUME TypeOK, LeaseInv, Registry, NEW k, NEW s, Registered(k, s)
  PROVE  LeaseEnd(k) <= issued[k]
<1>1. k \in DOMAIN list.reg /\ list.reg[k].end <= issued[k]
  BY Zenon DEF Registered, Allowed, Lookup, LeaseInv, ListWithin
<1>2. list.reg[k].end \in Nat /\ issued[k] \in Nat /\ now + LeaseTTL \in Nat
  BY <1>1, LeaseTypes, ConstantsAssumption DEF Registration, TypeOK
<1> QED BY <1>1, <1>2 DEF LeaseEnd

(* What leaves the provider's side alone keeps the part of LeaseInv about  *)
(* it.                                                                     *)
LEMMA SameRegistrations ==
  ASSUME LeaseInv, UNCHANGED <<now, issued, reg, list>>
  PROVE  IssuedBound' /\ RegWithin' /\ ListWithin'
BY Zenon DEF LeaseInv, IssuedBound, RegWithin, ListWithin

LEMMA SameStoreWithin ==
  ASSUME StoreWithin, UNCHANGED <<issued, store>>
  PROVE  StoreWithin'
BY Zenon DEF StoreWithin

LEMMA SameJobsWithin ==
  ASSUME JobsWithin, UNCHANGED <<issued, job>>
  PROVE  JobsWithin'
BY Zenon DEF JobsWithin

(* A new call is within if its lease is. *)
LEMMA NewJobWithin ==
  ASSUME JobsWithin, issued' = issued, NEW p, NEW j, job' = Set(job, p, j),
         Registry => j.lease <= issued[j.key]
  PROVE  JobsWithin'
BY Zenon DEF JobsWithin, Set

LEMMA ReturnWithin ==
  ASSUME JobsWithin, issued' = issued, NEW p, Return(p)
  PROVE  JobsWithin'
BY Zenon DEF JobsWithin, Return, Unset

(* The next call of an operation keeps its key and its lease. *)
LEMMA NextCallWithin ==
  ASSUME JobsWithin, issued' = issued, DOMAIN job' = DOMAIN job,
         \A p \in DOMAIN job : /\ job'[p].key = job[p].key
                               /\ job'[p].lease = job[p].lease
  PROVE  JobsWithin'
BY Zenon DEF JobsWithin

(* A registration raises what the provider issued for its key, and         *)
(* touches nothing else that LeaseInv compares with it.                    *)
LEMMA RegisterKeepsLeaseInv ==
  ASSUME TypeOK, LeaseInv, NEW k \in Keys, NEW s \in Subjects, Register(k, s)
  PROVE  LeaseInv'
<1>1. /\ issued \in [Keys -> Nat] /\ now \in Nat /\ RegTTL \in Nat
      /\ \A x \in Keys : issued[x] <= now + RegTTL
  BY Zenon, ConstantsAssumption DEF TypeOK, LeaseInv, IssuedBound
<1>2. /\ issued' = [issued EXCEPT ![k] = now + RegTTL]
      /\ reg' = Set(reg, k, [subject |-> s, end |-> now + RegTTL])
      /\ now' = now /\ list' = list /\ job' = job /\ store' = store
  BY Zenon DEF Register, memory
<1>3. \A x \in Keys : /\ issued[x] \in Nat /\ issued'[x] \in Nat
                      /\ issued[x] <= issued'[x]
                      /\ issued'[x] <= now + RegTTL
  BY <1>1, <1>2
<1>4. issued'[k] = now + RegTTL
  BY Zenon, <1>1, <1>2
<1>5. RegWithin'
  <2> SUFFICES ASSUME NEW x \in DOMAIN reg' PROVE reg'[x].end <= issued'[x]
    BY Zenon DEF RegWithin
  <2>1. CASE x = k
    BY <1>1, <1>2, <1>4, <2>1 DEF Set
  <2>2. CASE x # k
    <3>1. x \in DOMAIN reg /\ reg'[x] = reg[x]
      BY Zenon, <1>2, <2>2 DEF Set
    <3>2. x \in Keys /\ reg[x].end \in Nat
      BY Zenon, <3>1, LeaseTypes DEF Registration
    <3>3. reg[x].end <= issued[x]
      BY Zenon, <3>1 DEF LeaseInv, RegWithin
    <3> QED BY <1>3, <3>1, <3>2, <3>3
  <2> QED BY Zenon, <2>1, <2>2
<1>6. ListWithin'
  <2>1. \A x \in DOMAIN list.reg : x \in Keys /\ list.reg[x].end \in Nat
    BY Zenon, LeaseTypes DEF Registration
  <2> QED BY <1>2, <1>3, <2>1 DEF LeaseInv, ListWithin
<1>7. JobsWithin'
  <2>1. \A p \in DOMAIN job : job[p].key \in Keys /\ job[p].lease \in Nat
    BY Zenon, LeaseTypes DEF Job
  <2> QED BY <1>2, <1>3, <2>1 DEF LeaseInv, JobsWithin
<1>8. StoreWithin'
  <2>1. \A x \in DOMAIN store : x \in Keys /\ store[x].lease \in Nat
    BY Zenon, LeaseTypes DEF Peer
  <2> QED BY <1>2, <1>3, <2>1 DEF LeaseInv, StoreWithin
<1>9. IssuedBound'
  BY Zenon, <1>2, <1>3 DEF IssuedBound
<1> QED BY Zenon, <1>5, <1>6, <1>7, <1>8, <1>9 DEF LeaseInv

(* Every operation keeps LeaseInv. *)
LEMMA LeaseStep == ASSUME TypeOK, LeaseInv, [Next]_vars PROVE LeaseInv'
<1> USE DEF memory, provider
<1>j. JobsWithin /\ StoreWithin
  BY Zenon DEF LeaseInv
<1>k. ASSUME UNCHANGED <<now, issued, reg, list, store>>, JobsWithin'
      PROVE  LeaseInv'
  BY Zenon, <1>j, <1>k, SameRegistrations, SameStoreWithin DEF LeaseInv
<1>s. ASSUME UNCHANGED <<now, issued, reg, list>>, JobsWithin', StoreWithin'
      PROVE  LeaseInv'
  BY Zenon, <1>s, SameRegistrations DEF LeaseInv
<1>1. ASSUME NEW t \in Threads, Arrive(t) PROVE LeaseInv'
  <2> SUFFICES JobsWithin' /\ UNCHANGED <<now, issued, reg, list, store>>
    BY Zenon, <1>k
  <2>n. ASSUME NEW k \in Keys, NEW j, j.key = k, j.lease = 0
        PROVE  j.lease <= issued[j.key]
    BY <2>n DEF TypeOK
  <2>1. ASSUME NEW k \in Keys, NEW s \in Subjects, NEW asked \in Asked,
               Enroll(t, k, s, asked)
        PROVE  JobsWithin' /\ UNCHANGED <<now, issued, reg, list, store>>
    <3> DEFINE j == [call |-> "tenant", key |-> k, subject |-> s,
                     ip |-> NoIP, lease |-> LeaseEnd(k), tenant |-> asked]
    <3>1. Registry => LeaseEnd(k) <= issued[k]
      BY Zenon, <2>1, LeaseEndBound DEF Enroll
    <3>2. Registry => j.lease <= issued[j.key]
      BY Zenon, <3>1
    <3>3. job' = Set(job, t, j) /\ UNCHANGED <<now, issued, reg, list, store>>
      BY Zenon, <2>1 DEF Enroll
    <3> HIDE DEF j
    <3> QED BY Zenon, <1>j, <3>2, <3>3, NewJobWithin
  <2>2. ASSUME NEW k \in Keys, NEW s \in Subjects, Heartbeat(t, k, s)
        PROVE  JobsWithin' /\ UNCHANGED <<now, issued, reg, list, store>>
    <3> DEFINE j == [call |-> "member", key |-> k, subject |-> s, ip |-> NoIP,
                     lease |-> 0, tenant |-> store[k].tenant]
    <3>1. j.key = k /\ j.lease = 0
      BY Zenon
    <3>2. job' = Set(job, t, j) /\ UNCHANGED <<now, issued, reg, list, store>>
      BY Zenon, <2>2 DEF Heartbeat
    <3> HIDE DEF j
    <3> QED BY Zenon, <1>j, <2>n, <3>1, <3>2, NewJobWithin
  <2>3. ASSUME NEW k \in Keys, NEW s \in Subjects, Deregister(t, k, s)
        PROVE  JobsWithin' /\ UNCHANGED <<now, issued, reg, list, store>>
    <3> DEFINE j == Dropping(k, s, store[k].ip)
    <3>1. j.key = k /\ j.lease = 0
      BY Zenon DEF Dropping
    <3>2. job' = Set(job, t, j) /\ UNCHANGED <<now, issued, reg, list, store>>
      BY Zenon, <2>3 DEF Deregister
    <3> HIDE DEF j
    <3> QED BY Zenon, <1>j, <2>n, <3>1, <3>2, NewJobWithin
  <2> QED BY Zenon, <1>1, <2>1, <2>2, <2>3 DEF Arrive
<1>c. ASSUME NEW t \in DOMAIN job, NEW c, NEW ip, NEW n,
             \/ job' = [job EXCEPT ![t].call = c]
             \/ job' = [job EXCEPT ![t].call = c, ![t].ip = ip]
             \/ job' = [job EXCEPT ![t].call = c, ![t].tenant = n],
             issued' = issued
      PROVE  JobsWithin'
  <2>1. \A p \in DOMAIN job :
          job[p] \in [call : Calls, key : Keys, subject : Subjects,
                      ip : Hosts \cup {NoIP}, lease : Nat,
                      tenant : Tenants \cup {NoTenant}]
    BY Zenon, LeaseTypes DEF Job
  <2>2. CASE job' = [job EXCEPT ![t].call = c]
    BY Zenon, <1>c, <1>j, <2>1, <2>2, NextCallWithin
  <2>3. CASE job' = [job EXCEPT ![t].call = c, ![t].ip = ip]
    BY Zenon, <1>c, <1>j, <2>1, <2>3, NextCallWithin
  <2>4. CASE job' = [job EXCEPT ![t].call = c, ![t].tenant = n]
    BY Zenon, <1>c, <1>j, <2>1, <2>4, NextCallWithin
  <2> QED BY Zenon, <1>c, <2>2, <2>3, <2>4
<1>2. ASSUME NEW p \in Procs, Drop(p) PROVE LeaseInv'
  <2>0. p \in DOMAIN job
    BY Zenon, <1>2 DEF Drop, RemovePeer, DeletePeer, ReleaseIP, At
  <2>1. CASE RemovePeer(p)
    BY Zenon, <2>0, <2>1, <1>c, <1>k DEF RemovePeer
  <2>2. CASE DeletePeer(p)
    <3>1. StoreWithin'
      BY Zenon, <1>j, <2>2 DEF DeletePeer, Unset, StoreWithin
    <3> QED BY Zenon, <2>0, <2>2, <3>1, <1>c, <1>s DEF DeletePeer
  <2>3. CASE ReleaseIP(p)
    BY Zenon, <1>j, <2>3, <1>k, ReturnWithin DEF ReleaseIP
  <2> QED BY Zenon, <1>2, <2>1, <2>2, <2>3 DEF Drop
<1>3. ASSUME NEW t \in Threads, Serve(t) PROVE LeaseInv'
  <2>d. CASE Drop(t)
    BY Zenon, <2>d, <1>2 DEF Procs
  <2>t. ASSUME ~Drop(t) PROVE t \in DOMAIN job
    BY Zenon, <1>3, <2>t
    DEF Serve, ChooseTenant, GetPeer, Allocate, AddPeer, AddPeerFails,
        UndoAllocate, Put, CheckMember, CheckRegistered, Renew, At
  <2> SUFFICES ASSUME t \in DOMAIN job, ~Drop(t) PROVE LeaseInv'
    BY Zenon, <2>d, <2>t
  <2>j. job[t].key \in Keys /\ job[t].lease \in Nat
    BY Zenon, LeaseTypes DEF Job
  <2>w. Registry => job[t].lease <= issued[job[t].key]
    BY Zenon, <1>j DEF JobsWithin
  <2>1. CASE ChooseTenant(t)
    <3>1. issued' = issued /\ UNCHANGED <<now, reg, list, store>>
      BY Zenon, <2>1 DEF ChooseTenant
    <3>2. \/ \E n : job' = [job EXCEPT ![t].call = "get", ![t].tenant = n]
          \/ Return(t)
      BY Zenon, <2>1 DEF ChooseTenant
    <3> QED BY ZenonT(30), <1>c, <1>j, <1>k, <3>1, <3>2, ReturnWithin
  <2>2. CASE GetPeer(t)
    <3>1. issued' = issued /\ UNCHANGED <<now, reg, list, store>>
      BY Zenon, <2>2 DEF GetPeer
    <3>2. \/ \E ip : job' = [job EXCEPT ![t].call = "readd", ![t].ip = ip]
          \/ job' = [job EXCEPT ![t].call = "allocate"]
          \/ Return(t)
      BY Zenon, <2>2 DEF GetPeer
    <3> QED BY ZenonT(30), <1>c, <1>j, <1>k, <3>1, <3>2, ReturnWithin
  <2>3. CASE Allocate(t)
    <3>1. issued' = issued /\ UNCHANGED <<now, reg, list, store>>
      BY Zenon, <2>3 DEF Allocate
    <3>2. \/ \E ip : job' = [job EXCEPT ![t].call = "add", ![t].ip = ip]
          \/ Return(t)
      BY Zenon, <2>3 DEF Allocate
    <3> QED BY ZenonT(30), <1>c, <1>j, <1>k, <3>1, <3>2, ReturnWithin
  <2>4. CASE AddPeer(t)
    BY Zenon, <2>4, <1>c, <1>k DEF AddPeer
  <2>5. CASE AddPeerFails(t)
    BY Zenon, <2>5, <1>c, <1>k DEF AddPeerFails
  <2>6. CASE UndoAllocate(t)
    BY Zenon, <1>j, <2>6, <1>k, ReturnWithin DEF UndoAllocate
  <2>7. CASE Put(t)
    <3>1. StoreWithin'
      BY Zenon, <1>j, <2>7, <2>w DEF Put, Set, StoreWithin
    <3> QED BY Zenon, <1>j, <2>7, <3>1, <1>s, ReturnWithin DEF Put
  <2>8. CASE CheckMember(t)
    BY Zenon, <1>j, <2>8, <1>c, <1>k, ReturnWithin DEF CheckMember
  <2>9. CASE CheckRegistered(t)
    <3>0. UNCHANGED <<now, issued, reg, list, store>>
      BY Zenon, <2>9 DEF CheckRegistered
    <3>1. CASE Return(t)
      BY Zenon, <1>j, <1>k, <3>0, <3>1, ReturnWithin
    <3>2. CASE ~Return(t)
      <4> DEFINE end == LeaseEnd(job[t].key)
      <4>1. /\ Registered(job[t].key, job[t].subject)
            /\ job' = [job EXCEPT ![t].call = "renew", ![t].lease = end]
        BY Zenon, <2>9, <3>2 DEF CheckRegistered
      <4>2. Registry => end <= issued[job[t].key]
        BY Zenon, <4>1, LeaseEndBound
      <4> HIDE DEF end
      <4>3. \A p \in DOMAIN job :
              job[p] \in [call : Calls, key : Keys, subject : Subjects,
                          ip : Hosts \cup {NoIP}, lease : Nat,
                          tenant : Tenants \cup {NoTenant}]
        BY Zenon, LeaseTypes DEF Job
      <4>4. /\ DOMAIN job' = DOMAIN job
            /\ job'[t].key = job[t].key /\ job'[t].lease = end
            /\ \A p \in DOMAIN job \ {t} : job'[p] = job[p]
        BY Zenon, <4>1, <4>3
      <4>5. JobsWithin'
        BY Zenon, <1>j, <3>0, <4>2, <4>4 DEF JobsWithin
      <4> QED BY Zenon, <1>k, <3>0, <4>5
    <3> QED BY Zenon, <3>1, <3>2
  <2>10. CASE Renew(t)
    <3>1. StoreWithin'
      <4>1. CASE job[t].key \notin DOMAIN store
        BY Zenon, <1>j, <2>10, <4>1 DEF Renew, StoreWithin
      <4>2. CASE job[t].key \in DOMAIN store
        <5>1. /\ store' = [store EXCEPT ![job[t].key].lease = job[t].lease]
              /\ issued' = issued
          BY Zenon, <2>10, <4>2 DEF Renew
        <5>2. store[job[t].key] \in Peer
          BY Zenon, <4>2, LeaseTypes
        <5>3. /\ DOMAIN store' = DOMAIN store
              /\ store'[job[t].key].lease = job[t].lease
              /\ \A k \in DOMAIN store \ {job[t].key} : store'[k] = store[k]
          BY Zenon, <4>2, <5>1, <5>2 DEF Peer
        <5> QED BY Zenon, <1>j, <2>w, <5>1, <5>3 DEF StoreWithin
      <4> QED BY Zenon, <4>1, <4>2
    <3> QED BY Zenon, <1>j, <2>10, <3>1, <1>s, ReturnWithin DEF Renew
  <2> QED BY Zenon, <1>3, <2>1, <2>2, <2>3, <2>4, <2>5, <2>6, <2>7, <2>8, <2>9, <2>10
    DEF Serve
<1>4. CASE ReapExpired
  BY Zenon, <1>j, <1>4, <1>k, SameJobsWithin DEF ReapExpired
<1>l. ASSUME list'.reg = reg \/ DOMAIN list'.reg = {},
             UNCHANGED <<now, issued, reg>>, JobsWithin', StoreWithin'
      PROVE  LeaseInv'
  BY Zenon, <1>l DEF LeaseInv, IssuedBound, RegWithin, ListWithin
<1>5. CASE Refresh
  BY Zenon, <1>j, <1>5, <1>l, SameJobsWithin, SameStoreWithin DEF Refresh
<1>6. CASE Reconcile
  BY Zenon, <1>j, <1>6, <1>k, SameJobsWithin DEF Reconcile
<1>7. ASSUME NEW p \in Loops, NextPeer(p) PROVE LeaseInv'
  <2>1. PICK x \in todo[p] :
          \/ UNCHANGED job
          \/ job' = Set(job, p, Dropping(x.key, x.subject, x.ip))
    BY Zenon, <1>7 DEF NextPeer
  <2>2. x.key \in Keys
    <3>1. todo[p] \in SUBSET Target
      BY Zenon DEF TypeOK
    <3> QED BY Zenon, <3>1 DEF Target
  <2>3. UNCHANGED <<now, issued, reg, list, store>>
    BY Zenon, <1>7 DEF NextPeer
  <2> DEFINE j == Dropping(x.key, x.subject, x.ip)
  <2>4. j.key = x.key /\ j.lease = 0
    BY Zenon DEF Dropping
  <2>5. j.lease <= issued[j.key]
    BY <2>2, <2>4 DEF TypeOK
  <2> HIDE DEF j
  <2>6. CASE UNCHANGED job
    BY Zenon, <1>j, <1>k, <2>3, <2>6, SameJobsWithin
  <2>7. CASE job' = Set(job, p, j)
    BY Zenon, <1>j, <1>k, <2>3, <2>5, <2>7, NewJobWithin
  <2> QED BY Zenon, <2>1, <2>6, <2>7 DEF j
<1>8. CASE StartUp
  <2>1. list'.reg = reg \/ DOMAIN list'.reg = {}
    BY Zenon, <1>8 DEF StartUp, NoList, Empty
  <2> QED BY Zenon, <1>j, <1>8, <1>l, <2>1, SameJobsWithin, SameStoreWithin DEF StartUp
<1>9. CASE Environment
  <2>1. CASE StartFails
    BY Zenon, <1>j, <1>k, <2>1, SameJobsWithin DEF StartFails
  <2>2. CASE Crash
    <3>1. JobsWithin' /\ StoreWithin' /\ DOMAIN list'.reg = {}
      BY Zenon, <2>2 DEF Crash, Empty, NoList, JobsWithin, StoreWithin
    <3> QED BY Zenon, <1>l, <2>2, <3>1 DEF Crash
  <2>3. CASE Tick
    <3>1. now \in Nat /\ RegTTL \in Nat /\ \A k \in Keys : issued[k] \in Nat
      BY Zenon, LeaseTypes
    <3>2. now' = now + 1 /\ UNCHANGED <<issued, reg, list, store, job>>
      BY Zenon, <2>3 DEF Tick
    <3>3. IssuedBound'
      BY <3>1, <3>2 DEF LeaseInv, IssuedBound
    <3>4. RegWithin' /\ ListWithin'
      BY Zenon, <3>2 DEF LeaseInv, RegWithin, ListWithin
    <3> QED BY Zenon, <1>j, <3>2, <3>3, <3>4, SameJobsWithin, SameStoreWithin DEF LeaseInv
  <2>4. ASSUME NEW k \in Keys, TakeBack(k) PROVE LeaseInv'
    <3>1. RegWithin'
      BY Zenon, <2>4 DEF TakeBack, Unset, LeaseInv, RegWithin
    <3>2. UNCHANGED <<now, issued, list, store, job>>
      BY Zenon, <2>4 DEF TakeBack
    <3>3. IssuedBound' /\ ListWithin'
      BY Zenon, <3>2 DEF LeaseInv, IssuedBound, ListWithin
    <3> QED BY Zenon, <1>j, <3>1, <3>2, <3>3, SameJobsWithin, SameStoreWithin DEF LeaseInv
  <2>5. ASSUME NEW k \in Keys, NEW s \in Subjects, Register(k, s)
        PROVE  LeaseInv'
    BY Zenon, <2>5, RegisterKeepsLeaseInv
  <2>6. ASSUME NEW s \in Subjects, NEW T, ChangeTenancy(s, T) PROVE LeaseInv'
    BY Zenon, <1>j, <1>k, <2>6, SameJobsWithin DEF ChangeTenancy
  <2> QED BY Zenon, <1>9, <2>1, <2>2, <2>3, <2>4, <2>5, <2>6 DEF Environment
<1>10. CASE UNCHANGED vars
  BY Zenon, <1>j, <1>k, <1>10, SameJobsWithin DEF vars
<1> QED
  BY Zenon, <1>1, <1>2, <1>3, <1>4, <1>5, <1>6, <1>7, <1>8, <1>9, <1>10
  DEF Next, Walk, Procs

(* "A lease never outlives the key's registration": in every interleaving  *)
(* of enrollments, renewals, new lists and re-registrations, a stored      *)
(* lease ends no later than the last registration the provider issued for  *)
(* its key (LeaseWithinRegistration).                                      *)
THEOREM LeaseStaysWithinRegistration == Spec => []LeaseWithinRegistration
<1>1. Init => LeaseInv
  <2> SUFFICES ASSUME Init PROVE LeaseInv
    BY Zenon
  <2>1. /\ now = 0 /\ issued = [k \in Keys |-> 0]
        /\ reg = Empty /\ list.reg = Empty /\ job = Empty /\ store = Empty
    BY Zenon DEF Init, NoList
  <2>2. DOMAIN Empty = {}
    BY Zenon DEF Empty
  <2>3. \A k \in Keys : issued[k] <= now + RegTTL
    BY SMTT(30), <2>1, ConstantsAssumption
  <2> QED
    BY Zenon, <2>1, <2>2, <2>3
    DEF LeaseInv, IssuedBound, RegWithin, ListWithin, JobsWithin, StoreWithin
<1>2. TypeOK /\ LeaseInv /\ [Next]_vars => LeaseInv'
  BY Zenon, LeaseStep
<1>3. LeaseInv => LeaseWithinRegistration
  BY DEF LeaseInv, StoreWithin, LeaseWithinRegistration
<1> QED BY <1>1, <1>2, <1>3, TypeCorrect, PTL DEF Spec

-----------------------------------------------------------------------------
(* The reconciliation and the list in force. *)

(* DropsOnlyTakenBack is about the first call of a drop.  What is inductive *)
(* is that the list in force is against the syncer's whole drop: it is a   *)
(* new list only when the syncer rests, and a list that does not allow a   *)
(* key does not come to allow it as time passes.  A start installs a list  *)
(* too, and finds no operation in flight.                                  *)
SyncerDrops ==
  "syncer" \in DOMAIN job =>
    ~Allowed(job["syncer"].key, job["syncer"].subject)

StoppedRests == ~up => DOMAIN job = {}

DropInv == SyncerDrops /\ StoppedRests

(* Under one list, the syncer's drop stays one the list is against.        *)
LEMMA StaysAgainstList ==
  ASSUME TypeOK, SyncerDrops, list' = list, now' = now \/ now' = now + 1,
         "syncer" \in DOMAIN job' =>
           /\ "syncer" \in DOMAIN job
           /\ job'["syncer"].key = job["syncer"].key
           /\ job'["syncer"].subject = job["syncer"].subject
  PROVE  SyncerDrops'
<1> SUFFICES ASSUME "syncer" \in DOMAIN job',
                    Allowed(job["syncer"].key, job["syncer"].subject)'
             PROVE  FALSE
  BY Zenon DEF SyncerDrops
<1> DEFINE k == job["syncer"].key
<1>1. /\ now' < list.expires
      /\ k \in DOMAIN list.reg /\ now' < list.reg[k].end
      /\ list.reg[k].subject = job["syncer"].subject
  BY Zenon DEF Allowed, Lookup
<1>2. now \in Nat /\ list.expires \in Nat /\ list.reg[k].end \in Nat
  BY Zenon, <1>1, LeaseTypes DEF TypeOK, Registration
<1>3. Allowed(k, job["syncer"].subject)
  BY <1>1, <1>2 DEF Allowed, Lookup
<1> QED BY Zenon, <1>3 DEF SyncerDrops

(* Only the syncer itself changes what the syncer is doing. *)
LEMMA OthersLeaveSyncer ==
  ASSUME TypeOK, DropInv, up, up' = up, list' = list, now' = now,
         NEW t, t # "syncer",
         \A p \in DOMAIN job' \ {t} : p \in DOMAIN job /\ job'[p] = job[p]
  PROVE  DropInv'
<1>1. SyncerDrops'
  BY Zenon, StaysAgainstList DEF DropInv
<1> QED BY Zenon, <1>1 DEF DropInv, StoppedRests

(* A call that returns or goes on to the next leaves the other goroutines' *)
(* calls.                                                                  *)
LEMMA OtherCalls ==
  ASSUME NEW t \in DOMAIN job, NEW c, NEW ip, NEW n, NEW l,
         \/ job' = [job EXCEPT ![t].call = c]
         \/ job' = [job EXCEPT ![t].call = c, ![t].ip = ip]
         \/ job' = [job EXCEPT ![t].call = c, ![t].tenant = n]
         \/ job' = [job EXCEPT ![t].call = c, ![t].lease = l]
         \/ Return(t)
  PROVE  \A p \in DOMAIN job' \ {t} : p \in DOMAIN job /\ job'[p] = job[p]
BY Zenon DEF Return, Unset

(* Every step keeps DropInv. *)
LEMMA DropStep == ASSUME TypeOK, DropInv, [Next]_vars PROVE DropInv'
<1> USE DEF memory
<1>t. \A t \in Threads : t # "syncer"
  BY Zenon, ConstantsAssumption DEF Loops
<1>1. ASSUME NEW t \in Threads, Arrive(t) PROVE DropInv'
  <2>1. /\ up /\ up' = up /\ list' = list /\ now' = now
        /\ \E j : job' = Set(job, t, j)
    BY Zenon, <1>1 DEF Arrive, Enroll, Heartbeat, Deregister, Idle
  <2>2. \A p \in DOMAIN job' \ {t} : p \in DOMAIN job /\ job'[p] = job[p]
    BY Zenon, <2>1 DEF Set
  <2> QED BY Zenon, <1>t, <2>1, <2>2, OthersLeaveSyncer
<1>2. ASSUME NEW p \in Procs, Drop(p) PROVE DropInv'
  <2>0. up /\ p \in DOMAIN job /\ up' = up /\ list' = list /\ now' = now
    BY Zenon, <1>2 DEF Drop, RemovePeer, DeletePeer, ReleaseIP, At
  <2>1. (\E c : job' = [job EXCEPT ![p].call = c]) \/ Return(p)
    BY Zenon, <1>2 DEF Drop, RemovePeer, DeletePeer, ReleaseIP
  <2>2. \A q \in DOMAIN job' \ {p} : q \in DOMAIN job /\ job'[q] = job[q]
    BY Zenon, <2>0, <2>1, OtherCalls
  <2>3. job[p] \in [call : Calls, key : Keys, subject : Subjects,
                    ip : Hosts \cup {NoIP}, lease : Nat,
                    tenant : Tenants \cup {NoTenant}]
    BY Zenon, <2>0, LeaseTypes DEF Job
  <2>4. p \in DOMAIN job' => /\ job'[p].key = job[p].key
                             /\ job'[p].subject = job[p].subject
    BY Zenon, <2>0, <2>1, <2>3 DEF Return, Unset
  <2>5. SyncerDrops'
    BY Zenon, <2>0, <2>2, <2>4, StaysAgainstList DEF DropInv
  <2> QED BY Zenon, <2>0, <2>5 DEF DropInv, StoppedRests
<1>3. ASSUME NEW t \in Threads, Serve(t) PROVE DropInv'
  <2>d. CASE Drop(t)
    BY Zenon, <2>d, <1>2 DEF Procs
  <2>1. ASSUME ~Drop(t)
        PROVE  /\ up /\ t \in DOMAIN job
               /\ up' = up /\ list' = list /\ now' = now
    BY Zenon, <1>3, <2>1
    DEF Serve, ChooseTenant, GetPeer, Allocate, AddPeer, AddPeerFails,
        UndoAllocate, Put, CheckMember, CheckRegistered, Renew, At
  <2>2. ASSUME ~Drop(t)
        PROVE  \E c, ip, n, l :
                 \/ job' = [job EXCEPT ![t].call = c]
                 \/ job' = [job EXCEPT ![t].call = c, ![t].ip = ip]
                 \/ job' = [job EXCEPT ![t].call = c, ![t].tenant = n]
                 \/ job' = [job EXCEPT ![t].call = c, ![t].lease = l]
                 \/ Return(t)
    BY Zenon, <1>3, <2>2
    DEF Serve, ChooseTenant, GetPeer, Allocate, AddPeer, AddPeerFails,
        UndoAllocate, Put, CheckMember, CheckRegistered, Renew
  <2>3. ASSUME ~Drop(t)
        PROVE  \A p \in DOMAIN job' \ {t} : p \in DOMAIN job /\ job'[p] = job[p]
    BY Zenon, <2>1, <2>2, <2>3, OtherCalls
  <2> QED BY Zenon, <1>t, <2>d, <2>1, <2>3, OthersLeaveSyncer
<1>s. ASSUME UNCHANGED <<up, list, job>>, now' = now \/ now' = now + 1
      PROVE  DropInv'
  BY Zenon, <1>s, StaysAgainstList DEF DropInv, StoppedRests
<1>4. CASE ReapExpired \/ Reconcile
  BY Zenon, <1>4, <1>s DEF ReapExpired, Reconcile
<1>5. CASE Refresh
  BY Zenon, <1>5 DEF Refresh, Resting, DropInv, SyncerDrops, StoppedRests
<1>6. ASSUME NEW p \in Loops, NextPeer(p) PROVE DropInv'
  <2>0. up /\ up' = up /\ list' = list /\ now' = now /\ p \notin DOMAIN job
    BY Zenon, <1>6 DEF NextPeer
  <2>1. PICK x \in todo[p] :
          \/ UNCHANGED job
          \/ /\ job' = Set(job, p, Dropping(x.key, x.subject, x.ip))
             /\ p = "syncer" => ~Allowed(x.key, x.subject)
    BY Zenon, <1>6 DEF NextPeer, StillAllowed
  <2> DEFINE j == Dropping(x.key, x.subject, x.ip)
  <2>2. CASE UNCHANGED job
    BY Zenon, <1>s, <2>0, <2>2
  <2>3. CASE job' = Set(job, p, j) /\ p # "syncer"
    <3>1. \A q \in DOMAIN job' \ {p} : q \in DOMAIN job /\ job'[q] = job[q]
      BY Zenon, <2>3 DEF Set
    <3> QED BY Zenon, <2>0, <2>3, <3>1, OthersLeaveSyncer
  <2>4. CASE job' = Set(job, p, j) /\ p = "syncer" /\ ~Allowed(x.key, x.subject)
    <3>1. j.key = x.key /\ j.subject = x.subject
      BY Zenon DEF Dropping
    <3> HIDE DEF j
    <3>2. job'["syncer"] = j
      BY Zenon, <2>4 DEF Set
    <3>3. ~Allowed(x.key, x.subject)'
      BY Zenon, <2>0, <2>4 DEF Allowed, Lookup
    <3>4. SyncerDrops'
      BY Zenon, <3>1, <3>2, <3>3 DEF SyncerDrops, Allowed, Lookup
    <3> QED BY Zenon, <2>0, <3>4 DEF DropInv, StoppedRests
  <2> QED BY Zenon, <2>1, <2>2, <2>3, <2>4
<1>7. CASE StartUp
  BY Zenon, <1>7 DEF StartUp, DropInv, SyncerDrops, StoppedRests
<1>8. CASE Environment
  <2>1. CASE Crash
    BY Zenon, <2>1 DEF Crash, Empty, DropInv, SyncerDrops, StoppedRests
  <2>2. CASE StartFails \/ Tick
    BY Zenon, <2>2, <1>s DEF StartFails, Tick
  <2>3. ASSUME NEW k \in Keys, TakeBack(k) PROVE DropInv'
    BY Zenon, <2>3, <1>s DEF TakeBack
  <2>4. ASSUME NEW k \in Keys, NEW s \in Subjects, Register(k, s)
        PROVE  DropInv'
    BY Zenon, <2>4, <1>s DEF Register
  <2>5. ASSUME NEW s \in Subjects, NEW T, ChangeTenancy(s, T) PROVE DropInv'
    BY Zenon, <2>5, <1>s DEF ChangeTenancy
  <2> QED BY Zenon, <1>8, <2>1, <2>2, <2>3, <2>4, <2>5 DEF Environment
<1>9. CASE UNCHANGED vars
  BY Zenon, <1>9, <1>s DEF vars
<1> QED
  BY Zenon, <1>1, <1>2, <1>3, <1>4, <1>5, <1>6, <1>7, <1>8, <1>9 DEF Next, Walk, Procs

(* Reconciliation drops no peer whose key the list in force still allows   *)
(* its owner, although the drop goes by a snapshot and comes later than    *)
(* the decision (DropsOnlyTakenBack).                                      *)
THEOREM ReconcileDropsOnlyTakenBack == Spec => []DropsOnlyTakenBack
<1>1. Init => DropInv
  BY Zenon DEF Init, Empty, DropInv, SyncerDrops, StoppedRests
<1>2. TypeOK /\ DropInv /\ [Next]_vars => DropInv'
  BY Zenon, DropStep
<1>3. DropInv => DropsOnlyTakenBack
  BY DEF DropInv, SyncerDrops, DropsOnlyTakenBack, At
<1> QED BY <1>1, <1>2, <1>3, TypeCorrect, PTL DEF Spec

-----------------------------------------------------------------------------
(* The peers configured by hand. *)

(* A peer whose allowed IPs are not one address of the pool "is left       *)
(* alone" (README.md:48): it stays on the device, with the allowed IPs it  *)
(* was configured with.                                                    *)
LeftAlone == \A k \in DOMAIN ByHand : k \in DOMAIN device /\ device[k] = ByHand[k]

(* Every step leaves them alone. *)
LEMMA LeftAloneStep == ASSUME TypeOK, LeftAlone, [Next]_vars PROVE LeftAlone'
<1> USE DEF memory
<1>s. ASSUME device' = device PROVE LeftAlone'
  BY Zenon, <1>s DEF LeftAlone
<1>j. \A p \in DOMAIN job : job[p].key \in Keys
  BY Zenon, LeaseTypes DEF Job
<1>1. ASSUME NEW t \in Threads, Arrive(t) PROVE LeftAlone'
  BY Zenon, <1>1, <1>s DEF Arrive, Enroll, Heartbeat, Deregister
<1>2. ASSUME NEW p, Drop(p) PROVE LeftAlone'
  <2>1. CASE RemovePeer(p) /\ device' # device
    <3>1. p \in DOMAIN job /\ device' = Unset(device, job[p].key)
      BY Zenon, <2>1 DEF RemovePeer, At, WithoutPeer
    <3> QED BY Zenon, <1>j, <3>1, ByHandAssumption DEF LeftAlone, Unset
  <2>2. CASE DeletePeer(p) \/ ReleaseIP(p)
    BY Zenon, <2>2, <1>s DEF DeletePeer, ReleaseIP
  <2> QED BY Zenon, <1>2, <1>s, <2>1, <2>2 DEF Drop
<1>3. ASSUME NEW t \in Threads, Serve(t) PROVE LeftAlone'
  <2>1. CASE AddPeer(t)
    <3>1. /\ t \in DOMAIN job /\ job[t].call \in WithAddress
          /\ device' = WithPeer(device, job[t].key, job[t].ip)
      BY Zenon, <2>1 DEF AddPeer, At, WithAddress
    <3>2. job[t].ip \in Hosts /\ job[t].key \in Keys
      BY Zenon, <3>1, LeaseTypes DEF Job
    <3>3. \A k \in DOMAIN ByHand : k # job[t].key /\ job[t].ip \notin ByHand[k]
      BY Zenon, <3>2, ByHandAssumption
    <3>4. \A k \in DOMAIN ByHand : ByHand[k] \ {job[t].ip} = ByHand[k]
      BY Zenon, <3>3
    <3> QED BY Zenon, <3>1, <3>3, <3>4 DEF LeftAlone, WithPeer
  <2>2. CASE ~AddPeer(t) /\ ~Drop(t)
    BY Zenon, <1>3, <1>s, <2>2
    DEF Serve, ChooseTenant, GetPeer, Allocate, AddPeerFails, UndoAllocate,
        Put, CheckMember, CheckRegistered, Renew
  <2> QED BY Zenon, <1>2, <2>1, <2>2
<1>4. CASE ReapExpired \/ Refresh \/ Reconcile
  BY Zenon, <1>4, <1>s DEF ReapExpired, Refresh, Reconcile
<1>5. ASSUME NEW p \in Loops, NextPeer(p) PROVE LeftAlone'
  BY Zenon, <1>5, <1>s DEF NextPeer
<1>6. ASSUME NEW gone \in SUBSET OursOnDevice, device' = Without(device, gone)
      PROVE  LeftAlone'
  <2>1. \A k \in DOMAIN ByHand : ~Ours(k)
    BY Zenon, ByHandAssumption DEF LeftAlone, Ours
  <2>2. gone \cap DOMAIN ByHand = {}
    BY Zenon, <2>1 DEF OursOnDevice
  <2> QED BY Zenon, <1>6, <2>2 DEF LeftAlone, Without
<1>7. CASE StartUp
  BY Zenon, <1>6, <1>7 DEF StartUp
<1>8. CASE Environment
  <2>1. CASE StartFails
    BY Zenon, <1>6, <2>1 DEF StartFails
  <2>2. CASE ~StartFails
    BY Zenon, <1>8, <1>s, <2>2
    DEF Environment, Crash, Tick, TakeBack, Register, ChangeTenancy
  <2> QED BY Zenon, <2>1, <2>2
<1>9. CASE UNCHANGED vars
  BY Zenon, <1>9, <1>s DEF vars
<1> QED BY Zenon, <1>1, <1>2, <1>3, <1>4, <1>5, <1>7, <1>8, <1>9 DEF Next, Walk

(* In every interleaving, with any fault and however many restarts and     *)
(* sweeps, neither an enrollment nor a drop nor the sweep touches a peer   *)
(* configured by hand (the half of StartsClean that needs no isolation).   *)
THEOREM HandPeersLeftAlone == Spec => []LeftAlone
<1>1. Init => LeftAlone
  BY Zenon DEF Init, LeftAlone
<1>2. TypeOK /\ LeftAlone /\ [Next]_vars => LeftAlone'
  BY LeftAloneStep
<1> QED BY <1>1, <1>2, TypeCorrect, PTL DEF Spec
=============================================================================
