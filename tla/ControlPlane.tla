---------------------------- MODULE ControlPlane ----------------------------
(***************************************************************************)
(* The enrollment plane of the server: the HTTP handlers of internal/api,  *)
(* the lease reaper, the reconciliation with the provider's key list, and  *)
(* the startup sweep, over the peer store, the address pool, the WireGuard *)
(* device and the key list they share.                                     *)
(*                                                                         *)
(* Each shared structure has its own lock, and no lock is held from one    *)
(* call to the next: a handler is a sequence of calls, and here a sequence *)
(* of actions, between which any other goroutine may run.                  *)
(***************************************************************************)
EXTENDS Naturals, FiniteSets

CONSTANTS
  Keys,        \* WireGuard public keys
  Subjects,    \* people, by the subject of their token
  Tenants,     \* tenants an administrator may create
  DefaultTenant, NoTenant,
  Asked,       \* what an enrollment may ask for: tenants, or NoTenant
  Threads,     \* goroutines serving HTTP requests
  Hosts,       \* host addresses of the pool, as Ipam!Hosts
  ServerIP,    \* the gateway's own address
  ByHand,      \* peers configured by hand: key -> allowed IPs
  LeaseTTL,    \* LEASE_TTL
  RegTTL,      \* validity the provider gives a key's registration
  ListTTL,     \* validity of a signed key list
  MaxTime,     \* bound on the clock
  Registry,    \* whether AUTH_PROVIDER is go-authn
  MaxInFlight, \* bound on the operations that overlap
  Isolation,   \* "none": the code; "key": operations on one key do not overlap
  Faults       \* what may fail: "add", "readd", "remove", "sweep", "fetch",
               \* and whether the process may: "crash"

Loops == {"reaper", "syncer"}
Procs == Threads \cup Loops
NoIP == 0

ASSUME ConstantsAssumption ==
  /\ Hosts \subseteq Nat \ {NoIP}
  /\ ServerIP \in Hosts
  /\ DefaultTenant \in Tenants
  /\ NoTenant \notin Tenants
  /\ Asked \subseteq Tenants \cup {NoTenant}
  /\ Threads \cap Loops = {}
  /\ LeaseTTL \in Nat /\ RegTTL \in Nat /\ ListTTL \in Nat /\ MaxTime \in Nat
  /\ MaxInFlight \in Nat \ {0}
  /\ Registry \in BOOLEAN
  /\ Isolation \in {"none", "key"}

(* The operator gives the pool's addresses to no other peer. *)
ASSUME ByHandAssumption ==
  /\ ByHand = [k \in DOMAIN ByHand |-> ByHand[k]]
  /\ DOMAIN ByHand \cap Keys = {}
  /\ \A k \in DOMAIN ByHand : ByHand[k] \cap Hosts = {}

VARIABLES
  up,          \* the process is running
  now,         \* the clock
  store,       \* store.Store: key -> enrolled peer
  used,        \* ipam.Allocator.used
  device,      \* wg0: key -> allowed IPs
  list,        \* peers.Registry.list: [reg: key -> registration, expires]
  reg,         \* the provider's registrations: key -> [subject, end]
  issued,      \* key -> end of the latest registration the provider issued
  tenancy,     \* subject -> tenants tenant.Store.For answers
  job,         \* process -> the call it is about to make
  todo,        \* loop -> peers of its snapshot still to be looked at
  listed       \* the syncer has a new list and has yet to reconcile

memory == <<store, used, list>>
provider == <<reg, issued>>
vars == <<up, now, store, used, device, list, reg, issued, tenancy, job,
          todo, listed>>

Calls == {"tenant", "get", "allocate", "add", "readd", "undo", "put",
          "member", "check", "renew", "remove", "delete", "release"}

Peer == [subject : Subjects, ip : Hosts, lease : Nat, tenant : Tenants]
Registration == [subject : Subjects, end : Nat]
Target == [key : Keys, subject : Subjects, ip : Hosts]
(* Calls made with an address in hand, and with the tenant chosen. *)
WithAddress == {"add", "readd", "undo", "put", "remove", "delete", "release"}
WithTenant == {"get", "allocate", "add", "readd", "undo", "put"}

Job == {j \in [call : Calls, key : Keys, subject : Subjects,
               ip : Hosts \cup {NoIP}, lease : Nat,
               tenant : Tenants \cup {NoTenant}] :
          /\ j.call \in WithAddress => j.ip \in Hosts
          /\ j.call \in WithTenant => j.tenant \in Tenants}

-----------------------------------------------------------------------------
(* Go maps, as functions on the keys present. *)

Empty == [k \in {} |-> k]
Set(m, k, v) == [x \in DOMAIN m \cup {k} |-> IF x = k THEN v ELSE m[x]]
Unset(m, k) == [x \in DOMAIN m \ {k} |-> m[x]]

(* A map f of some of the elements of S to elements of T. *)
IsMap(f, S, T) ==
  /\ f = [x \in DOMAIN f |-> f[x]]
  /\ DOMAIN f \subseteq S
  /\ \A x \in DOMAIN f : f[x] \in T

-----------------------------------------------------------------------------
(* internal/peers: the key list as the gateway last read it. *)

NoList == [reg |-> Empty, expires |-> 0]

Lookup(k) ==
  /\ now < list.expires
  /\ k \in DOMAIN list.reg /\ now < list.reg[k].end

Allowed(k, s) == Lookup(k) /\ list.reg[k].subject = s

(* internal/api: may s enroll or renew k, and the latest its lease may run *)
(* to.                                                                     *)
Registered(k, s) == Registry => Allowed(k, s)

LeaseUncapped(k) == now + LeaseTTL                                 \* mutant
LeaseEnd(k) ==
  IF Registry /\ list.reg[k].end < now + LeaseTTL
  THEN list.reg[k].end
  ELSE now + LeaseTTL

-----------------------------------------------------------------------------
(* internal/ipam, by what module Ipam shows of it. *)

NoReservation == {}                                                \* mutant
NewPool == {ServerIP}

WithBroadcast(u) == (Hosts \cup {NoIP}) \ u                        \* mutant
FreeIn(u) == Hosts \ u

Unmarked(u, ip) == u                                               \* mutant
Marked(u, ip) == u \cup {ip}

NotReleased(u, ip) == u                                            \* mutant
Released(u, ip) == u \ {ip}

-----------------------------------------------------------------------------
(* The WireGuard device.  An allowed IP belongs to one peer: giving it to  *)
(* another takes it from the first.                                        *)

WithPeer(d, k, ip) ==
  [x \in DOMAIN d \cup {k} |-> IF x = k THEN {ip} ELSE d[x] \ {ip}]

StillThere(d, k) == d                                              \* mutant
WithoutPeer(d, k) == Unset(d, k)

(* The peers Sweep takes for this server's: exactly one allowed IP, a /32  *)
(* of the pool.                                                            *)
OursAnywhere(k) == \E ip \in device[k] : device[k] = {ip}            \* mutant
Ours(k) == \E ip \in Hosts : device[k] = {ip}

-----------------------------------------------------------------------------
(* What the environment lets overlap. *)

ClaimedByOthers(p) ==
  {job[q].key : q \in DOMAIN job \ {p}}
    \cup {x.key : x \in UNION {todo[q] : q \in Loops \ {p}}}

InFlight == DOMAIN job \cup {q \in Loops : todo[q] # {}}

MayTouch(p, K) ==
  /\ Isolation = "key" => K \cap ClaimedByOthers(p) = {}
  /\ Cardinality(InFlight) < MaxInFlight

Idle(t) == up /\ t \notin DOMAIN job

At(p, call) == up /\ p \in DOMAIN job /\ job[p].call = call

Return(p) == job' = Unset(job, p)

-----------------------------------------------------------------------------
(* handleEnroll.  A request refused by its first check leaves no trace;    *)
(* the others end at the call that refuses them.                           *)

Enroll(t, k, s, asked) ==
  /\ Idle(t)
  /\ MayTouch(t, {k})
  /\ Registered(k, s)
  /\ job' = Set(job, t, [call |-> "tenant", key |-> k, subject |-> s,
                         ip |-> NoIP, lease |-> LeaseEnd(k),
                         tenant |-> asked])
  /\ UNCHANGED <<up, now, memory, device, provider, tenancy, todo, listed>>

(* What chooseTenant may choose: the tenant asked for, or the only one. *)
Choices(s, asked) ==
  {n \in tenancy[s] : n = asked \/ (asked = NoTenant /\ tenancy[s] = {n})}

ChooseTenant(t) ==
  /\ At(t, "tenant")
  /\ LET mine == Choices(job[t].subject, job[t].tenant)
     IN  \/ \E n \in mine :
              job' = [job EXCEPT ![t].call = "get", ![t].tenant = n]
         \/ mine = {} /\ Return(t)
  /\ UNCHANGED <<up, now, memory, device, provider, tenancy, todo, listed>>

OwnedByAnyone(k, s) == k \in DOMAIN store                          \* mutant
OwnedBy(k, s) == k \in DOMAIN store /\ store[k].subject = s

GetPeer(t) ==
  /\ At(t, "get")
  /\ LET k == job[t].key
     IN  \/ /\ OwnedBy(k, job[t].subject)
            /\ job' = [job EXCEPT ![t].call = "readd", ![t].ip = store[k].ip]
         \/ /\ k \notin DOMAIN store
            /\ job' = [job EXCEPT ![t].call = "allocate"]
         \/ /\ k \in DOMAIN store /\ ~OwnedBy(k, job[t].subject)
            /\ Return(t)
  /\ UNCHANGED <<up, now, memory, device, provider, tenancy, todo, listed>>

Allocate(t) ==
  /\ At(t, "allocate")
  /\ \/ \E ip \in FreeIn(used) :
          /\ \A other \in FreeIn(used) : ip <= other
          /\ used' = Marked(used, ip)
          /\ job' = [job EXCEPT ![t].call = "add", ![t].ip = ip]
     \/ FreeIn(used) = {} /\ Return(t) /\ UNCHANGED used
  /\ UNCHANGED <<up, now, store, list, device, provider, tenancy, todo, listed>>

(* AddPeer of a key just given an address ("add") or of one already        *)
(* enrolled ("readd").                                                     *)
AddPeer(t) ==
  /\ At(t, "add") \/ At(t, "readd")
  /\ device' = WithPeer(device, job[t].key, job[t].ip)
  /\ job' = [job EXCEPT ![t].call = "put"]
  /\ UNCHANGED <<up, now, memory, provider, tenancy, todo, listed>>

AddPeerFails(t) ==
  /\ At(t, "add") \/ At(t, "readd")
  /\ job[t].call \in Faults
  /\ job' = [job EXCEPT ![t].call = "undo"]
  /\ UNCHANGED <<up, now, memory, device, provider, tenancy, todo, listed>>

(* The Release of the failed branch, which returns gateway_error. *)
UndoAllocate(t) ==
  /\ At(t, "undo")
  /\ used' = Released(used, job[t].ip)
  /\ Return(t)
  /\ UNCHANGED <<up, now, store, list, device, provider, tenancy, todo, listed>>

Put(t) ==
  /\ At(t, "put")
  /\ store' = Set(store, job[t].key,
                  [subject |-> job[t].subject, ip |-> job[t].ip,
                   lease |-> job[t].lease, tenant |-> job[t].tenant])
  /\ Return(t)
  /\ UNCHANGED <<up, now, used, list, device, provider, tenancy, todo, listed>>

-----------------------------------------------------------------------------
(* handleHeartbeat *)

Heartbeat(t, k, s) ==
  /\ Idle(t)
  /\ MayTouch(t, {k})
  /\ OwnedBy(k, s)
  /\ job' = Set(job, t, [call |-> "member", key |-> k, subject |-> s,
                         ip |-> NoIP, lease |-> 0,
                         tenant |-> store[k].tenant])
  /\ UNCHANGED <<up, now, memory, device, provider, tenancy, todo, listed>>

AlwaysMember(n, s) == TRUE                                         \* mutant
IsMember(n, s) == n \in tenancy[s]

CheckMember(t) ==
  /\ At(t, "member")
  /\ IF IsMember(job[t].tenant, job[t].subject)
     THEN job' = [job EXCEPT ![t].call = "check"]
     ELSE Return(t)
  /\ UNCHANGED <<up, now, memory, device, provider, tenancy, todo, listed>>

CheckRegistered(t) ==
  /\ At(t, "check")
  /\ IF Registered(job[t].key, job[t].subject)
     THEN job' = [job EXCEPT ![t].call = "renew",
                             ![t].lease = LeaseEnd(job[t].key)]
     ELSE Return(t)
  /\ UNCHANGED <<up, now, memory, device, provider, tenancy, todo, listed>>

(* Renew of a key that has left the store meanwhile changes nothing, and   *)
(* the handler does not look at what it returns.                           *)
Renew(t) ==
  /\ At(t, "renew")
  /\ LET k == job[t].key
     IN  store' = IF k \in DOMAIN store
                  THEN [store EXCEPT ![k].lease = job[t].lease]
                  ELSE store
  /\ Return(t)
  /\ UNCHANGED <<up, now, used, list, device, provider, tenancy, todo, listed>>

-----------------------------------------------------------------------------
(* Dropping a peer: RemovePeer, then Delete, then Release, in              *)
(* handleDeregister as in the bodies of ReapExpired and Reconcile.         *)

Dropping(k, s, ip) ==
  [call |-> "remove", key |-> k, subject |-> s, ip |-> ip, lease |-> 0,
   tenant |-> NoTenant]

Deregister(t, k, s) ==
  /\ Idle(t)
  /\ MayTouch(t, {k})
  /\ OwnedBy(k, s)
  /\ job' = Set(job, t, Dropping(k, s, store[k].ip))
  /\ UNCHANGED <<up, now, memory, device, provider, tenancy, todo, listed>>

(* An error of RemovePeer is logged, and the drop goes on. *)
RemovePeer(p) ==
  /\ At(p, "remove")
  /\ \/ device' = WithoutPeer(device, job[p].key)
     \/ "remove" \in Faults /\ UNCHANGED device
  /\ job' = [job EXCEPT ![p].call = "delete"]
  /\ UNCHANGED <<up, now, memory, provider, tenancy, todo, listed>>

DeletePeer(p) ==
  /\ At(p, "delete")
  /\ store' = Unset(store, job[p].key)
  /\ job' = [job EXCEPT ![p].call = "release"]
  /\ UNCHANGED <<up, now, used, list, device, provider, tenancy, todo, listed>>

ReleaseIP(p) ==
  /\ At(p, "release")
  /\ used' = Released(used, job[p].ip)
  /\ Return(p)
  /\ UNCHANGED <<up, now, store, list, device, provider, tenancy, todo, listed>>

-----------------------------------------------------------------------------
(* The reaper and the syncer walk a snapshot of the store. *)

Snapshot(K) ==
  {[key |-> k, subject |-> store[k].subject, ip |-> store[k].ip] : k \in K}

EndedBefore(k) == store[k].lease < now                             \* mutant
Expired(k) == store[k].lease <= now

Resting(p) == up /\ p \notin DOMAIN job /\ todo[p] = {}

ReapExpired ==
  LET ended == {k \in DOMAIN store : Expired(k)}
  IN  /\ Resting("reaper")
      /\ ended # {}
      /\ MayTouch("reaper", ended)
      /\ todo' = [todo EXCEPT !["reaper"] = Snapshot(ended)]
      /\ UNCHANGED <<up, now, memory, device, provider, tenancy, job, listed>>

(* Refresh: a fetch that fails changes nothing. *)
Refresh ==
  /\ Registry
  /\ Resting("syncer")
  /\ ~listed
  /\ list' = [reg |-> reg, expires |-> now + ListTTL]
  /\ listed' = TRUE
  /\ UNCHANGED <<up, now, store, used, device, provider, tenancy, job, todo>>

Reconcile ==
  /\ Resting("syncer")
  /\ listed
  /\ MayTouch("syncer", DOMAIN store)
  /\ todo' = [todo EXCEPT !["syncer"] = Snapshot(DOMAIN store)]
  /\ listed' = FALSE
  /\ UNCHANGED <<up, now, memory, device, provider, tenancy, job>>

KeyListed(x) == Lookup(x.key)                                      \* mutant
NeverAllowed(x) == FALSE                                           \* mutant
StillAllowed(x) == Allowed(x.key, x.subject)

(* The next peer of the snapshot: Reconcile passes over one still allowed, *)
(* and everything else the two loops come to is dropped.                   *)
NextPeer(p) ==
  /\ up /\ p \notin DOMAIN job
  /\ \E x \in todo[p] :
       /\ todo' = [todo EXCEPT ![p] = @ \ {x}]
       /\ IF p = "syncer" /\ StillAllowed(x)
          THEN UNCHANGED job
          ELSE job' = Set(job, p, Dropping(x.key, x.subject, x.ip))
  /\ UNCHANGED <<up, now, memory, device, provider, tenancy, listed>>

-----------------------------------------------------------------------------
(* The process, the provider, the administrators and the clock. *)

Without(d, gone) == [k \in DOMAIN d \ gone |-> d[k]]

OursOnDevice == {k \in DOMAIN device : Ours(k)}

(* run, up to serving: a fresh pool, store and tenant store, the sweep of  *)
(* the device, and, with a registry, a first list that must arrive.  The   *)
(* syncer's goroutine starts by fetching again.                            *)
StartUp ==
  /\ ~up
  /\ up' = TRUE
  /\ used' = NewPool
  /\ device' = Without(device, OursOnDevice)
  /\ list' = IF Registry THEN [reg |-> reg, expires |-> now + ListTTL]
                         ELSE NoList
  /\ tenancy' = [s \in Subjects |-> {DefaultTenant}]
  /\ UNCHANGED <<now, store, provider, job, todo, listed>>

(* A sweep that cannot remove a peer, or a first fetch that fails, ends    *)
(* the process: what was swept stays swept.                                *)
StartFails ==
  /\ ~up
  /\ \E gone \in SUBSET OursOnDevice :
       /\ \/ "sweep" \in Faults /\ gone # OursOnDevice
          \/ "fetch" \in Faults /\ Registry /\ gone = OursOnDevice
       /\ device' = Without(device, gone)
  /\ UNCHANGED <<up, now, memory, provider, tenancy, job, todo, listed>>

(* A crash, or a stop, which does not wait for handlers in flight: memory  *)
(* is lost, and the device keeps its peers.                                *)
Crash ==
  /\ up
  /\ "crash" \in Faults
  /\ up' = FALSE
  /\ store' = Empty
  /\ used' = {}
  /\ list' = NoList
  /\ job' = Empty
  /\ todo' = [p \in Loops |-> {}]
  /\ listed' = FALSE
  /\ UNCHANGED <<now, device, provider, tenancy>>

Register(k, s) ==
  /\ Registry
  /\ reg' = Set(reg, k, [subject |-> s, end |-> now + RegTTL])
  /\ issued' = [issued EXCEPT ![k] = now + RegTTL]
  /\ UNCHANGED <<up, now, memory, device, tenancy, job, todo, listed>>

TakeBack(k) ==
  /\ k \in DOMAIN reg
  /\ reg' = Unset(reg, k)
  /\ UNCHANGED <<up, now, memory, device, issued, tenancy, job, todo, listed>>

(* An edit of the tenants, or a token with other claims. *)
ChangeTenancy(s, T) ==
  /\ up
  /\ tenancy' = [tenancy EXCEPT ![s] = T]
  /\ UNCHANGED <<up, now, memory, device, provider, job, todo, listed>>

Tick ==
  /\ now < MaxTime
  /\ now' = now + 1
  /\ UNCHANGED <<up, memory, device, provider, tenancy, job, todo, listed>>

-----------------------------------------------------------------------------

Init ==
  /\ up = FALSE
  /\ now = 0
  /\ store = Empty
  /\ used = {}
  /\ device = ByHand
  /\ list = NoList
  /\ reg = Empty
  /\ issued = [k \in Keys |-> 0]
  /\ tenancy = [s \in Subjects |-> {DefaultTenant}]
  /\ job = Empty
  /\ todo = [p \in Loops |-> {}]
  /\ listed = FALSE

Arrive(t) ==
  \E k \in Keys, s \in Subjects :
    \/ \E asked \in Asked : Enroll(t, k, s, asked)
    \/ Heartbeat(t, k, s)
    \/ Deregister(t, k, s)

Drop(p) == RemovePeer(p) \/ DeletePeer(p) \/ ReleaseIP(p)

Serve(t) ==
  \/ ChooseTenant(t) \/ GetPeer(t) \/ Allocate(t) \/ AddPeer(t)
  \/ AddPeerFails(t) \/ UndoAllocate(t) \/ Put(t)
  \/ CheckMember(t) \/ CheckRegistered(t) \/ Renew(t)
  \/ Drop(t)

Walk(p) == NextPeer(p) \/ Drop(p)

Environment ==
  \/ StartFails \/ Crash \/ Tick
  \/ \E k \in Keys : TakeBack(k) \/ \E s \in Subjects : Register(k, s)
  \/ \E s \in Subjects, T \in (SUBSET Tenants) \ {{}} : ChangeTenancy(s, T)

Next ==
  \/ \E t \in Threads : Arrive(t) \/ Serve(t)
  \/ ReapExpired \/ Refresh \/ Reconcile
  \/ \E p \in Loops : Walk(p)
  \/ StartUp
  \/ Environment

Spec == Init /\ [][Next]_vars

(***************************************************************************)
(* Every goroutine that can run does; the tickers of the reaper and of the *)
(* syncer keep coming, and the provider, asked again and again, answers.   *)
(* Nothing makes a request arrive, the clock pass or an administrator act. *)
(***************************************************************************)
Fairness ==
  /\ \A t \in Threads : WF_vars(Serve(t))
  /\ \A p \in Loops : WF_vars(Walk(p))
  /\ WF_vars(ReapExpired) /\ WF_vars(Refresh) /\ WF_vars(Reconcile)
  /\ WF_vars(StartUp)

FairSpec == Spec /\ Fairness

-----------------------------------------------------------------------------

DeviceKeys == Keys \cup DOMAIN ByHand
AllowedIPs == Hosts \cup UNION {ByHand[k] : k \in DOMAIN ByHand}

(* Types: in particular, a call made with an address or for a tenant has    *)
(* one in hand.                                                            *)
TypeOK ==
  /\ up \in BOOLEAN
  /\ now \in Nat
  /\ IsMap(store, Keys, Peer)
  /\ used \subseteq Hosts
  /\ IsMap(device, DeviceKeys, SUBSET AllowedIPs)
  /\ list.expires \in Nat /\ IsMap(list.reg, Keys, Registration)
  /\ IsMap(reg, Keys, Registration)
  /\ issued \in [Keys -> Nat]
  /\ tenancy \in [Subjects -> SUBSET Tenants]
  /\ IsMap(job, Procs, Job)
  /\ todo \in [Loops -> SUBSET Target]
  /\ listed \in BOOLEAN

(* The gateway's own address is never a device's: in no interleaving of    *)
(* allocations, failed additions, drops and restarts does the pool give it *)
(* up, and neither the store nor the WireGuard device ever has it.         *)
ServerAddressReserved ==
  /\ up => ServerIP \in used
  /\ \A k \in DOMAIN store : store[k].ip # ServerIP
  /\ \A k \in DOMAIN device : ServerIP \notin device[k]

(* "A lease never outlives the key's registration" (README.md:75): however *)
(* enrollments, renewals, re-registrations and new lists interleave, a     *)
(* stored lease ends no later than the last registration the provider      *)
(* issued for the key.                                                     *)
LeaseWithinRegistration ==
  Registry => \A k \in DOMAIN store : store[k].lease <= issued[k]

(* No two enrolled devices have one address (ipam.go:41).                  *)
AddressesUnique ==
  \A k1, k2 \in DOMAIN store : store[k1].ip = store[k2].ip => k1 = k2

(* Keys no operation is working on. *)
Settled(k) ==
  /\ up
  /\ \A p \in DOMAIN job : job[p].key # k
  /\ \A p \in Loops : \A x \in todo[p] : x.key # k

(* The pool loses no address and frees none in use: once no operation is   *)
(* in flight, what is taken is the gateway's address and those of the      *)
(* enrolled devices.                                                       *)
PoolAccountsForStore ==
  up /\ (\A k \in Keys : Settled(k)) =>
    used = {ServerIP} \cup {store[k].ip : k \in DOMAIN store}

(* "one peer per enrolled device" (README.md:6): a key no operation is     *)
(* working on is a peer of the device exactly when it is enrolled, and its *)
(* allowed IP is the address it was given.                                 *)
DeviceMatchesStore ==
  \A k \in Keys : Settled(k) =>
    /\ k \in DOMAIN device <=> k \in DOMAIN store
    /\ k \in DOMAIN store => device[k] = {store[k].ip}

(* "At startup the server therefore removes the peers a previous run left" *)
(* and any other "is left alone" (README.md:48): whatever was enrolled and *)
(* however often it crashed or its sweep was cut short, when it serves,    *)
(* the device has the peers configured by hand, as they were, and no more. *)
StartsClean == [][~up /\ up' => device' = ByHand]_vars

(* "A key belongs to whoever enrolled it" (README.md:57): no step passes   *)
(* an enrolled key from one person to another.                             *)
OwnerStays ==
  [][\A k \in DOMAIN store \cap DOMAIN store' :
       store'[k].subject = store[k].subject]_vars

(* The store keeps the promises of LeaseBook: a key's entry changes hands  *)
(* or address only by being dropped first, and no address is entered for   *)
(* two keys.                                                               *)
Book == INSTANCE LeaseBook WITH
  Addresses <- Hosts \ {ServerIP},
  book <- [k \in DOMAIN store |->
             [subject |-> store[k].subject, ip |-> store[k].ip]]

KeepsBook == Book!Spec

(* The reconciliation drops no peer whose key the list in force still      *)
(* allows its owner (api.go:75): the removal comes later than the decision *)
(* and goes by a snapshot, but never against the list.                     *)
DropsOnlyTakenBack ==
  At("syncer", "remove") => ~Allowed(job["syncer"].key, job["syncer"].subject)

(* A request of s is about to enter or to renew a session in tenant n. *)
Continues(s, n) ==
  \E t \in DOMAIN job :
    /\ job[t].subject = s
    /\ \/ job[t].call = "put" /\ job[t].tenant = n
       \/ /\ job[t].call = "renew"
          /\ OwnedBy(job[t].key, s) /\ store[job[t].key].tenant = n

(* A person removed from a tenant for good soon enters and renews nothing  *)
(* in it any more (api.go:253), whatever requests of theirs overlapped     *)
(* with the removal, so that their sessions in it end with their leases.   *)
RemovedStopRenewing ==
  \A s \in Subjects, n \in Tenants :
    <>[](n \notin tenancy[s]) => <>[]~Continues(s, n)

(* A key its owner does not have registered any more, for good, leaves the *)
(* store for good, whatever enrollments were in flight when it was taken   *)
(* back (README.md:81).                                                    *)
TakenBackLeavesStore ==
  \A k \in Keys, s \in Subjects :
    Registry /\ <>[](~(k \in DOMAIN reg /\ reg[k].subject = s))
      => <>[](~OwnedBy(k, s))

(* A lease that has ended is renewed or its peer leaves the store          *)
(* (README.md:44).                                                         *)
EndedLeaseLeavesStore ==
  \A k \in Keys :
    (k \in DOMAIN store /\ store[k].lease <= now)
      ~> (k \notin DOMAIN store \/ store[k].lease > now)
=============================================================================
