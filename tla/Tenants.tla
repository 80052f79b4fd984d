------------------------------ MODULE Tenants ------------------------------
(***************************************************************************)
(* internal/tenant and internal/grpcsrv: the tenants administrators edit,  *)
(* who belongs to them, and the Watch streams that push a tenant's routes  *)
(* to devices.  Every method of the tenant store holds its mutex, so each  *)
(* is one action; a stream is a sequence of calls between which tenants    *)
(* may change.  A route set is known by its serial.                        *)
(***************************************************************************)
EXTENDS Naturals, FiniteSets

CONSTANTS
  TenantIDs,    \* slugs of tenants
  DefaultID,
  Credentials,  \* what a token may prove: a verified email's domain, a
                \* group, an institution; none of them blank
  Watchers,     \* devices that watch their routes
  Proves,       \* device -> credentials its owner's token proves
  Deletable,    \* tenants administrators may delete
  MaxSerial,    \* bound on the updates of a tenant
  MaxSubs       \* bound on the subscriptions ever made

ASSUME TenantsAssumption ==
  /\ DefaultID \in TenantIDs
  /\ Deletable \subseteq TenantIDs
  /\ Proves \in [Watchers -> SUBSET Credentials]
  /\ MaxSerial \in Nat \ {0} /\ MaxSubs \in Nat

VARIABLES
  tenants,      \* id -> [rule: credentials that are members, serial]
  subs,         \* id -> subscriptions of that tenant
  chan,         \* subscription -> [open, buf: the serial buffered, or 0]
  nextSub,
  stream        \* device -> its Watch call

vars == <<tenants, subs, chan, nextSub, stream>>

NoStream == [pc |-> "closed", tenant |-> DefaultID, from |-> DefaultID,
             sub |-> 0, hand |-> 0, seen |-> 0]

-----------------------------------------------------------------------------
(* Membership. *)

has(id, w) == tenants[id].rule \cap Proves[w] # {}

For(w) ==
  LET matching == {id \in DOMAIN tenants : has(id, w)}
  IN  IF matching = {} THEN {DefaultID} ELSE matching

IsMember(id, w) == id \in For(w)

(* The tenant a method works on when asked for id: the default if unknown. *)
Resolve(id) == IF id \in DOMAIN tenants THEN id ELSE DefaultID

-----------------------------------------------------------------------------
(* The administrators' operations. *)

Create(id, rule) ==
  /\ id \notin DOMAIN tenants
  /\ tenants' = [x \in DOMAIN tenants \cup {id} |->
                   IF x = id THEN [rule |-> rule, serial |-> 1]
                             ELSE tenants[x]]
  /\ subs' = [x \in DOMAIN subs \cup {id} |-> IF x = id THEN {} ELSE subs[x]]
  /\ UNCHANGED <<chan, nextSub, stream>>

SameSerial(n) == n                                                 \* mutant
NextSerial(n) == n + 1

(* broadcastLocked: a set still buffered is replaced by the new one. *)
KeepPending(c, n) == IF c.buf = 0 THEN [c EXCEPT !.buf = n] ELSE c \* mutant
Push(c, n) == [c EXCEPT !.buf = n]

Update(id, rule) ==
  /\ id \in DOMAIN tenants
  /\ tenants[id].serial < MaxSerial
  /\ LET n == NextSerial(tenants[id].serial)
     IN  /\ tenants' = [tenants EXCEPT ![id] = [rule |-> rule, serial |-> n]]
         /\ chan' = [c \in DOMAIN chan |->
                       IF c \in subs[id] THEN Push(chan[c], n) ELSE chan[c]]
  /\ UNCHANGED <<subs, nextSub, stream>>

LeaveOpen(id) == chan                                              \* mutant
CloseAll(id) ==
  [c \in DOMAIN chan |->
     IF c \in subs[id] THEN [chan[c] EXCEPT !.open = FALSE] ELSE chan[c]]

Delete(id) ==
  /\ id # DefaultID
  /\ id \in Deletable \cap DOMAIN tenants
  /\ chan' = CloseAll(id)
  /\ tenants' = [x \in DOMAIN tenants \ {id} |-> tenants[x]]
  /\ subs' = [x \in DOMAIN subs \ {id} |-> subs[x]]
  /\ UNCHANGED <<nextSub, stream>>

-----------------------------------------------------------------------------
(* A Watch stream. *)

At(w, pc) == stream[w].pc = pc
Goto(w, pc) == stream' = [stream EXCEPT ![w].pc = pc]

(* The device's enrollment is found, and with it the tenant it chose. *)
Watch(w, id) ==
  /\ At(w, "closed")
  /\ stream' = [stream EXCEPT ![w] = [NoStream EXCEPT !.pc = "found",
                                                      !.tenant = id]]
  /\ UNCHANGED <<tenants, subs, chan, nextSub>>

GetTenant(w) ==
  /\ At(w, "found")
  /\ IF stream[w].tenant \in DOMAIN tenants
     THEN Goto(w, "exists")
     ELSE stream' = [stream EXCEPT ![w] = NoStream]
  /\ UNCHANGED <<tenants, subs, chan, nextSub>>

CheckMember(w) ==
  /\ At(w, "exists")
  /\ IF IsMember(stream[w].tenant, w)
     THEN Goto(w, "member")
     ELSE stream' = [stream EXCEPT ![w] = NoStream]
  /\ UNCHANGED <<tenants, subs, chan, nextSub>>

PerTenantSub(id) == Cardinality(subs[id]) + 1                      \* mutant
FreshSub(id) == nextSub

Subscribe(w) ==
  /\ At(w, "member")
  /\ nextSub <= MaxSubs
  /\ LET id == Resolve(stream[w].tenant)
         sub == FreshSub(id)
     IN  /\ subs' = [subs EXCEPT ![id] = @ \cup {sub}]
         /\ chan' = [c \in DOMAIN chan \cup {sub} |->
                       IF c = sub THEN [open |-> TRUE, buf |-> 0] ELSE chan[c]]
         /\ stream' = [stream EXCEPT ![w].pc = "send", ![w].from = id,
                                     ![w].sub = sub,
                                     ![w].hand = tenants[id].serial]
  /\ nextSub' = nextSub + 1
  /\ UNCHANGED tenants

Send(w) ==
  /\ At(w, "send")
  /\ stream' = [stream EXCEPT ![w].pc = "watch", ![w].seen = stream[w].hand,
                              ![w].hand = 0]
  /\ UNCHANGED <<tenants, subs, chan, nextSub>>

(* A closed channel yields what it still buffers first. *)
NeverEnded(c) == FALSE                                             \* mutant
Ended(c) == c.buf = 0 /\ ~c.open

Receive(w) ==
  LET sub == stream[w].sub
  IN  /\ At(w, "watch")
      /\ \/ /\ chan[sub].buf # 0
            /\ stream' = [stream EXCEPT ![w].pc = "send",
                                        ![w].hand = chan[sub].buf]
            /\ chan' = [chan EXCEPT ![sub].buf = 0]
         \/ /\ Ended(chan[sub])
            /\ Goto(w, "leave")
            /\ UNCHANGED chan
      /\ UNCHANGED <<tenants, subs, nextSub>>

(* The client goes away: a send fails, or the context is done. *)
Hangup(w) ==
  /\ At(w, "send") \/ At(w, "watch")
  /\ Goto(w, "leave")
  /\ UNCHANGED <<tenants, subs, chan, nextSub>>

ForgetNothing(id, sub) == subs                                     \* mutant
Forget(id, sub) == [subs EXCEPT ![id] = @ \ {sub}]

Unsubscribe(w) ==
  LET id == Resolve(stream[w].tenant)
      sub == stream[w].sub
  IN  /\ At(w, "leave")
      /\ subs' = Forget(id, sub)
      /\ chan' = IF sub \in subs[id] THEN [chan EXCEPT ![sub].open = FALSE]
                                     ELSE chan
      /\ stream' = [stream EXCEPT ![w] = NoStream]
      /\ UNCHANGED <<tenants, nextSub>>

-----------------------------------------------------------------------------
Init ==
  /\ tenants = [id \in {DefaultID} |-> [rule |-> {}, serial |-> 1]]
  /\ subs = [id \in {DefaultID} |-> {}]
  /\ chan = [c \in {} |-> [open |-> FALSE, buf |-> 0]]
  /\ nextSub = 1
  /\ stream = [w \in Watchers |-> NoStream]

Administer ==
  \E id \in TenantIDs :
    \/ Delete(id)
    \/ \E rule \in SUBSET Credentials : Create(id, rule) \/ Update(id, rule)

Serve(w) ==
  \/ GetTenant(w) \/ CheckMember(w) \/ Subscribe(w)
  \/ Send(w) \/ Receive(w) \/ Unsubscribe(w)

Client(w) == Hangup(w) \/ \E id \in TenantIDs : Watch(w, id)

Next == Administer \/ \E w \in Watchers : Serve(w) \/ Client(w)

Spec == Init /\ [][Next]_vars

(* A stream's goroutine is scheduled again and again, and the mutex it     *)
(* waits for is only ever held for a few statements.  Nothing obliges a    *)
(* client to hang up, or an administrator to act.                          *)
FairSpec == Spec /\ \A w \in Watchers : WF_vars(Serve(w))

-----------------------------------------------------------------------------
(* Properties. *)

PCs == {"closed", "found", "exists", "member", "send", "watch", "leave"}

Tenant == [rule : SUBSET Credentials, serial : 1..MaxSerial]
Channel == [open : BOOLEAN, buf : 0..MaxSerial]
WatchCall == [pc : PCs, tenant : TenantIDs, from : TenantIDs, sub : 0..MaxSubs,
              hand : 0..MaxSerial, seen : 0..MaxSerial]

(* Every tenant has its watchers, the default tenant is always there, and  *)
(* the call of every Watch stream is well formed.                          *)
TypeOK ==
  /\ DefaultID \in DOMAIN tenants /\ DOMAIN tenants \subseteq TenantIDs
  /\ \A id \in DOMAIN tenants : tenants[id] \in Tenant
  /\ nextSub \in 1..(MaxSubs + 1)
  /\ DOMAIN subs = DOMAIN tenants
  /\ \A id \in DOMAIN subs : subs[id] \subseteq DOMAIN chan
  /\ DOMAIN chan = 1..(nextSub - 1)
  /\ \A c \in DOMAIN chan : chan[c] \in Channel
  /\ stream \in [Watchers -> WatchCall]

Streaming(w) == stream[w].pc \in {"send", "watch"}
Holds(w) == Streaming(w) \/ At(w, "leave")

(* broadcastLocked never sends on a closed channel and neither Delete nor  *)
(* Unsubscribe closes one twice, either of which would panic: the channels *)
(* of a tenant's watchers are open, and each belongs to one tenant.        *)
SubscribersOpen ==
  \A id \in DOMAIN subs : \A c \in subs[id] :
    /\ chan[c].open
    /\ \A other \in DOMAIN subs \ {id} : c \notin subs[other]

(* A stream that may still receive is one its tenant knows: an open        *)
(* channel nobody would ever send on or close is a Watch that never ends   *)
(* and never hears of an update.                                           *)
OpenStreamsAreKnown ==
  \A w \in Watchers : Holds(w) /\ chan[stream[w].sub].open =>
    \E id \in DOMAIN subs : stream[w].sub \in subs[id]

(* A stream never sends a route set twice or an older one after a newer:   *)
(* every Send carries a greater serial than the one before.                *)
SerialsIncrease ==
  [][\A w \in Watchers : At(w, "send") /\ stream'[w].pc = "watch" =>
       stream[w].seen < stream'[w].seen]_vars

Behind(w) ==
  /\ Streaming(w)
  /\ stream[w].from \in DOMAIN subs
  /\ stream[w].sub \in subs[stream[w].from]
  /\ stream[w].seen # tenants[stream[w].from].serial

(* A watcher that lags behind its tenant, however many updates came while  *)
(* it was sending, ends up with the tenant's current routes.               *)
EventuallyCurrent == \A w \in Watchers : Behind(w) ~> ~Behind(w)

(* Delete ends the streams of the tenant: a stream whose channel is closed *)
(* returns, even if a route set was still buffered.                        *)
ClosedStreamsEnd ==
  \A w \in Watchers :
    (Streaming(w) /\ ~chan[stream[w].sub].open) ~> At(w, "closed")

=============================================================================
