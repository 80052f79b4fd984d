--------------------------- MODULE TenantsProofs ---------------------------
(***************************************************************************)
(* Proofs about Tenants, for any tenants, credentials, devices and bounds. *)
(***************************************************************************)
EXTENDS Tenants, TLAPS

(* A stream's call with some of its fields replaced is one of these. *)
LEMMA CallUpdates ==
  ASSUME NEW r \in WatchCall, NEW pc \in PCs, NEW sub \in 0..MaxSubs,
         NEW from \in TenantIDs, NEW hand \in 0..MaxSerial,
         NEW seen \in 0..MaxSerial
  PROVE  /\ [r EXCEPT !.pc = pc] \in WatchCall
         /\ [r EXCEPT !.pc = pc, !.hand = hand] \in WatchCall
         /\ [r EXCEPT !.pc = pc, !.seen = seen, !.hand = hand] \in WatchCall
         /\ [r EXCEPT !.pc = pc, !.from = from, !.sub = sub, !.hand = hand]
              \in WatchCall
BY Zenon DEF WatchCall

(* No stream at all is a call. *)
LEMMA NoStreamType == NoStream \in WatchCall
BY TenantsAssumption DEF NoStream, WatchCall, PCs

(* The stream of w becomes r, and the others go on as they were. *)
Becomes(w, r) ==
  /\ stream'[w] = r
  /\ \A x \in Watchers \ {w} : stream'[x] = stream[x]

(* What each step of a stream makes of it. *)
LEMMA StreamBecomes ==
  ASSUME TypeOK, NEW w \in Watchers
  PROVE  /\ \A id \in TenantIDs : Watch(w, id) =>
              Becomes(w, [NoStream EXCEPT !.pc = "found", !.tenant = id])
         /\ GetTenant(w) =>
              \/ Becomes(w, [stream[w] EXCEPT !.pc = "exists"])
              \/ Becomes(w, NoStream)
         /\ CheckMember(w) =>
              \/ Becomes(w, [stream[w] EXCEPT !.pc = "member"])
              \/ Becomes(w, NoStream)
         /\ Subscribe(w) =>
              LET id == Resolve(stream[w].tenant)
              IN  Becomes(w, [stream[w] EXCEPT !.pc = "send", !.from = id,
                                               !.sub = nextSub,
                                               !.hand = tenants[id].serial])
         /\ Send(w) =>
              Becomes(w, [stream[w] EXCEPT !.pc = "watch",
                                           !.seen = stream[w].hand, !.hand = 0])
         /\ Hangup(w) => Becomes(w, [stream[w] EXCEPT !.pc = "leave"])
         /\ Unsubscribe(w) => Becomes(w, NoStream)
<1>0. stream \in [Watchers -> WatchCall]
  BY DEF TypeOK
<1>1. ASSUME NEW r, stream' = [stream EXCEPT ![w] = r] PROVE Becomes(w, r)
  BY <1>0, <1>1 DEF Becomes
<1>2. ASSUME NEW id \in TenantIDs, Watch(w, id)
      PROVE  Becomes(w, [NoStream EXCEPT !.pc = "found", !.tenant = id])
  BY Zenon, <1>1, <1>2 DEF Watch
<1>3. ASSUME NEW pc, Goto(w, pc) PROVE Becomes(w, [stream[w] EXCEPT !.pc = pc])
  <2>1. stream' = [stream EXCEPT ![w] = [stream[w] EXCEPT !.pc = pc]]
    BY Zenon, <1>3 DEF Goto
  <2> QED BY Zenon, <1>1, <2>1
<1>4. ASSUME Subscribe(w)
      PROVE  LET id == Resolve(stream[w].tenant)
             IN  Becomes(w, [stream[w] EXCEPT !.pc = "send", !.from = id,
                                              !.sub = nextSub,
                                              !.hand = tenants[id].serial])
  <2> DEFINE id == Resolve(stream[w].tenant)
  <2>1. stream' = [stream EXCEPT ![w].pc = "send", ![w].from = id,
                                 ![w].sub = nextSub,
                                 ![w].hand = tenants[id].serial]
    BY Zenon, <1>4 DEF Subscribe, FreshSub
  <2>2. stream' = [stream EXCEPT ![w] =
                     [stream[w] EXCEPT !.pc = "send", !.from = id,
                                       !.sub = nextSub,
                                       !.hand = tenants[id].serial]]
    BY Zenon, <2>1
  <2> QED BY Zenon, <1>1, <2>2
<1>5. ASSUME Send(w)
      PROVE  Becomes(w, [stream[w] EXCEPT !.pc = "watch",
                                          !.seen = stream[w].hand, !.hand = 0])
  <2>1. stream' = [stream EXCEPT ![w] =
                     [stream[w] EXCEPT !.pc = "watch",
                                       !.seen = stream[w].hand, !.hand = 0]]
    BY Zenon, <1>5 DEF Send
  <2> QED BY Zenon, <1>1, <2>1
<1>6. GetTenant(w) => \/ Becomes(w, [stream[w] EXCEPT !.pc = "exists"])
                      \/ Becomes(w, NoStream)
  BY Zenon, <1>1, <1>3 DEF GetTenant
<1>7. CheckMember(w) => \/ Becomes(w, [stream[w] EXCEPT !.pc = "member"])
                        \/ Becomes(w, NoStream)
  BY Zenon, <1>1, <1>3 DEF CheckMember
<1>8. Hangup(w) => Becomes(w, [stream[w] EXCEPT !.pc = "leave"])
  BY Zenon, <1>3 DEF Hangup
<1>9. Unsubscribe(w) => Becomes(w, NoStream)
  BY Zenon, <1>1 DEF Unsubscribe
<1> QED BY Zenon, <1>2, <1>4, <1>5, <1>6, <1>7, <1>8, <1>9

(* Receive takes what is buffered in hand, or ends the stream. *)
LEMMA ReceiveBecomes ==
  ASSUME TypeOK, NEW w \in Watchers, Receive(w)
  PROVE  \/ /\ chan[stream[w].sub].buf # 0
            /\ Becomes(w, [stream[w] EXCEPT !.pc = "send",
                                            !.hand = chan[stream[w].sub].buf])
            /\ chan' = [chan EXCEPT ![stream[w].sub].buf = 0]
         \/ /\ Becomes(w, [stream[w] EXCEPT !.pc = "leave"])
            /\ UNCHANGED chan
<1>0. stream \in [Watchers -> WatchCall]
  BY DEF TypeOK
<1>1. ASSUME NEW r, stream' = [stream EXCEPT ![w] = r] PROVE Becomes(w, r)
  BY <1>0, <1>1 DEF Becomes
<1>2. ASSUME NEW n, stream' = [stream EXCEPT ![w].pc = "send", ![w].hand = n]
      PROVE  Becomes(w, [stream[w] EXCEPT !.pc = "send", !.hand = n])
  <2>1. stream' = [stream EXCEPT ![w] = [stream[w] EXCEPT !.pc = "send", !.hand = n]]
    BY Zenon, <1>2
  <2> QED BY Zenon, <1>1, <2>1
<1>3. ASSUME Goto(w, "leave")
      PROVE  Becomes(w, [stream[w] EXCEPT !.pc = "leave"])
  <2>1. stream' = [stream EXCEPT ![w] = [stream[w] EXCEPT !.pc = "leave"]]
    BY Zenon, <1>3 DEF Goto
  <2> QED BY Zenon, <1>1, <2>1
<1> QED BY Zenon, <1>2, <1>3 DEF Receive

-----------------------------------------------------------------------------
(* Types. *)

(* TypeOK is not inductive: what Receive takes in hand comes from a channel *)
(* that must exist.                                                         *)
HaveChannels == \A w \in Watchers : Holds(w) => stream[w].sub \in DOMAIN chan

(* The tenant store and the channels stay well formed in a step that       *)
(* leaves them alone.                                                      *)
LEMMA StoreUntouched ==
  ASSUME TypeOK, UNCHANGED <<tenants, subs, chan, nextSub>>,
         stream' \in [Watchers -> WatchCall]
  PROVE  TypeOK'
BY DEF TypeOK

(* What a method resolves an id to is a tenant. *)
LEMMA ResolveType ==
  ASSUME TypeOK, NEW id
  PROVE  /\ Resolve(id) \in DOMAIN tenants
         /\ Resolve(id) \in TenantIDs
         /\ tenants[Resolve(id)].serial \in 1..MaxSerial
BY DEF TypeOK, Resolve, Tenant

(* Every step keeps the types. *)
LEMMA TenantsTypeStep ==
  ASSUME TypeOK, HaveChannels, [Next]_vars PROVE TypeOK'
<1> USE TenantsAssumption
<1>1. ASSUME NEW id \in TenantIDs, NEW rule \in SUBSET Credentials,
             Create(id, rule)
      PROVE  TypeOK'
  <2>1. [rule |-> rule, serial |-> 1] \in Tenant
    BY DEF Tenant
  <2> QED BY <1>1, <2>1 DEF Create, TypeOK
<1>2. ASSUME NEW id \in TenantIDs, NEW rule \in SUBSET Credentials,
             Update(id, rule)
      PROVE  TypeOK'
  <2> DEFINE n == tenants[id].serial + 1
  <2>1. n \in 1..MaxSerial /\ [rule |-> rule, serial |-> n] \in Tenant
    BY <1>2 DEF Update, TypeOK, Tenant
  <2>2. /\ tenants' = [tenants EXCEPT ![id] = [rule |-> rule, serial |-> n]]
        /\ chan' = [c \in DOMAIN chan |->
                      IF c \in subs[id] THEN Push(chan[c], n) ELSE chan[c]]
        /\ UNCHANGED <<subs, nextSub, stream>>
    BY <1>2 DEF Update, NextSerial
  <2>3. \A c \in DOMAIN chan : Push(chan[c], n) \in Channel
    BY <2>1 DEF TypeOK, Push, Channel
  <2> HIDE DEF n
  <2> QED BY <2>1, <2>2, <2>3 DEF TypeOK
<1>3. ASSUME NEW id \in TenantIDs, Delete(id) PROVE TypeOK'
  <2>1. \A c \in DOMAIN chan : [chan[c] EXCEPT !.open = FALSE] \in Channel
    BY Zenon DEF TypeOK, Channel
  <2> QED BY <1>3, <2>1 DEF Delete, CloseAll, TypeOK
<1>4. ASSUME NEW w \in Watchers, NEW id \in TenantIDs, Watch(w, id)
      PROVE  TypeOK'
  <2>1. [NoStream EXCEPT !.pc = "found", !.tenant = id] \in WatchCall
    BY Zenon, NoStreamType DEF WatchCall, PCs
  <2> QED BY <1>4, <2>1, StoreUntouched DEF Watch, TypeOK
<1>5. ASSUME NEW w \in Watchers, GetTenant(w) \/ CheckMember(w) \/ Hangup(w)
      PROVE  TypeOK'
  <2>1. \A pc \in PCs : [stream[w] EXCEPT !.pc = pc] \in WatchCall
    BY Zenon DEF TypeOK, WatchCall
  <2>2. stream' \in [Watchers -> WatchCall]
    BY <1>5, <2>1, NoStreamType
    DEF TypeOK, GetTenant, CheckMember, Hangup, Goto, PCs
  <2> QED BY <1>5, <2>2, StoreUntouched DEF GetTenant, CheckMember, Hangup
<1>6. ASSUME NEW w \in Watchers, Subscribe(w) PROVE TypeOK'
  <2> DEFINE id == Resolve(stream[w].tenant)
  <2>1. /\ id \in DOMAIN tenants /\ id \in TenantIDs
        /\ tenants[id].serial \in 1..MaxSerial
    BY ResolveType
  <2>2. nextSub \in 1..MaxSubs
    BY <1>6 DEF Subscribe, TypeOK
  <2>3. /\ subs' = [subs EXCEPT ![id] = @ \cup {nextSub}]
        /\ chan' = [c \in DOMAIN chan \cup {nextSub} |->
                      IF c = nextSub THEN [open |-> TRUE, buf |-> 0] ELSE chan[c]]
        /\ stream' = [stream EXCEPT ![w].pc = "send", ![w].from = id,
                                    ![w].sub = nextSub,
                                    ![w].hand = tenants[id].serial]
        /\ nextSub' = nextSub + 1
        /\ UNCHANGED tenants
    BY <1>6 DEF Subscribe, FreshSub
  <2> HIDE DEF id
  <2>4. [open |-> TRUE, buf |-> 0] \in Channel
    BY DEF Channel
  <2>5. stream' \in [Watchers -> WatchCall]
    <3>1. [stream[w] EXCEPT !.pc = "send", !.from = id, !.sub = nextSub,
                            !.hand = tenants[id].serial] \in WatchCall
      <4>1. /\ stream[w] \in WatchCall /\ "send" \in PCs
            /\ nextSub \in 0..MaxSubs /\ tenants[id].serial \in 0..MaxSerial
            /\ 0 \in 0..MaxSerial
        BY <2>1, <2>2 DEF TypeOK, PCs
      <4> QED BY <2>1, <4>1, CallUpdates
    <3>2. stream' = [stream EXCEPT ![w] =
                       [stream[w] EXCEPT !.pc = "send", !.from = id,
                          !.sub = nextSub, !.hand = tenants[id].serial]]
      BY Zenon, <2>3
    <3> QED BY <3>1, <3>2 DEF TypeOK
  <2>6. DOMAIN chan' = 1..(nextSub' - 1) /\ nextSub' \in 1..(MaxSubs + 1)
    BY <2>2, <2>3 DEF TypeOK
  <2>7. \A c \in DOMAIN chan' : chan'[c] \in Channel
    BY <2>3, <2>4 DEF TypeOK
  <2>8. \A x \in DOMAIN subs' : subs'[x] \subseteq DOMAIN chan'
    BY <2>1, <2>3 DEF TypeOK
  <2> QED BY Zenon, <2>1, <2>3, <2>5, <2>6, <2>7, <2>8 DEF TypeOK
<1>7. ASSUME NEW w \in Watchers, Send(w) PROVE TypeOK'
  <2>1. [stream[w] EXCEPT !.pc = "watch", !.seen = stream[w].hand, !.hand = 0]
          \in WatchCall
    <3>1. stream[w] \in WatchCall /\ "watch" \in PCs /\ 0 \in 0..MaxSerial
      BY DEF TypeOK, PCs
    <3>2. stream[w].hand \in 0..MaxSerial /\ stream[w].sub \in 0..MaxSubs
      BY <3>1 DEF WatchCall
    <3> QED BY <3>1, <3>2, CallUpdates
  <2>2. stream' = [stream EXCEPT ![w] =
                     [stream[w] EXCEPT !.pc = "watch",
                                       !.seen = stream[w].hand, !.hand = 0]]
    BY Zenon, <1>7 DEF Send
  <2>3. stream' \in [Watchers -> WatchCall]
    BY <2>1, <2>2 DEF TypeOK
  <2> QED BY <1>7, <2>3, StoreUntouched DEF Send
<1>8. ASSUME NEW w \in Watchers, Receive(w) PROVE TypeOK'
  <2> DEFINE sub == stream[w].sub
  <2>1. sub \in DOMAIN chan /\ chan[sub] \in Channel
    BY <1>8 DEF Receive, TypeOK, HaveChannels, Holds, Streaming, At
  <2>2. CASE /\ stream' = [stream EXCEPT ![w].pc = "send",
                                         ![w].hand = chan[sub].buf]
             /\ chan' = [chan EXCEPT ![sub].buf = 0]
    <3>1. [stream[w] EXCEPT !.pc = "send", !.hand = chan[sub].buf] \in WatchCall
      BY ZenonT(30), <2>1 DEF TypeOK, Channel, WatchCall, PCs
    <3>2. stream' = [stream EXCEPT ![w] =
                       [stream[w] EXCEPT !.pc = "send", !.hand = chan[sub].buf]]
      BY Zenon, <2>2
    <3>3. stream' \in [Watchers -> WatchCall]
      BY <3>1, <3>2 DEF TypeOK
    <3>4. [chan[sub] EXCEPT !.buf = 0] \in Channel
      BY <2>1 DEF Channel
    <3>5. DOMAIN chan' = DOMAIN chan /\ \A c \in DOMAIN chan' : chan'[c] \in Channel
      BY <2>1, <2>2, <3>4 DEF TypeOK
    <3> QED BY <1>8, <3>3, <3>5 DEF Receive, TypeOK
  <2>3. CASE Goto(w, "leave") /\ UNCHANGED chan
    <3>1. [stream[w] EXCEPT !.pc = "leave"] \in WatchCall
      BY Zenon DEF TypeOK, WatchCall, PCs
    <3>2. stream' \in [Watchers -> WatchCall]
      BY <2>3, <3>1 DEF TypeOK, Goto
    <3> QED BY <1>8, <2>3, <3>2, StoreUntouched DEF Receive
  <2> QED BY <1>8, <2>2, <2>3 DEF Receive
<1>9. ASSUME NEW w \in Watchers, Unsubscribe(w) PROVE TypeOK'
  <2> DEFINE id == Resolve(stream[w].tenant)
             sub == stream[w].sub
  <2>1. /\ subs' = [subs EXCEPT ![id] = @ \ {sub}]
        /\ chan' = IF sub \in subs[id] THEN [chan EXCEPT ![sub].open = FALSE]
                                       ELSE chan
        /\ stream' = [stream EXCEPT ![w] = NoStream]
        /\ UNCHANGED <<tenants, nextSub>>
    BY <1>9 DEF Unsubscribe, Forget
  <2>2. id \in DOMAIN tenants
    BY ResolveType
  <2>3. \A c \in DOMAIN chan : [chan[c] EXCEPT !.open = FALSE] \in Channel
    BY Zenon DEF TypeOK, Channel
  <2> HIDE DEF id, sub
  <2>4. DOMAIN chan' = DOMAIN chan /\ \A c \in DOMAIN chan' : chan'[c] \in Channel
    BY <2>1, <2>2, <2>3 DEF TypeOK
  <2>5. stream' \in [Watchers -> WatchCall]
    BY <2>1, NoStreamType DEF TypeOK
  <2>6. DOMAIN subs' = DOMAIN subs /\ \A x \in DOMAIN subs' : subs'[x] \subseteq DOMAIN chan'
    BY <2>1, <2>2, <2>4 DEF TypeOK
  <2> QED BY Zenon, <2>1, <2>4, <2>5, <2>6 DEF TypeOK
<1>10. ASSUME UNCHANGED vars PROVE TypeOK'
  BY <1>10 DEF vars, TypeOK
<1> QED BY <1>1, <1>2, <1>3, <1>4, <1>5, <1>6, <1>7, <1>8, <1>9, <1>10
        DEF Next, Administer, Serve, Client

-----------------------------------------------------------------------------
(* Channels and serials. *)

(* What a stream has sent, has in hand and may find in its channel comes   *)
(* in this order, and its tenant's serial is no less than any of them: r   *)
(* is the call, c its channel, n a serial of the tenant.                   *)
InOrder(r, c) ==
  /\ r.pc \in {"closed", "found", "exists", "member"} => r.seen = 0
  /\ r.pc = "send" => r.seen < r.hand /\ (c.buf # 0 => r.hand < c.buf)
  /\ r.pc = "watch" => (c.buf # 0 => r.seen < c.buf)

UpTo(r, c, n) == r.seen <= n /\ r.hand <= n /\ c.buf <= n

Ordered ==
  \A w \in Watchers :
    /\ InOrder(stream[w], chan[stream[w].sub])
    /\ Streaming(w) => \A id \in DOMAIN subs : stream[w].sub \in subs[id] =>
         UpTo(stream[w], chan[stream[w].sub], tenants[id].serial)

StreamInv ==
  TypeOK /\ HaveChannels /\ SubscribersOpen /\ OpenStreamsAreKnown /\ Ordered

(* A step of one stream that leaves the tenant store and the channels      *)
(* alone, and keeps or drops the stream's channel.                         *)
LEMMA OneStreamStep ==
  ASSUME StreamInv, UNCHANGED <<tenants, subs, chan>>, NEW w \in Watchers,
         NEW r, Becomes(w, r),
         r.pc \in {"send", "watch", "leave"} => Holds(w) /\ r.sub = stream[w].sub,
         InOrder(r, chan[r.sub]),
         r.pc \in {"send", "watch"} =>
           \A id \in DOMAIN subs : r.sub \in subs[id] =>
             UpTo(r, chan[r.sub], tenants[id].serial)
  PROVE  HaveChannels' /\ SubscribersOpen' /\ OpenStreamsAreKnown' /\ Ordered'
<1>1. /\ stream'[w] = r
      /\ \A x \in Watchers \ {w} : stream'[x] = stream[x]
  BY DEF Becomes
<1>2. HaveChannels'
  BY <1>1 DEF StreamInv, HaveChannels, Holds, Streaming, At
<1>3. SubscribersOpen'
  BY DEF StreamInv, SubscribersOpen
<1>4. OpenStreamsAreKnown'
  BY <1>1 DEF StreamInv, OpenStreamsAreKnown, Holds, Streaming, At
<1>5. Ordered'
  BY <1>1 DEF StreamInv, Ordered, Streaming, At
<1> QED BY <1>2, <1>3, <1>4, <1>5

(* The steps of a stream that do not touch its channel. *)
LEMMA StreamCalls ==
  ASSUME StreamInv, NEW w \in Watchers,
         \/ \E id \in TenantIDs : Watch(w, id)
         \/ GetTenant(w) \/ CheckMember(w) \/ Send(w) \/ Hangup(w)
  PROVE  HaveChannels' /\ SubscribersOpen' /\ OpenStreamsAreKnown' /\ Ordered'
<1>0. TypeOK /\ stream[w] \in WatchCall
  BY DEF StreamInv, TypeOK
<1>u. UNCHANGED <<tenants, subs, chan>>
  BY DEF Watch, GetTenant, CheckMember, Send, Hangup
<1>1. ASSUME NEW id \in TenantIDs, Watch(w, id)
      PROVE  HaveChannels' /\ SubscribersOpen' /\ OpenStreamsAreKnown' /\ Ordered'
  <2> DEFINE r == [NoStream EXCEPT !.pc = "found", !.tenant = id]
  <2>1. Becomes(w, r)
    BY <1>0, <1>1, StreamBecomes
  <2>2. r.pc = "found" /\ r.seen = 0
    BY DEF NoStream
  <2> HIDE DEF r
  <2> QED BY <1>u, <2>1, <2>2, OneStreamStep DEF InOrder
<1>2. ASSUME Becomes(w, NoStream)
      PROVE  HaveChannels' /\ SubscribersOpen' /\ OpenStreamsAreKnown' /\ Ordered'
  <2>1. NoStream.pc = "closed" /\ NoStream.seen = 0
    BY DEF NoStream
  <2> QED BY <1>u, <1>2, <2>1, OneStreamStep DEF InOrder
<1>3. ASSUME NEW pc, pc \in {"exists", "member"},
             GetTenant(w) \/ CheckMember(w),
             Becomes(w, [stream[w] EXCEPT !.pc = pc])
      PROVE  HaveChannels' /\ SubscribersOpen' /\ OpenStreamsAreKnown' /\ Ordered'
  <2> DEFINE r == [stream[w] EXCEPT !.pc = pc]
  <2>1. r.pc = pc /\ r.seen = stream[w].seen
    BY <1>0 DEF WatchCall
  <2>2. Becomes(w, r)
    BY <1>3
  <2>3. stream[w].seen = 0
    BY <1>3 DEF StreamInv, Ordered, InOrder, GetTenant, CheckMember, At
  <2> HIDE DEF r
  <2>4. InOrder(r, chan[r.sub])
    BY <1>3, <2>1, <2>3 DEF InOrder
  <2> QED BY <1>u, <1>3, <2>1, <2>2, <2>4, OneStreamStep
<1>4. ASSUME Send(w)
      PROVE  HaveChannels' /\ SubscribersOpen' /\ OpenStreamsAreKnown' /\ Ordered'
  <2> DEFINE r == [stream[w] EXCEPT !.pc = "watch", !.seen = stream[w].hand,
                                    !.hand = 0]
  <2>1. r.pc = "watch" /\ r.seen = stream[w].hand /\ r.hand = 0
          /\ r.sub = stream[w].sub
    BY <1>0 DEF WatchCall
  <2>2. Becomes(w, r)
    BY <1>0, <1>4, StreamBecomes
  <2>3. Streaming(w) /\ Holds(w) /\ stream[w].pc = "send"
    BY <1>4 DEF Send, Streaming, Holds, At
  <2> HIDE DEF r
  <2>4. InOrder(r, chan[r.sub])
    BY <2>1, <2>3 DEF StreamInv, Ordered, InOrder
  <2>5. \A id \in DOMAIN subs : r.sub \in subs[id] =>
          UpTo(r, chan[r.sub], tenants[id].serial)
    BY <1>0, <2>1, <2>3 DEF StreamInv, Ordered, UpTo, TypeOK, Tenant
  <2> QED BY <1>u, <2>1, <2>2, <2>3, <2>4, <2>5, OneStreamStep
<1>5. ASSUME Hangup(w)
      PROVE  HaveChannels' /\ SubscribersOpen' /\ OpenStreamsAreKnown' /\ Ordered'
  <2> DEFINE r == [stream[w] EXCEPT !.pc = "leave"]
  <2>1. r.pc = "leave" /\ r.sub = stream[w].sub
    BY <1>0 DEF WatchCall
  <2>2. Becomes(w, r)
    BY <1>0, <1>5, StreamBecomes
  <2>3. Holds(w)
    BY <1>5 DEF Hangup, Streaming, Holds, At
  <2> HIDE DEF r
  <2>4. InOrder(r, chan[r.sub])
    BY <2>1 DEF InOrder
  <2> QED BY <1>u, <2>1, <2>2, <2>3, <2>4, OneStreamStep
<1>6. ASSUME GetTenant(w) \/ CheckMember(w)
      PROVE  \/ Becomes(w, [stream[w] EXCEPT !.pc = "exists"])
             \/ Becomes(w, [stream[w] EXCEPT !.pc = "member"])
             \/ Becomes(w, NoStream)
  BY Zenon, <1>0, <1>6, StreamBecomes
<1> QED BY <1>1, <1>2, <1>3, <1>4, <1>5, <1>6

(* Subscribe registers a channel of its own number. *)
LEMMA SubscribeStep ==
  ASSUME StreamInv, NEW w \in Watchers, Subscribe(w)
  PROVE  HaveChannels' /\ SubscribersOpen' /\ OpenStreamsAreKnown' /\ Ordered'
<1> DEFINE id == Resolve(stream[w].tenant)
           r == [stream[w] EXCEPT !.pc = "send", !.from = id, !.sub = nextSub,
                                  !.hand = tenants[id].serial]
<1>0. TypeOK /\ stream[w] \in WatchCall /\ At(w, "member")
  BY DEF StreamInv, TypeOK, Subscribe
<1>1. id \in DOMAIN tenants /\ tenants[id].serial \in 1..MaxSerial
  BY <1>0, ResolveType
<1>2. /\ subs' = [subs EXCEPT ![id] = @ \cup {nextSub}]
      /\ chan' = [c \in DOMAIN chan \cup {nextSub} |->
                    IF c = nextSub THEN [open |-> TRUE, buf |-> 0] ELSE chan[c]]
      /\ UNCHANGED tenants
  BY DEF Subscribe, FreshSub
<1>3. Becomes(w, r)
  BY <1>0, StreamBecomes
<1>4. /\ r.pc = "send" /\ r.sub = nextSub /\ r.hand = tenants[id].serial
      /\ r.seen = stream[w].seen
  BY <1>0 DEF WatchCall
<1> HIDE DEF id, r
<1>5. nextSub \notin DOMAIN chan
  BY <1>0 DEF TypeOK
<1>6. \A x \in DOMAIN subs : nextSub \notin subs[x]
  BY <1>0, <1>5 DEF TypeOK
<1>7. /\ DOMAIN subs' = DOMAIN subs /\ subs'[id] = subs[id] \cup {nextSub}
      /\ \A x \in DOMAIN subs \ {id} : subs'[x] = subs[x]
  BY <1>0, <1>1, <1>2 DEF TypeOK
<1>8. /\ nextSub \in DOMAIN chan'
      /\ chan'[nextSub].open /\ chan'[nextSub].buf = 0
      /\ \A c \in DOMAIN chan : c \in DOMAIN chan' /\ chan'[c] = chan[c]
  BY <1>2, <1>5
<1>9. /\ stream'[w] = r
      /\ \A x \in Watchers \ {w} : stream'[x] = stream[x]
  BY <1>3 DEF Becomes
<1>10. HaveChannels'
  BY <1>4, <1>8, <1>9 DEF StreamInv, HaveChannels, Holds, Streaming, At
<1>11. SubscribersOpen'
  <2>1. ASSUME NEW x \in DOMAIN subs, NEW c \in subs[x]
        PROVE  chan'[c].open /\ \A y \in DOMAIN subs \ {x} : c \notin subs'[y]
    BY <1>0, <1>6, <1>7, <1>8 DEF StreamInv, SubscribersOpen, TypeOK
  <2>2. \A y \in DOMAIN subs \ {id} : nextSub \notin subs'[y]
    BY <1>6, <1>7
  <2> QED BY <1>0, <1>1, <1>7, <1>8, <2>1, <2>2 DEF SubscribersOpen, TypeOK
<1>12. OpenStreamsAreKnown'
  <2> SUFFICES ASSUME NEW x \in Watchers, Holds(x)', chan'[stream'[x].sub].open
               PROVE  \E y \in DOMAIN subs' : stream'[x].sub \in subs'[y]
    BY DEF OpenStreamsAreKnown
  <2>1. CASE x = w
    BY <1>0, <1>1, <1>4, <1>7, <1>9, <2>1 DEF TypeOK
  <2>2. CASE x # w
    <3>1. stream'[x] = stream[x] /\ Holds(x) /\ stream[x].sub \in DOMAIN chan
      BY <1>9, <2>2 DEF Holds, Streaming, At, StreamInv, HaveChannels
    <3>2. chan[stream[x].sub].open
      BY <1>8, <3>1
    <3>3. PICK y \in DOMAIN subs : stream[x].sub \in subs[y]
      BY <3>1, <3>2 DEF StreamInv, OpenStreamsAreKnown
    <3> QED BY <1>7, <3>1, <3>3
  <2> QED BY <2>1, <2>2
<1>13. Ordered'
  <2> SUFFICES ASSUME NEW x \in Watchers
               PROVE  /\ InOrder(stream'[x], chan'[stream'[x].sub])
                      /\ Streaming(x)' => \A y \in DOMAIN subs' :
                           stream'[x].sub \in subs'[y] =>
                             UpTo(stream'[x], chan'[stream'[x].sub], tenants'[y].serial)
    BY DEF Ordered
  <2>1. CASE x = w
    <3>1. r.seen = 0
      BY <1>0, <1>4 DEF StreamInv, Ordered, InOrder, At
    <3>2. InOrder(r, chan'[r.sub])
      BY <1>1, <1>4, <1>8, <3>1 DEF InOrder
    <3>3. \A y \in DOMAIN subs' : nextSub \in subs'[y] => y = id
      BY <1>6, <1>7
    <3>4. UpTo(r, chan'[r.sub], tenants[id].serial)
      BY <1>1, <1>4, <1>8, <3>1 DEF UpTo
    <3> QED BY <1>2, <1>4, <1>9, <2>1, <3>2, <3>3, <3>4
  <2>2. CASE x # w
    <3>1. stream'[x] = stream[x] /\ Streaming(x)' = Streaming(x)
      BY <1>9, <2>2 DEF Streaming
    <3>2. CASE Streaming(x)
      <4>1. stream[x].sub \in DOMAIN chan /\ stream[x].sub # nextSub
        BY <1>5, <3>2 DEF StreamInv, HaveChannels, Holds
      <4>2. \A y \in DOMAIN subs : stream[x].sub \in subs'[y] => stream[x].sub \in subs[y]
        BY <1>7, <4>1
      <4> QED BY <1>2, <1>7, <1>8, <3>1, <3>2, <4>1, <4>2 DEF StreamInv, Ordered
    <3>3. CASE ~Streaming(x)
      BY <3>1, <3>3 DEF StreamInv, Ordered, InOrder, Streaming
    <3> QED BY <3>2, <3>3
  <2> QED BY <2>1, <2>2
<1> QED BY <1>10, <1>11, <1>12, <1>13

(* Receive takes what the channel buffers in hand. *)
LEMMA ReceiveStep ==
  ASSUME StreamInv, NEW w \in Watchers, Receive(w)
  PROVE  HaveChannels' /\ SubscribersOpen' /\ OpenStreamsAreKnown' /\ Ordered'
<1> DEFINE sub == stream[w].sub
<1>0. TypeOK /\ stream[w] \in WatchCall /\ At(w, "watch")
  BY DEF StreamInv, TypeOK, Receive
<1>1. Streaming(w) /\ Holds(w) /\ sub \in DOMAIN chan
  BY <1>0 DEF StreamInv, HaveChannels, Holds, Streaming, At
<1>2. UNCHANGED <<tenants, subs>>
  BY DEF Receive
<1>3. ASSUME Becomes(w, [stream[w] EXCEPT !.pc = "leave"]), UNCHANGED chan
      PROVE  HaveChannels' /\ SubscribersOpen' /\ OpenStreamsAreKnown' /\ Ordered'
  <2> DEFINE r == [stream[w] EXCEPT !.pc = "leave"]
  <2>1. r.pc = "leave" /\ r.sub = sub
    BY <1>0 DEF WatchCall
  <2>2. Becomes(w, r)
    BY <1>3
  <2> HIDE DEF r
  <2>3. InOrder(r, chan[r.sub])
    BY <2>1 DEF InOrder
  <2> QED BY <1>1, <1>2, <1>3, <2>1, <2>2, <2>3, OneStreamStep
<1>4. ASSUME chan[sub].buf # 0,
             Becomes(w, [stream[w] EXCEPT !.pc = "send", !.hand = chan[sub].buf]),
             chan' = [chan EXCEPT ![sub].buf = 0]
      PROVE  HaveChannels' /\ SubscribersOpen' /\ OpenStreamsAreKnown' /\ Ordered'
  <2> DEFINE r == [stream[w] EXCEPT !.pc = "send", !.hand = chan[sub].buf]
  <2>1. /\ r.pc = "send" /\ r.sub = sub /\ r.hand = chan[sub].buf
        /\ r.seen = stream[w].seen
    BY <1>0 DEF WatchCall
  <2>2. /\ stream'[w] = r
        /\ \A x \in Watchers \ {w} : stream'[x] = stream[x]
    BY <1>4 DEF Becomes
  <2> HIDE DEF r
  <2>3. chan[sub] \in Channel
    BY <1>0, <1>1 DEF TypeOK
  <2>4. /\ DOMAIN chan' = DOMAIN chan
        /\ chan'[sub].buf = 0 /\ chan'[sub].open = chan[sub].open
        /\ \A c \in DOMAIN chan \ {sub} : chan'[c] = chan[c]
    BY <1>1, <1>4, <2>3 DEF Channel
  <2>5. HaveChannels'
    BY <1>1, <2>1, <2>2, <2>4 DEF StreamInv, HaveChannels, Holds, Streaming, At
  <2>6. SubscribersOpen'
    BY <1>0, <1>2, <2>4 DEF StreamInv, SubscribersOpen, TypeOK
  <2>7. OpenStreamsAreKnown'
    <3> SUFFICES ASSUME NEW x \in Watchers, Holds(x)', chan'[stream'[x].sub].open
                 PROVE  \E y \in DOMAIN subs : stream'[x].sub \in subs[y]
      BY <1>2 DEF OpenStreamsAreKnown
    <3>1. Holds(x) /\ stream'[x].sub = stream[x].sub /\ stream[x].sub \in DOMAIN chan
      BY <1>1, <2>1, <2>2 DEF StreamInv, HaveChannels, Holds, Streaming, At
    <3>2. chan[stream[x].sub].open
      BY <2>4, <3>1
    <3> QED BY <3>1, <3>2 DEF StreamInv, OpenStreamsAreKnown
  <2>8. Ordered'
    <3> SUFFICES ASSUME NEW x \in Watchers
                 PROVE  /\ InOrder(stream'[x], chan'[stream'[x].sub])
                        /\ Streaming(x)' => \A y \in DOMAIN subs :
                             stream'[x].sub \in subs[y] =>
                               UpTo(stream'[x], chan'[stream'[x].sub], tenants[y].serial)
      BY <1>2 DEF Ordered
    <3>1. CASE x = w
      <4>1. InOrder(r, chan'[r.sub])
        BY <1>0, <1>4, <2>1, <2>4 DEF StreamInv, Ordered, InOrder, At
      <4>2. \A y \in DOMAIN subs : sub \in subs[y] =>
              UpTo(stream[w], chan[sub], tenants[y].serial) /\ tenants[y].serial \in 1..MaxSerial
        BY <1>0, <1>1 DEF StreamInv, Ordered, TypeOK, Tenant
      <4>3. \A y \in DOMAIN subs : r.sub \in subs[y] =>
              UpTo(r, chan'[r.sub], tenants[y].serial)
        BY <2>1, <2>4, <4>2, TenantsAssumption DEF UpTo
      <4> QED BY <2>2, <3>1, <4>1, <4>3
    <3>2. CASE x # w /\ Streaming(x)
      <4>1. stream'[x] = stream[x] /\ stream[x].sub \in DOMAIN chan
        BY <2>2, <3>2 DEF StreamInv, HaveChannels, Holds
      <4>2. /\ InOrder(stream[x], chan[stream[x].sub])
            /\ \A y \in DOMAIN subs : stream[x].sub \in subs[y] =>
                 /\ UpTo(stream[x], chan[stream[x].sub], tenants[y].serial)
                 /\ tenants[y].serial \in 1..MaxSerial
        BY <1>0, <3>2 DEF StreamInv, Ordered, TypeOK, Tenant
      <4>3. chan'[stream[x].sub].buf = 0 \/ chan'[stream[x].sub] = chan[stream[x].sub]
        BY <2>4, <4>1
      <4> QED BY <4>1, <4>2, <4>3, TenantsAssumption DEF InOrder, UpTo
    <3>3. CASE x # w /\ ~Streaming(x)
      BY <2>2, <3>3 DEF StreamInv, Ordered, InOrder, Streaming
    <3> QED BY <3>1, <3>2, <3>3
  <2> QED BY <2>5, <2>6, <2>7, <2>8
<1> QED BY <1>0, <1>3, <1>4, ReceiveBecomes

(* Unsubscribe closes the channel if it finds it with its tenant. *)
LEMMA UnsubscribeStep ==
  ASSUME StreamInv, NEW w \in Watchers, Unsubscribe(w)
  PROVE  HaveChannels' /\ SubscribersOpen' /\ OpenStreamsAreKnown' /\ Ordered'
<1> DEFINE id == Resolve(stream[w].tenant)
           sub == stream[w].sub
<1>0. TypeOK /\ id \in DOMAIN subs
  BY ResolveType DEF StreamInv, TypeOK
<1>1. /\ subs' = [subs EXCEPT ![id] = @ \ {sub}]
      /\ chan' = IF sub \in subs[id] THEN [chan EXCEPT ![sub].open = FALSE]
                                     ELSE chan
      /\ UNCHANGED tenants
  BY DEF Unsubscribe, Forget
<1>2. Becomes(w, NoStream) /\ NoStream.pc = "closed" /\ NoStream.seen = 0
  BY <1>0, StreamBecomes DEF NoStream
<1>3. /\ stream'[w].pc = "closed" /\ stream'[w].seen = 0
      /\ \A x \in Watchers \ {w} : stream'[x] = stream[x]
  BY <1>2 DEF Becomes
<1> HIDE DEF id, sub
<1>4. /\ DOMAIN subs' = DOMAIN subs /\ subs'[id] = subs[id] \ {sub}
      /\ \A x \in DOMAIN subs \ {id} : subs'[x] = subs[x]
  BY <1>0, <1>1
<1>5. /\ DOMAIN chan' = DOMAIN chan
      /\ \A c \in DOMAIN chan : c # sub \/ sub \notin subs[id] => chan'[c] = chan[c]
  BY <1>1
<1>6. sub \in subs[id] =>
        sub \in DOMAIN chan /\ ~chan'[sub].open /\ chan'[sub].buf = chan[sub].buf
  <2> SUFFICES ASSUME sub \in subs[id]
               PROVE  sub \in DOMAIN chan /\ ~chan'[sub].open
                        /\ chan'[sub].buf = chan[sub].buf
    OBVIOUS
  <2>1. sub \in DOMAIN chan /\ chan[sub] \in Channel
    BY <1>0 DEF TypeOK
  <2>2. chan'[sub] = [chan[sub] EXCEPT !.open = FALSE]
    BY <1>1, <2>1
  <2> QED BY <2>1, <2>2 DEF Channel
<1>7. HaveChannels'
  BY <1>3, <1>5 DEF StreamInv, HaveChannels, Holds, Streaming, At
<1>8. SubscribersOpen'
  <2> SUFFICES ASSUME NEW x \in DOMAIN subs, NEW c \in subs'[x]
               PROVE  /\ chan'[c].open
                      /\ \A y \in DOMAIN subs \ {x} : c \notin subs'[y]
    BY <1>4 DEF SubscribersOpen
  <2>1. c \in subs[x] /\ c \in DOMAIN chan /\ (x = id => c # sub)
    BY <1>0, <1>4 DEF TypeOK
  <2>2. chan[c].open /\ \A y \in DOMAIN subs \ {x} : c \notin subs[y]
    BY <2>1 DEF StreamInv, SubscribersOpen
  <2>3. c # sub \/ sub \notin subs[id]
    BY <1>0, <2>1, <2>2
  <2> QED BY <1>4, <1>5, <2>1, <2>2, <2>3
<1>9. OpenStreamsAreKnown'
  <2> SUFFICES ASSUME NEW x \in Watchers, Holds(x)', chan'[stream'[x].sub].open
               PROVE  \E y \in DOMAIN subs' : stream'[x].sub \in subs'[y]
    BY DEF OpenStreamsAreKnown
  <2>1. Holds(x) /\ stream'[x] = stream[x] /\ stream[x].sub \in DOMAIN chan
    BY <1>3 DEF StreamInv, HaveChannels, Holds, Streaming, At
  <2>2. stream[x].sub # sub \/ sub \notin subs[id]
    BY <1>6, <2>1
  <2>3. chan[stream[x].sub].open
    BY <1>5, <2>1, <2>2
  <2>4. PICK y \in DOMAIN subs : stream[x].sub \in subs[y]
    BY <2>1, <2>3 DEF StreamInv, OpenStreamsAreKnown
  <2> QED BY <1>4, <2>1, <2>2, <2>4
<1>10. Ordered'
  <2> SUFFICES ASSUME NEW x \in Watchers
               PROVE  /\ InOrder(stream'[x], chan'[stream'[x].sub])
                      /\ Streaming(x)' => \A y \in DOMAIN subs' :
                           stream'[x].sub \in subs'[y] =>
                             UpTo(stream'[x], chan'[stream'[x].sub], tenants[y].serial)
    BY Zenon, <1>1 DEF Ordered
  <2>1. CASE x = w
    BY <1>3, <2>1 DEF InOrder, Streaming
  <2>2. CASE x # w /\ Streaming(x)
    <3>1. stream'[x] = stream[x] /\ stream[x].sub \in DOMAIN chan
      BY <1>3, <2>2 DEF StreamInv, HaveChannels, Holds
    <3>2. chan'[stream[x].sub].buf = chan[stream[x].sub].buf
      BY <1>5, <1>6, <3>1
    <3>3. \A y \in DOMAIN subs : subs'[y] \subseteq subs[y]
      BY <1>4
    <3> QED BY <1>4, <2>2, <3>1, <3>2, <3>3 DEF StreamInv, Ordered, InOrder, UpTo
  <2>3. CASE x # w /\ ~Streaming(x)
    BY <1>3, <2>3 DEF StreamInv, Ordered, InOrder, Streaming
  <2> QED BY <2>1, <2>2, <2>3
<1> QED BY <1>7, <1>8, <1>9, <1>10

(* The administrators' operations. *)
LEMMA AdministerStep ==
  ASSUME StreamInv, Administer
  PROVE  HaveChannels' /\ SubscribersOpen' /\ OpenStreamsAreKnown' /\ Ordered'
<1>0. TypeOK /\ UNCHANGED stream
  BY DEF StreamInv, Administer, Create, Update, Delete
<1>1. ASSUME NEW id \in TenantIDs, NEW rule \in SUBSET Credentials, Create(id, rule)
      PROVE  HaveChannels' /\ SubscribersOpen' /\ OpenStreamsAreKnown' /\ Ordered'
  <2>1. /\ id \notin DOMAIN subs /\ UNCHANGED chan
        /\ DOMAIN subs' = DOMAIN subs \cup {id} /\ subs'[id] = {}
        /\ \A x \in DOMAIN subs : subs'[x] = subs[x] /\ tenants'[x] = tenants[x]
    BY <1>0, <1>1 DEF Create, TypeOK
  <2>2. HaveChannels' /\ SubscribersOpen'
    BY <1>0, <2>1
    DEF StreamInv, HaveChannels, SubscribersOpen, Holds, Streaming, At
  <2>3. OpenStreamsAreKnown'
    BY <1>0, <2>1 DEF StreamInv, OpenStreamsAreKnown, Holds, Streaming, At
  <2>4. Ordered'
    BY <1>0, <2>1 DEF StreamInv, Ordered, Streaming
  <2> QED BY <2>2, <2>3, <2>4
<1>2. ASSUME NEW id \in TenantIDs, NEW rule \in SUBSET Credentials, Update(id, rule)
      PROVE  HaveChannels' /\ SubscribersOpen' /\ OpenStreamsAreKnown' /\ Ordered'
  <2> DEFINE n == tenants[id].serial + 1
  <2>1. /\ id \in DOMAIN subs /\ UNCHANGED subs
        /\ tenants'[id].serial = n /\ n \in 1..MaxSerial
        /\ \A x \in DOMAIN subs \ {id} : tenants'[x] = tenants[x]
    BY <1>0, <1>2, TenantsAssumption DEF Update, NextSerial, TypeOK, Tenant
  <2>2. chan' = [c \in DOMAIN chan |->
                   IF c \in subs[id] THEN Push(chan[c], n) ELSE chan[c]]
    BY <1>2 DEF Update, NextSerial
  <2>3. /\ DOMAIN chan' = DOMAIN chan
        /\ \A c \in DOMAIN chan : chan'[c].open = chan[c].open
        /\ \A c \in DOMAIN chan \ subs[id] : chan'[c] = chan[c]
        /\ \A c \in subs[id] : chan'[c].buf = n
    BY <1>0, <2>1, <2>2 DEF TypeOK, Push, Channel
  <2> HIDE DEF n
  <2>4. HaveChannels' /\ SubscribersOpen'
    BY <1>0, <2>1, <2>3
    DEF StreamInv, HaveChannels, SubscribersOpen, Holds, Streaming, At, TypeOK
  <2>5. OpenStreamsAreKnown'
    BY <1>0, <2>1, <2>3
    DEF StreamInv, HaveChannels, OpenStreamsAreKnown, Holds, Streaming, At
  <2>6. Ordered'
    <3> SUFFICES ASSUME NEW x \in Watchers
                 PROVE  /\ InOrder(stream[x], chan'[stream[x].sub])
                        /\ Streaming(x) => \A y \in DOMAIN subs :
                             stream[x].sub \in subs[y] =>
                               UpTo(stream[x], chan'[stream[x].sub], tenants'[y].serial)
      BY <1>0, <2>1 DEF Ordered, Streaming
    <3>0. stream[x] \in WatchCall
      BY <1>0 DEF TypeOK
    <3>1. CASE Streaming(x) /\ stream[x].sub \in subs[id]
      <4>1. UpTo(stream[x], chan[stream[x].sub], tenants[id].serial)
        BY <2>1, <3>1 DEF StreamInv, Ordered
      <4>2. stream[x].seen < n /\ stream[x].hand < n
        BY <1>0, <2>1, <3>0, <4>1 DEF UpTo, WatchCall, n, TypeOK, Tenant
      <4>3. \A y \in DOMAIN subs : stream[x].sub \in subs[y] => y = id
        BY <2>1, <3>1 DEF StreamInv, SubscribersOpen
      <4>4. InOrder(stream[x], chan[stream[x].sub])
        BY DEF StreamInv, Ordered
      <4>5. InOrder(stream[x], chan'[stream[x].sub])
        BY <2>3, <3>1, <4>2, <4>4 DEF InOrder
      <4>6. UpTo(stream[x], chan'[stream[x].sub], n)
        BY <2>1, <2>3, <3>0, <3>1, <4>2, TenantsAssumption DEF UpTo, WatchCall
      <4> QED BY <2>1, <4>3, <4>5, <4>6
    <3>2. CASE Streaming(x) /\ stream[x].sub \notin subs[id]
      <4>1. stream[x].sub \in DOMAIN chan
        BY <3>2 DEF StreamInv, HaveChannels, Holds
      <4>2. chan'[stream[x].sub] = chan[stream[x].sub]
        BY <2>3, <3>2, <4>1
      <4> QED BY <2>1, <3>2, <4>2 DEF StreamInv, Ordered
    <3>3. CASE ~Streaming(x)
      BY <3>3 DEF StreamInv, Ordered, InOrder, Streaming
    <3> QED BY <3>1, <3>2, <3>3
  <2> QED BY <2>4, <2>5, <2>6
<1>3. ASSUME NEW id \in TenantIDs, Delete(id)
      PROVE  HaveChannels' /\ SubscribersOpen' /\ OpenStreamsAreKnown' /\ Ordered'
  <2>1. /\ DOMAIN subs' = DOMAIN subs \ {id} /\ id \in DOMAIN subs
        /\ \A x \in DOMAIN subs' : subs'[x] = subs[x] /\ tenants'[x] = tenants[x]
    BY <1>0, <1>3 DEF Delete, TypeOK
  <2>2. chan' = [c \in DOMAIN chan |->
          IF c \in subs[id] THEN [chan[c] EXCEPT !.open = FALSE] ELSE chan[c]]
    BY <1>3 DEF Delete, CloseAll
  <2>3. /\ DOMAIN chan' = DOMAIN chan
        /\ \A c \in DOMAIN chan : chan'[c].buf = chan[c].buf
        /\ \A c \in DOMAIN chan \ subs[id] : chan'[c] = chan[c]
        /\ \A c \in DOMAIN chan : c \in subs[id] => ~chan'[c].open
    BY <1>0, <2>2 DEF TypeOK, Channel
  <2>4. HaveChannels'
    BY <1>0, <2>3 DEF StreamInv, HaveChannels, Holds, Streaming, At
  <2>5. SubscribersOpen'
    BY <1>0, <2>1, <2>3 DEF StreamInv, SubscribersOpen, TypeOK
  <2>6. OpenStreamsAreKnown'
    <3> SUFFICES ASSUME NEW x \in Watchers, Holds(x), chan'[stream[x].sub].open
                 PROVE  \E y \in DOMAIN subs' : stream[x].sub \in subs'[y]
      BY <1>0 DEF OpenStreamsAreKnown, Holds, Streaming, At
    <3>1. stream[x].sub \in DOMAIN chan /\ stream[x].sub \notin subs[id]
      BY <2>3 DEF StreamInv, HaveChannels
    <3>2. chan[stream[x].sub].open
      BY <2>3, <3>1
    <3>3. PICK y \in DOMAIN subs : stream[x].sub \in subs[y]
      BY <3>2 DEF StreamInv, OpenStreamsAreKnown
    <3> QED BY <2>1, <3>1, <3>3
  <2>7. Ordered'
    <3> SUFFICES ASSUME NEW x \in Watchers
                 PROVE  /\ InOrder(stream[x], chan'[stream[x].sub])
                        /\ Streaming(x) => \A y \in DOMAIN subs' :
                             stream[x].sub \in subs'[y] =>
                               UpTo(stream[x], chan'[stream[x].sub], tenants'[y].serial)
      BY <1>0 DEF Ordered, Streaming
    <3>1. CASE Streaming(x)
      <4>1. chan'[stream[x].sub].buf = chan[stream[x].sub].buf
        BY <2>3, <3>1 DEF StreamInv, HaveChannels, Holds
      <4> QED BY <2>1, <3>1, <4>1 DEF StreamInv, Ordered, InOrder, UpTo
    <3>2. CASE ~Streaming(x)
      BY <3>2 DEF StreamInv, Ordered, InOrder, Streaming
    <3> QED BY <3>1, <3>2
  <2> QED BY <2>4, <2>5, <2>6, <2>7
<1> QED BY <1>1, <1>2, <1>3 DEF Administer

-----------------------------------------------------------------------------

(* Every step keeps the invariant. *)
LEMMA StreamStep == ASSUME StreamInv, [Next]_vars PROVE StreamInv'
<1>1. TypeOK'
  BY TenantsTypeStep DEF StreamInv
<1>2. HaveChannels' /\ SubscribersOpen' /\ OpenStreamsAreKnown' /\ Ordered'
  <2>1. CASE UNCHANGED vars
    BY <2>1 DEF vars, StreamInv, HaveChannels, SubscribersOpen,
                OpenStreamsAreKnown, Ordered, Holds, Streaming, At
  <2>2. CASE Administer
    BY <2>2, AdministerStep
  <2>3. ASSUME NEW w \in Watchers, Serve(w) \/ Client(w)
        PROVE  HaveChannels' /\ SubscribersOpen' /\ OpenStreamsAreKnown' /\ Ordered'
    BY <2>3, StreamCalls, SubscribeStep, ReceiveStep, UnsubscribeStep
    DEF Serve, Client
  <2> QED BY <2>1, <2>2, <2>3 DEF Next
<1> QED BY <1>1, <1>2 DEF StreamInv

(* The invariant holds of the tenant store New makes. *)
LEMMA StreamsStart == ASSUME Init PROVE StreamInv
<1>1. /\ DOMAIN tenants = {DefaultID} /\ DOMAIN subs = {DefaultID}
      /\ tenants[DefaultID] = [rule |-> {}, serial |-> 1]
      /\ subs[DefaultID] = {} /\ DOMAIN chan = {} /\ nextSub = 1
      /\ \A w \in Watchers : stream[w] = NoStream
  BY DEF Init
<1>2. stream \in [Watchers -> WatchCall]
  BY NoStreamType DEF Init
<1>3. [rule |-> {}, serial |-> 1] \in Tenant /\ 1..(nextSub - 1) = {}
  BY <1>1, TenantsAssumption DEF Tenant
<1>4. TypeOK
  <2>1. nextSub \in 1..(MaxSubs + 1) /\ DOMAIN chan = 1..(nextSub - 1)
    BY <1>1, <1>3, TenantsAssumption
  <2>2. \A c \in DOMAIN chan : chan[c] \in Channel
    BY <1>1
  <2>3. /\ \A id \in DOMAIN tenants : tenants[id] \in Tenant
        /\ \A id \in DOMAIN subs : subs[id] \subseteq DOMAIN chan
    BY Zenon, <1>1, <1>3
  <2> QED BY <1>1, <1>2, <2>1, <2>2, <2>3, TenantsAssumption DEF TypeOK
<1>5. \A w \in Watchers : ~Holds(w) /\ stream[w].pc = "closed" /\ stream[w].seen = 0
  BY <1>1 DEF Holds, Streaming, At, NoStream
<1>6. HaveChannels /\ SubscribersOpen /\ OpenStreamsAreKnown
  BY <1>1, <1>5 DEF HaveChannels, SubscribersOpen, OpenStreamsAreKnown
<1>7. Ordered
  BY <1>5 DEF Ordered, InOrder, Streaming
<1> QED BY <1>4, <1>6, <1>7 DEF StreamInv

(* The invariant holds always. *)
THEOREM StreamsKeepInvariant == Spec => []StreamInv
BY StreamsStart, StreamStep, PTL DEF Spec

(* Tenants, subscriptions, channels and Watch calls stay well formed, and  *)
(* the default tenant is never lost (TypeOK).                              *)
THEOREM TenantsTypeCorrect == Spec => []TypeOK
<1>1. StreamInv => TypeOK
  BY DEF StreamInv
<1> QED BY <1>1, StreamsKeepInvariant, PTL

(* However updates, deletions, re-creations and departures interleave, no  *)
(* broadcast sends on a closed channel and no channel is closed twice      *)
(* (SubscribersOpen).                                                      *)
THEOREM SubscribersStayOpen == Spec => []SubscribersOpen
<1>1. StreamInv => SubscribersOpen
  BY DEF StreamInv
<1> QED BY <1>1, StreamsKeepInvariant, PTL

(* No stream is left waiting on a channel the tenant store has forgotten:  *)
(* an open channel is registered with a tenant, which will send on it or   *)
(* close it (OpenStreamsAreKnown).                                         *)
THEOREM OpenStreamsStayKnown == Spec => []OpenStreamsAreKnown
<1>1. StreamInv => OpenStreamsAreKnown
  BY DEF StreamInv
<1> QED BY <1>1, StreamsKeepInvariant, PTL

(* A device is never sent the same or an older route set after a newer     *)
(* one: every Send carries a greater serial (SerialsIncrease).             *)
THEOREM SentSerialsIncrease == Spec => SerialsIncrease
<1>1. ASSUME StreamInv, [Next]_vars, NEW w \in Watchers, At(w, "send"),
             stream'[w].pc = "watch"
      PROVE  stream[w].seen < stream'[w].seen
  <2>0. TypeOK /\ stream[w] \in WatchCall /\ stream[w].pc = "send"
    BY <1>1 DEF StreamInv, TypeOK, At
  <2>1. stream[w].seen < stream[w].hand
    BY <1>1, <2>0 DEF StreamInv, Ordered, InOrder
  <2>2. ASSUME Send(w) PROVE stream'[w].seen = stream[w].hand
    <3>1. Becomes(w, [stream[w] EXCEPT !.pc = "watch", !.seen = stream[w].hand,
                                       !.hand = 0])
      BY <2>0, <2>2, StreamBecomes
    <3>2. stream'[w] = [stream[w] EXCEPT !.pc = "watch",
                                         !.seen = stream[w].hand, !.hand = 0]
      BY <3>1 DEF Becomes
    <3> QED BY <2>0, <3>2 DEF WatchCall
  <2>3. ASSUME Hangup(w) PROVE FALSE
    <3>1. stream'[w] = [stream[w] EXCEPT !.pc = "leave"]
      BY <2>0, <2>3, StreamBecomes DEF Becomes
    <3> QED BY <1>1, <2>0, <3>1 DEF WatchCall
  <2>4. ASSUME NEW x \in Watchers, x # w, Serve(x) \/ Client(x)
        PROVE  stream'[w] = stream[w]
    <3>1. CASE Receive(x)
      BY <2>0, <2>4, <3>1, ReceiveBecomes DEF Becomes
    <3>2. ASSUME NEW r, Becomes(x, r) PROVE stream'[w] = stream[w]
      BY <2>4, <3>2 DEF Becomes
    <3>3. CASE ~Receive(x)
      BY Zenon, <2>0, <2>4, <3>2, <3>3, StreamBecomes DEF Serve, Client
    <3> QED BY <3>1, <3>3
  <2>5. ASSUME Administer \/ UNCHANGED vars PROVE stream' = stream
    BY Zenon, <2>5 DEF Administer, Create, Update, Delete, vars
  <2>6. ASSUME Serve(w) \/ Client(w) PROVE Send(w) \/ Hangup(w)
    BY <1>1, <2>0, <2>6
    DEF Serve, Client, GetTenant, CheckMember, Subscribe, Receive, Unsubscribe,
        Watch, At
  <2>7. \/ Send(w) \/ Hangup(w) \/ stream'[w] = stream[w]
    BY <1>1, <2>4, <2>5, <2>6 DEF Next
  <2> QED BY <1>1, <2>0, <2>1, <2>2, <2>3, <2>7
<1>2. StreamInv /\ [Next]_vars =>
        [\A w \in Watchers : At(w, "send") /\ stream'[w].pc = "watch" =>
           stream[w].seen < stream'[w].seen]_vars
  BY <1>1
<1> QED BY <1>2, StreamsKeepInvariant, PTL DEF Spec, SerialsIncrease
=============================================================================
