--------------------------- MODULE SessionsProofs ---------------------------
(***************************************************************************)
(* Proofs about Sessions, for any tenants, credentials, devices and        *)
(* bounds: the composition implements the tenants and the streams it is    *)
(* composed of, and whose routes a device is given.                        *)
(***************************************************************************)
EXTENDS Sessions, TenantsProofs

-----------------------------------------------------------------------------
(* Types. *)

SessionSet == [tenant : TenantIDs, fresh : BOOLEAN] \cup {NoSession}
CallSet ==
  [pc : {"put", "routes", "member", "renew"}, tenant : TenantIDs] \cup {NoCall}
AnswerSet == [tenant : TenantIDs, from : TenantIDs] \cup {NoAnswer}

EnrollmentOK ==
  /\ session \in [Watchers -> SessionSet]
  /\ call \in [Watchers -> CallSet]
  /\ answer \in [Watchers -> AnswerSet]

(* A person always has a tenant, and it is one that exists. *)
LEMMA ForExists ==
  ASSUME TypeOK, NEW w
  PROVE  For(w) \subseteq DOMAIN tenants /\ For(w) \subseteq TenantIDs
BY DEF TypeOK, For

(* A device that is enrolled is enrolled in a tenant. *)
LEMMA EnrolledTenant ==
  ASSUME EnrollmentOK, NEW w \in Watchers
  PROVE  /\ Enrolled(w) => session[w].tenant \in TenantIDs
         /\ ~Calling(w, "idle") => call[w].tenant \in TenantIDs
BY DEF EnrollmentOK, Enrolled, SessionSet, NoSession, Calling, CallSet, NoCall

(* A step of enrollment or of a stream takes the tenants and the streams   *)
(* by a step of their own, or leaves them alone.                           *)
LEMMA SessionsStepTenants ==
  ASSUME EnrollmentOK, [SessionsNext]_all PROVE [Next]_vars
<1>1. ASSUME Administer PROVE Next
  BY <1>1 DEF Next
<1>2. ASSUME NEW w \in Watchers, Stream(w) PROVE Next
  BY <1>2 DEF Next, Stream
<1>3. ASSUME NEW w \in Watchers, WatchEnrolled(w) \/ Hangup(w) PROVE Next
  BY <1>3, EnrolledTenant DEF Next, Client, WatchEnrolled
<1>4. ASSUME NEW w \in Watchers, Request(w) PROVE UNCHANGED vars
  BY Zenon, <1>4 DEF Request, Heartbeat, Deregister, ChooseTenant
<1>5. ASSUME NEW w \in Watchers, Handle(w) PROVE UNCHANGED vars
  BY Zenon, <1>5 DEF Handle, EnrollFails, Put, Routes, HeartbeatMember, Renew
<1>6. ASSUME NEW w \in Watchers, LeaseEnds(w) \/ Reap(w) PROVE UNCHANGED vars
  BY <1>6 DEF LeaseEnds, Reap
<1>7. ASSUME UNCHANGED all PROVE UNCHANGED vars
  BY <1>7 DEF all
<1> QED BY <1>1, <1>2, <1>3, <1>4, <1>5, <1>6, <1>7 DEF SessionsNext

(* Every step keeps the types of enrollment. *)
LEMMA EnrollmentStep ==
  ASSUME TypeOK, EnrollmentOK, [SessionsNext]_all PROVE EnrollmentOK'
<1>s. ASSUME UNCHANGED enrollment PROVE EnrollmentOK'
  BY <1>s DEF enrollment, EnrollmentOK
<1>n. NoSession \in SessionSet /\ NoCall \in CallSet
  BY DEF SessionSet, CallSet
<1>r. ASSUME NEW w \in Watchers, Reply(w) PROVE call' \in [Watchers -> CallSet]
  BY <1>n, <1>r DEF Reply, EnrollmentOK
<1>t. ASSUME NEW w \in Watchers, ~Calling(w, "idle"),
             NEW pc \in {"put", "routes", "member", "renew"}, Then(w, pc)
      PROVE  call' \in [Watchers -> CallSet]
  <2>1. call[w] \in [pc : {"put", "routes", "member", "renew"},
                     tenant : TenantIDs]
    BY <1>t DEF EnrollmentOK, CallSet, Calling, NoCall
  <2>2. [call[w] EXCEPT !.pc = pc] \in CallSet
    BY <2>1 DEF CallSet
  <2>3. call' = [call EXCEPT ![w] = [call[w] EXCEPT !.pc = pc]]
    BY Zenon, <1>t DEF Then
  <2> QED BY <2>2, <2>3 DEF EnrollmentOK
<1>f. ASSUME NEW w \in Watchers, NEW b \in BOOLEAN, b => Enrolled(w),
             session' = [session EXCEPT ![w].fresh = b]
      PROVE  session' \in [Watchers -> SessionSet]
  <2>1. [session[w] EXCEPT !.fresh = b] \in SessionSet
    <3>1. CASE Enrolled(w)
      <4>1. session[w] \in [tenant : TenantIDs, fresh : BOOLEAN]
        BY <3>1 DEF Enrolled, EnrollmentOK, SessionSet, NoSession
      <4> QED BY <4>1 DEF SessionSet
    <3>2. CASE ~Enrolled(w)
      <4>1. session[w] = NoSession /\ b = FALSE
        BY <1>f, <3>2, SessionsAssumption
        DEF Enrolled, EnrollmentOK, SessionSet, NoSession
      <4>2. /\ NoSession.fresh = FALSE
            /\ NoSession = [x \in DOMAIN NoSession |-> NoSession[x]]
        BY DEF NoSession
      <4> HIDE DEF NoSession
      <4>3. [NoSession EXCEPT !.fresh = FALSE] = NoSession
        BY <4>2
      <4> QED BY Zenon, <1>n, <4>1, <4>3
    <3> QED BY <3>1, <3>2
  <2>2. session' = [session EXCEPT ![w] = [session[w] EXCEPT !.fresh = b]]
    BY Zenon, <1>f
  <2> QED BY <2>1, <2>2 DEF EnrollmentOK
<1>1. ASSUME NEW w \in Watchers, NEW asked \in Asked, ChooseTenant(w, asked)
      PROVE  EnrollmentOK'
  <2>1. PICK n \in For(w) : call' = [call EXCEPT ![w] = [pc |-> "put", tenant |-> n]]
    BY Zenon, <1>1 DEF ChooseTenant
  <2>2. [pc |-> "put", tenant |-> n] \in CallSet
    BY <2>1, ForExists DEF CallSet
  <2>3. UNCHANGED <<session, answer>>
    BY <1>1 DEF ChooseTenant
  <2> QED BY <2>1, <2>2, <2>3 DEF EnrollmentOK
<1>2. ASSUME NEW w \in Watchers, Heartbeat(w) PROVE EnrollmentOK'
  <2>1. [pc |-> "member", tenant |-> session[w].tenant] \in CallSet
    BY <1>2, EnrolledTenant DEF Heartbeat, CallSet
  <2> QED BY <1>2, <2>1 DEF Heartbeat, EnrollmentOK
<1>3. ASSUME NEW w \in Watchers, Deregister(w) \/ Reap(w) PROVE EnrollmentOK'
  BY <1>3, <1>n DEF Deregister, Reap, EnrollmentOK
<1>4. ASSUME NEW w \in Watchers, EnrollFails(w) PROVE EnrollmentOK'
  BY <1>4, <1>r DEF EnrollFails, EnrollmentOK
<1>5. ASSUME NEW w \in Watchers, Put(w) PROVE EnrollmentOK'
  <2>1. ~Calling(w, "idle") /\ call' \in [Watchers -> CallSet]
    BY <1>5, <1>t DEF Put, Calling
  <2>2. [tenant |-> call[w].tenant, fresh |-> TRUE] \in SessionSet
    BY <2>1, EnrolledTenant DEF SessionSet
  <2> QED BY Zenon, <1>5, <2>1, <2>2 DEF Put, EnrollmentOK
<1>6. ASSUME NEW w \in Watchers, Routes(w) PROVE EnrollmentOK'
  <2>1. call[w].tenant \in TenantIDs /\ Resolve(call[w].tenant) \in TenantIDs
    BY <1>6, EnrolledTenant, ResolveType DEF Routes, Calling
  <2>2. [tenant |-> call[w].tenant, from |-> Resolve(call[w].tenant)] \in AnswerSet
    BY <2>1 DEF AnswerSet
  <2> QED BY <1>6, <1>r, <2>2 DEF Routes, EnrollmentOK
<1>7. ASSUME NEW w \in Watchers, HeartbeatMember(w) PROVE EnrollmentOK'
  <2>1. call' \in [Watchers -> CallSet]
    BY <1>7, <1>r, <1>t DEF HeartbeatMember, Calling
  <2> QED BY <1>7, <2>1 DEF HeartbeatMember, EnrollmentOK
<1>8. ASSUME NEW w \in Watchers, Renew(w) PROVE EnrollmentOK'
  <2>1. Renewable(w) \in BOOLEAN /\ (Renewable(w) => Enrolled(w))
    BY DEF Renewable, Enrolled
  <2>2. session' \in [Watchers -> SessionSet]
    BY Zenon, <1>8, <1>f, <2>1 DEF Renew
  <2> QED BY <1>8, <1>r, <2>2 DEF Renew, EnrollmentOK
<1>9. ASSUME NEW w \in Watchers, LeaseEnds(w) PROVE EnrollmentOK'
  BY Zenon, <1>9, <1>f DEF LeaseEnds, EnrollmentOK
<1> QED
  BY <1>s, <1>1, <1>2, <1>3, <1>4, <1>5, <1>6, <1>7, <1>8, <1>9
  DEF SessionsNext, Request, Handle, Stream, all

(* What the proofs about streams need holds of the composition too.        *)
LEMMA SessionsHold == SessionsSpec => [](EnrollmentOK /\ StreamInv)
<1>1. SessionsInit => EnrollmentOK /\ StreamInv
  <2> SUFFICES ASSUME SessionsInit PROVE EnrollmentOK /\ StreamInv
    OBVIOUS
  <2>1. EnrollmentOK
    BY DEF SessionsInit, EnrollmentOK, SessionSet, CallSet, AnswerSet
  <2>2. StreamInv
    BY StreamsStart DEF SessionsInit
  <2> QED BY <2>1, <2>2
<1>2. EnrollmentOK /\ StreamInv /\ [SessionsNext]_all
        => (EnrollmentOK /\ StreamInv)'
  <2> SUFFICES ASSUME EnrollmentOK, StreamInv, [SessionsNext]_all
               PROVE  (EnrollmentOK /\ StreamInv)'
    OBVIOUS
  <2>1. TypeOK
    BY DEF StreamInv
  <2> QED BY <2>1, EnrollmentStep, SessionsStepTenants, StreamStep
<1> QED BY <1>1, <1>2, PTL DEF SessionsSpec

(* Types of tenants, streams, sessions, requests and answers in every      *)
(* interleaving (SessionsTypeOK).                                          *)
THEOREM SessionsTypeCorrect == SessionsSpec => []SessionsTypeOK
<1>1. EnrollmentOK /\ StreamInv => SessionsTypeOK
  BY DEF EnrollmentOK, SessionSet, CallSet, AnswerSet, StreamInv, SessionsTypeOK
<1> QED BY <1>1, SessionsHold, PTL

(* Enrollment and tenants together implement the tenants and the streams   *)
(* of module Tenants, in which a stream is for any tenant: every behaviour *)
(* in which a device watches the tenant it enrolled into is one of theirs. *)
THEOREM SessionsImplementTenants == SessionsSpec => Spec
<1>1. SessionsInit => Init
  BY DEF SessionsInit
<1>2. EnrollmentOK /\ [SessionsNext]_all => [Next]_vars
  BY SessionsStepTenants
<1> QED BY <1>1, <1>2, SessionsHold, PTL DEF SessionsSpec, Spec

-----------------------------------------------------------------------------
(* Whose routes a device is given. *)

(* RoutesOfOwnTenant fails when a tenant is deleted between the moment a   *)
(* device's tenant is found and the moment its routes are read.  What      *)
(* holds with any deletions: an enrollment is answered with the routes of  *)
(* the tenant it chose, or of the default tenant if administrators may     *)
(* delete that one, and so is a stream; never with those of a third.       *)
OwnOrDefault(chosen, given) ==
  given = chosen \/ (given = DefaultID /\ chosen \in Deletable)

RoutesOwnOrDefault ==
  \A w \in Watchers :
    /\ OwnOrDefault(answer[w].tenant, answer[w].from)
    /\ Streaming(w) => OwnOrDefault(stream[w].tenant, stream[w].from)

(* It rests on a tenant that is not deleted being still there when it is   *)
(* resolved again.                                                         *)
Lasting(id) == id \in Deletable \/ id \in DOMAIN tenants

TenantsInHand ==
  \A w \in Watchers :
    /\ call[w].pc \in {"put", "routes"} => Lasting(call[w].tenant)
    /\ stream[w].pc \in {"exists", "member"} => Lasting(stream[w].tenant)

RoutesInv == TenantsInHand /\ RoutesOwnOrDefault

(* A tenant that lasts is resolved to itself. *)
LEMMA LastingResolves ==
  ASSUME NEW id, Lasting(id) PROVE OwnOrDefault(id, Resolve(id))
BY DEF Lasting, OwnOrDefault, Resolve

(* Only Delete takes a tenant away. *)
LEMMA LastingStays ==
  ASSUME TypeOK, [Next]_vars, NEW id, Lasting(id) PROVE Lasting(id)'
<1>1. ASSUME DOMAIN tenants \subseteq DOMAIN tenants' PROVE Lasting(id)'
  BY <1>1 DEF Lasting
<1>2. ASSUME NEW x \in TenantIDs, Delete(x) PROVE Lasting(id)'
  BY <1>2 DEF Delete, Lasting
<1>3. ASSUME NEW x \in TenantIDs, NEW rule, Create(x, rule) \/ Update(x, rule)
      PROVE  DOMAIN tenants \subseteq DOMAIN tenants'
  BY <1>3 DEF Create, Update
<1>4. ASSUME NEW w \in Watchers, Serve(w) \/ Client(w) PROVE tenants' = tenants
  BY Zenon, <1>4 DEF Serve, Client, GetTenant, CheckMember, Subscribe, Send,
                     Receive, Unsubscribe, Watch, Hangup
<1>5. ASSUME UNCHANGED vars PROVE tenants' = tenants
  BY <1>5 DEF vars
<1> QED BY <1>1, <1>2, <1>3, <1>4, <1>5 DEF Next, Administer

(* Every step of a stream keeps what RoutesInv says of the streams.        *)
LEMMA StreamRoutes ==
  ASSUME TypeOK, RoutesInv, [Next]_vars, NEW w \in Watchers
  PROVE  /\ stream'[w].pc \in {"exists", "member"} => Lasting(stream[w].tenant)'
         /\ Streaming(w)' => OwnOrDefault(stream'[w].tenant, stream'[w].from)
<1> DEFINE Goal ==
      /\ stream'[w].pc \in {"exists", "member"} => Lasting(stream[w].tenant)'
      /\ stream'[w].pc \in {"send", "watch"} =>
           OwnOrDefault(stream'[w].tenant, stream'[w].from)
<1>0. stream[w] \in WatchCall
  BY DEF TypeOK
<1>h. /\ stream[w].pc \in {"exists", "member"} => Lasting(stream[w].tenant)
      /\ stream[w].pc \in {"send", "watch"} =>
           OwnOrDefault(stream[w].tenant, stream[w].from)
  BY DEF RoutesInv, TenantsInHand, RoutesOwnOrDefault, Streaming
<1>l. Lasting(stream[w].tenant) /\ stream'[w].tenant = stream[w].tenant
        => Lasting(stream[w].tenant)'
  BY LastingStays DEF Lasting
<1>s. ASSUME stream'[w] = stream[w] PROVE Goal
  BY <1>h, <1>l, <1>s
<1>c. ASSUME stream'[w].pc \notin {"exists", "member", "send", "watch"} PROVE Goal
  BY <1>c
<1>n. ASSUME Becomes(w, NoStream) PROVE Goal
  BY <1>n DEF Becomes, NoStream
<1>1. ASSUME NEW id \in TenantIDs, Watch(w, id) PROVE Goal
  BY Zenon, <1>1, <1>c, StreamBecomes DEF Becomes, NoStream
<1>2. ASSUME GetTenant(w) PROVE Goal
  <2>1. CASE Becomes(w, [stream[w] EXCEPT !.pc = "exists"]) /\ ~Becomes(w, NoStream)
    <3>1. stream[w].tenant \in DOMAIN tenants
      <4>1. ~(stream' = [stream EXCEPT ![w] = NoStream])
        BY <2>1 DEF Becomes, TypeOK
      <4> QED BY <1>2, <4>1 DEF GetTenant
    <3>2. stream'[w].pc = "exists" /\ stream'[w].tenant = stream[w].tenant
      BY <1>0, <2>1 DEF Becomes, WatchCall
    <3> QED BY <1>l, <3>1, <3>2 DEF Lasting
  <2> QED BY Zenon, <1>2, <1>n, <2>1, StreamBecomes
<1>3. ASSUME CheckMember(w) PROVE Goal
  <2>1. CASE Becomes(w, [stream[w] EXCEPT !.pc = "member"])
    <3>1. stream'[w].pc = "member" /\ stream'[w].tenant = stream[w].tenant
      BY <1>0, <2>1 DEF Becomes, WatchCall
    <3>2. stream[w].pc = "exists"
      BY <1>3 DEF CheckMember, At
    <3> QED BY <1>h, <1>l, <3>1, <3>2
  <2> QED BY Zenon, <1>3, <1>n, <2>1, StreamBecomes
<1>4. ASSUME Subscribe(w) PROVE Goal
  <2> DEFINE id == Resolve(stream[w].tenant)
  <2>1. Becomes(w, [stream[w] EXCEPT !.pc = "send", !.from = id,
                       !.sub = nextSub, !.hand = tenants[id].serial])
    BY Zenon, <1>4, StreamBecomes
  <2>2. stream[w].pc = "member"
    BY <1>4 DEF Subscribe, At
  <2>3. OwnOrDefault(stream[w].tenant, id)
    BY <1>h, <2>2, LastingResolves
  <2> HIDE DEF id
  <2>4. /\ stream'[w].pc = "send" /\ stream'[w].from = id
        /\ stream'[w].tenant = stream[w].tenant
    BY <1>0, <2>1 DEF Becomes, WatchCall
  <2> QED BY <2>3, <2>4
<1>5. ASSUME Send(w) PROVE Goal
  <2>1. /\ stream'[w].pc = "watch" /\ stream'[w].from = stream[w].from
        /\ stream'[w].tenant = stream[w].tenant
    BY Zenon, <1>0, <1>5, StreamBecomes DEF Becomes, WatchCall
  <2>2. stream[w].pc = "send"
    BY <1>5 DEF Send, At
  <2> QED BY <1>h, <2>1, <2>2
<1>6. ASSUME Receive(w) PROVE Goal
  <2>1. /\ stream'[w].pc \in {"send", "leave"} /\ stream'[w].from = stream[w].from
        /\ stream'[w].tenant = stream[w].tenant
    BY Zenon, <1>0, <1>6, ReceiveBecomes DEF Becomes, WatchCall
  <2>2. stream[w].pc = "watch"
    BY <1>6 DEF Receive, At
  <2> QED BY <1>h, <2>1, <2>2
<1>7. ASSUME Hangup(w) PROVE Goal
  <2>1. stream'[w].pc = "leave"
    BY Zenon, <1>0, <1>7, StreamBecomes DEF Becomes, WatchCall
  <2> QED BY <1>c, <2>1
<1>8. ASSUME Unsubscribe(w) PROVE Goal
  BY Zenon, <1>8, <1>n, StreamBecomes
<1>9. ASSUME NEW x \in Watchers, x # w, Serve(x) \/ Client(x) PROVE Goal
  <2>1. CASE Receive(x)
    BY Zenon, <1>9, <1>s, <2>1, ReceiveBecomes DEF Becomes
  <2>2. ASSUME NEW r, Becomes(x, r) PROVE stream'[w] = stream[w]
    BY <1>9, <2>2 DEF Becomes
  <2>3. CASE ~Receive(x)
    BY Zenon, <1>9, <1>s, <2>2, <2>3, StreamBecomes DEF Serve, Client
  <2> QED BY <2>1, <2>3
<1>10. ASSUME Administer \/ UNCHANGED vars PROVE Goal
  <2>1. stream' = stream
    BY Zenon, <1>10 DEF Administer, Create, Update, Delete, vars
  <2> QED BY <1>s, <2>1
<1>11. Goal
  BY <1>1, <1>2, <1>3, <1>4, <1>5, <1>6, <1>7, <1>8, <1>9, <1>10
  DEF Next, Serve, Client
<1> QED BY <1>11 DEF Streaming

(* Every step of enrollment keeps what RoutesInv says of it. *)
LEMMA EnrollmentRoutes ==
  ASSUME TypeOK, EnrollmentOK, RoutesInv, [SessionsNext]_all, NEW w \in Watchers
  PROVE  /\ call'[w].pc \in {"put", "routes"} => Lasting(call[w].tenant)'
         /\ OwnOrDefault(answer'[w].tenant, answer'[w].from)
<1> DEFINE Goal ==
      /\ call'[w].pc \in {"put", "routes"} => Lasting(call[w].tenant)'
      /\ OwnOrDefault(answer'[w].tenant, answer'[w].from)
<1>n. [Next]_vars
  BY SessionsStepTenants
<1>h. /\ call[w].pc \in {"put", "routes"} => Lasting(call[w].tenant)
      /\ OwnOrDefault(answer[w].tenant, answer[w].from)
  BY DEF RoutesInv, TenantsInHand, RoutesOwnOrDefault
<1>l. Lasting(call[w].tenant) /\ call'[w].tenant = call[w].tenant
        => Lasting(call[w].tenant)'
  BY <1>n, LastingStays DEF Lasting
<1>t. /\ call \in [Watchers -> CallSet] /\ answer \in [Watchers -> AnswerSet]
      /\ call[w] \in [pc : {"put", "routes", "member", "renew"},
                      tenant : TenantIDs] \/ call[w] = NoCall
  BY DEF EnrollmentOK, CallSet
<1>s. ASSUME call'[w] = call[w], answer'[w] = answer[w] PROVE Goal
  BY <1>h, <1>l, <1>s
<1>c. ASSUME call'[w].pc \notin {"put", "routes"}, answer'[w] = answer[w]
      PROVE  Goal
  BY <1>c, <1>h
<1>r. ASSUME Reply(w) PROVE call'[w].pc = "idle"
  BY <1>r, <1>t DEF Reply, NoCall
<1>p. ASSUME NEW pc, Then(w, pc), ~Calling(w, "idle")
      PROVE  call'[w].pc = pc /\ call'[w].tenant = call[w].tenant
  BY <1>p, <1>t DEF Then, Calling, NoCall
<1>1. ASSUME NEW asked, ChooseTenant(w, asked) PROVE Goal
  <2>1. PICK n \in For(w) : call' = [call EXCEPT ![w] = [pc |-> "put", tenant |-> n]]
    BY Zenon, <1>1 DEF ChooseTenant
  <2>2. call'[w].tenant = n /\ answer' = answer /\ tenants' = tenants
    BY <1>1, <1>t, <2>1 DEF ChooseTenant, vars
  <2>3. Lasting(call[w].tenant)'
    BY <2>1, <2>2, ForExists DEF Lasting
  <2> QED BY <1>h, <2>2, <2>3
<1>2. ASSUME EnrollFails(w) PROVE Goal
  BY <1>2, <1>c, <1>r DEF EnrollFails
<1>3. ASSUME Put(w) PROVE Goal
  <2>1. call[w].pc = "put" /\ Then(w, "routes") /\ answer' = answer
    BY <1>3 DEF Put, Calling
  <2>2. call'[w].tenant = call[w].tenant
    BY <1>p, <2>1 DEF Calling
  <2> QED BY <1>h, <1>l, <2>1, <2>2
<1>4. ASSUME Routes(w) PROVE Goal
  <2>1. answer'[w] = [tenant |-> call[w].tenant, from |-> Resolve(call[w].tenant)]
    BY <1>4, <1>t DEF Routes
  <2>2. OwnOrDefault(call[w].tenant, Resolve(call[w].tenant))
    BY <1>4, <1>h, LastingResolves DEF Routes, Calling
  <2>3. call'[w].pc = "idle"
    BY <1>4, <1>r DEF Routes
  <2> QED BY <2>1, <2>2, <2>3
<1>5. ASSUME Heartbeat(w) PROVE Goal
  BY <1>5, <1>c, <1>t DEF Heartbeat
<1>6. ASSUME HeartbeatMember(w) PROVE Goal
  BY <1>6, <1>c, <1>r, <1>p DEF HeartbeatMember, Calling
<1>7. ASSUME Renew(w) PROVE Goal
  BY <1>7, <1>c, <1>r DEF Renew
<1>8. ASSUME Deregister(w) \/ LeaseEnds(w) \/ Reap(w) PROVE Goal
  BY <1>8, <1>s DEF Deregister, LeaseEnds, Reap
<1>9. ASSUME NEW x \in Watchers, x # w,
             Request(x) \/ Handle(x) \/ LeaseEnds(x) \/ Reap(x)
      PROVE  Goal
  <2>1. call'[w] = call[w]
    BY <1>9, <1>t
    DEF Request, Heartbeat, Deregister, ChooseTenant, Handle, EnrollFails, Put,
        Routes, HeartbeatMember, Renew, LeaseEnds, Reap, Then, Reply
  <2>2. answer'[w] = answer[w]
    BY <1>9, <1>t
    DEF Request, Heartbeat, Deregister, ChooseTenant, Handle, EnrollFails, Put,
        Routes, HeartbeatMember, Renew, LeaseEnds, Reap
  <2> QED BY <1>s, <2>1, <2>2
<1>10. ASSUME UNCHANGED enrollment PROVE Goal
  BY <1>10, <1>s DEF enrollment
<1>11. Goal
  <2>1. CASE UNCHANGED enrollment
    BY <1>10, <2>1
  <2>2. ASSUME NEW x \in Watchers, Request(x) \/ Handle(x) \/ LeaseEnds(x) \/ Reap(x)
        PROVE  Goal
    <3> HIDE DEF Goal
    <3>1. CASE x = w
      BY Zenon, <2>2, <3>1, <1>1, <1>2, <1>3, <1>4, <1>5, <1>6, <1>7, <1>8
      DEF Request, Handle
    <3> QED BY <1>9, <2>2, <3>1
  <2> HIDE DEF Goal
  <2> QED BY <2>1, <2>2 DEF SessionsNext, Stream, all
<1> QED BY <1>11

(* With any deletions, a device is given the routes of the tenant it chose *)
(* or, if that tenant may be deleted, of the default tenant, and never of  *)
(* a third: neither an enrollment that overlaps with edits of the tenants  *)
(* nor a stream can cross over (what the code keeps of RoutesOfOwnTenant). *)
THEOREM RoutesStayOwnOrDefault == SessionsSpec => []RoutesOwnOrDefault
<1>1. SessionsInit => RoutesInv
  BY DEF SessionsInit, Init, NoStream, NoCall, NoAnswer, RoutesInv,
         TenantsInHand, RoutesOwnOrDefault, OwnOrDefault, Streaming
<1>2. EnrollmentOK /\ StreamInv /\ RoutesInv /\ [SessionsNext]_all => RoutesInv'
  <2> SUFFICES ASSUME EnrollmentOK, StreamInv, RoutesInv, [SessionsNext]_all
               PROVE  RoutesInv'
    OBVIOUS
  <2>1. TypeOK /\ [Next]_vars
    BY SessionsStepTenants DEF StreamInv
  <2> QED BY <2>1, StreamRoutes, EnrollmentRoutes
          DEF RoutesInv, TenantsInHand, RoutesOwnOrDefault
<1>3. RoutesInv => RoutesOwnOrDefault
  BY DEF RoutesInv
<1> QED BY <1>1, <1>2, <1>3, SessionsHold, PTL DEF SessionsSpec

(* Deletion is the only way out: where administrators delete no tenant,    *)
(* nobody is "routed into a network they did not choose"                   *)
(* (RoutesOfOwnTenant).                                                    *)
THEOREM RoutesStayOwn ==
  ASSUME Deletable = {} PROVE SessionsSpec => []RoutesOfOwnTenant
<1>1. RoutesOwnOrDefault => RoutesOfOwnTenant
  BY DEF RoutesOwnOrDefault, OwnOrDefault, RoutesOfOwnTenant
<1> QED BY <1>1, RoutesStayOwnOrDefault, PTL

=============================================================================
