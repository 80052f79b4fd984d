------------------------------ MODULE Sessions ------------------------------
(***************************************************************************)
(* Enrollment and tenants together: a device enrolls into a tenant, renews *)
(* its session there and watches the tenant's routes, while administrators *)
(* create, edit and delete tenants.  The tenants and the streams are those *)
(* of module Tenants; of enrollment only what tenants have to do with is   *)
(* here (ControlPlane has the addresses, the WireGuard device and the key  *)
(* list).  A device has one API request in flight at a time, beside its    *)
(* Watch stream.                                                           *)
(***************************************************************************)
EXTENDS Tenants

CONSTANTS
  NoTenant,
  Asked         \* what an enrollment may ask for: tenants, or NoTenant

ASSUME SessionsAssumption ==
  NoTenant \notin TenantIDs /\ Asked \subseteq TenantIDs \cup {NoTenant}

VARIABLES
  session,      \* device -> its peer in the store: [tenant, fresh], where
                \* fresh is that its lease has not ended
  call,         \* device -> the call its API request is about to make
  answer        \* device -> tenant of its latest enrollment, and the tenant
                \* whose routes the answer carried

enrollment == <<session, call, answer>>
all == <<vars, enrollment>>

NoSession == [tenant |-> NoTenant, fresh |-> FALSE]
NoCall == [pc |-> "idle", tenant |-> NoTenant]
NoAnswer == [tenant |-> NoTenant, from |-> NoTenant]

Enrolled(w) == session[w].tenant # NoTenant
Calling(w, pc) == call[w].pc = pc
Then(w, pc) == call' = [call EXCEPT ![w].pc = pc]
Reply(w) == call' = [call EXCEPT ![w] = NoCall]

-----------------------------------------------------------------------------
(* handleEnroll *)

ChooseTenant(w, asked) ==
  /\ Calling(w, "idle")
  /\ \E n \in For(w) :
       /\ n = asked \/ (asked = NoTenant /\ For(w) = {n})
       /\ call' = [call EXCEPT ![w] = [pc |-> "put", tenant |-> n]]
  /\ UNCHANGED <<vars, session, answer>>

(* The pool is empty, the key is another's, or the gateway fails. *)
EnrollFails(w) ==
  /\ Calling(w, "put")
  /\ Reply(w)
  /\ UNCHANGED <<vars, session, answer>>

Put(w) ==
  /\ Calling(w, "put")
  /\ session' = [session EXCEPT ![w] = [tenant |-> call[w].tenant,
                                        fresh |-> TRUE]]
  /\ Then(w, "routes")
  /\ UNCHANGED <<vars, answer>>

Routes(w) ==
  /\ Calling(w, "routes")
  /\ answer' = [answer EXCEPT ![w] = [tenant |-> call[w].tenant,
                                      from |-> Resolve(call[w].tenant)]]
  /\ Reply(w)
  /\ UNCHANGED <<vars, session>>

-----------------------------------------------------------------------------
(* handleHeartbeat and handleDeregister *)

Heartbeat(w) ==
  /\ Calling(w, "idle")
  /\ Enrolled(w)
  /\ call' = [call EXCEPT ![w] = [pc |-> "member",
                                  tenant |-> session[w].tenant]]
  /\ UNCHANGED <<vars, session, answer>>

AnyMember(w) == TRUE                                               \* mutant
StillMember(w) == IsMember(call[w].tenant, w)

HeartbeatMember(w) ==
  /\ Calling(w, "member")
  /\ IF StillMember(w) THEN Then(w, "renew") ELSE Reply(w)
  /\ UNCHANGED <<vars, session, answer>>

RenewBlindly(w) == TRUE                                            \* mutant
Renewable(w) == Enrolled(w)

(* store.Renew: a session that is gone stays gone. *)
Renew(w) ==
  /\ Calling(w, "renew")
  /\ session' = [session EXCEPT ![w].fresh = Renewable(w)]
  /\ Reply(w)
  /\ UNCHANGED <<vars, answer>>

Deregister(w) ==
  /\ Calling(w, "idle")
  /\ Enrolled(w)
  /\ session' = [session EXCEPT ![w] = NoSession]
  /\ UNCHANGED <<vars, call, answer>>

-----------------------------------------------------------------------------
(* The clock and the reaper. *)

LeaseEnds(w) ==
  /\ session[w].fresh
  /\ session' = [session EXCEPT ![w].fresh = FALSE]
  /\ UNCHANGED <<vars, call, answer>>

Reap(w) ==
  /\ Enrolled(w) /\ ~session[w].fresh
  /\ session' = [session EXCEPT ![w] = NoSession]
  /\ UNCHANGED <<vars, call, answer>>

-----------------------------------------------------------------------------

(* Watch finds the tenant by the device's enrollment. *)
WatchEnrolled(w) == Enrolled(w) /\ Watch(w, session[w].tenant)

SessionsInit ==
  /\ Init
  /\ session = [w \in Watchers |-> NoSession]
  /\ call = [w \in Watchers |-> NoCall]
  /\ answer = [w \in Watchers |-> NoAnswer]

Request(w) ==
  \/ Heartbeat(w) \/ Deregister(w)
  \/ \E asked \in Asked : ChooseTenant(w, asked)

Handle(w) ==
  EnrollFails(w) \/ Put(w) \/ Routes(w) \/ HeartbeatMember(w) \/ Renew(w)

Stream(w) == Serve(w) /\ UNCHANGED enrollment

SessionsNext ==
  \/ Administer /\ UNCHANGED enrollment
  \/ \E w \in Watchers :
       \/ Request(w) \/ Handle(w) \/ LeaseEnds(w) \/ Reap(w)
       \/ Stream(w)
       \/ (WatchEnrolled(w) \/ Hangup(w)) /\ UNCHANGED enrollment

(* Handlers, streams and the reaper keep running, and time passes: a lease *)
(* ends again and again, or is entered or renewed again and again.         *)
SessionsFairness ==
  \A w \in Watchers :
    /\ WF_all(Handle(w)) /\ WF_all(Stream(w)) /\ WF_all(Reap(w))
    /\ []<>(~session[w].fresh) \/ []<><<Put(w) \/ Renew(w)>>_all

SessionsSpec == SessionsInit /\ [][SessionsNext]_all /\ SessionsFairness

-----------------------------------------------------------------------------
(* Properties. *)

(* Types, and which calls are made with a tenant in hand.                  *)
SessionsTypeOK ==
  /\ TypeOK
  /\ session \in [Watchers -> [tenant : TenantIDs, fresh : BOOLEAN]
                                 \cup {NoSession}]
  /\ call \in [Watchers -> [pc : {"put", "routes", "member", "renew"},
                            tenant : TenantIDs] \cup {NoCall}]
  /\ answer \in [Watchers -> [tenant : TenantIDs, from : TenantIDs]
                               \cup {NoAnswer}]

(* A person who is out of a tenant for good, because a list of the tenant  *)
(* was edited, the tenant was deleted or, for the default tenant, another  *)
(* came to match them, does not stay in it (README.md:131): whatever       *)
(* enrollments, renewals and lease ends were under way, their device's     *)
(* session there is over for good.                                         *)
RemovedLeaveTenant ==
  \A w \in Watchers, n \in TenantIDs :
    <>[](~IsMember(n, w)) => <>[](session[w].tenant # n)

(* A person is never "routed into a network they did not choose"           *)
(* (README.md:130): an enrollment is answered with the routes of the       *)
(* tenant it chose, and a stream carries those of the tenant the device    *)
(* enrolled into.                                                          *)
RoutesOfOwnTenant ==
  \A w \in Watchers :
    /\ answer[w].from = answer[w].tenant
    /\ Streaming(w) => stream[w].from = stream[w].tenant

=============================================================================
