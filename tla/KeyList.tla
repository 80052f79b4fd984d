------------------------------ MODULE KeyList ------------------------------
(***************************************************************************)
(* How the gateway keeps up with the provider's key list: the loop of      *)
(* internal/peers that fetches it, on a ticker or when kicked, and the     *)
(* poller of internal/ssfpoll that reads the provider's event stream and   *)
(* kicks.  The two goroutines share one channel of capacity one.           *)
(*                                                                         *)
(* The list is known by its version: the number of disablings it reflects. *)
(* The n-th disabling is announced by event n.  An HTTP call is one step,  *)
(* with the outcomes of a call: answered, refused, not made, or made with  *)
(* its answer lost.                                                        *)
(***************************************************************************)
EXTENDS Naturals, FiniteSets

CONSTANTS
  MaxVersion,   \* bound on the disablings
  MaxStreams,   \* bound on the event streams ever created
  MaxEvents,    \* maxEvents of a poll (50)
  MaxFaults     \* bound on faults: the network works again in the end

ASSUME KeyListAssumption ==
  /\ MaxVersion \in Nat /\ MaxStreams \in Nat
  /\ MaxEvents \in Nat \ {0} /\ MaxFaults \in Nat

VARIABLES
  version,      \* provider: version of the list
  streams,      \* provider: this receiver's poll streams
  created,      \* provider: streams created so far
  queue,        \* provider: stream -> events not acknowledged
  acked,        \* provider: events acknowledged
  honoured,     \* provider: whether the poller's token is honoured
  list,         \* peers.Registry: version of the list held
  runPC,        \* Registry.Run: "fetch", "answer" or "select"
  hand,         \* Registry.Run: version of the list being received
  failed,       \* Registry.Run: whether the latest fetch failed
  kick,         \* number of kicks in the channel
  pollPC,       \* Poller.Run: "rest", "setup", "create" or "poll"
  pollURL,      \* Poller: the stream polled, or NoURL
  token,        \* Poller: whether it has a token it takes to be good
  acks,         \* Poller: events to acknowledge at the next poll
  faults        \* faults so far

provider == <<version, streams, created, queue, acked>>
runner == <<list, runPC, hand, failed>>
vars == <<provider, honoured, runner, kick, pollPC, pollURL, token, acks,
          faults>>

NoURL == 0

Fault == faults < MaxFaults /\ faults' = faults + 1

-----------------------------------------------------------------------------
(* Registry.Run *)

(* Fetch: the provider signs its list as it is now, and the answer is on   *)
(* its way.                                                                *)
Fetch ==
  /\ runPC = "fetch"
  /\ runPC' = "answer"
  /\ hand' = version
  /\ UNCHANGED <<provider, honoured, list, failed, kick, pollPC, pollURL,
                 token, acks, faults>>

FetchFails ==
  /\ runPC \in {"fetch", "answer"}
  /\ Fault
  /\ runPC' = "select"
  /\ failed' = TRUE
  /\ UNCHANGED <<provider, honoured, list, hand, kick, pollPC, pollURL,
                 token, acks>>

(* Refresh keeps the list, and onList reconciles with it. *)
Refresh ==
  /\ runPC = "answer"
  /\ runPC' = "select"
  /\ list' = hand
  /\ failed' = FALSE
  /\ UNCHANGED <<provider, honoured, hand, kick, pollPC, pollURL, token,
                 acks, faults>>

(* The select: a tick of the interval, or a kick, starts the next fetch.   *)
KickOnly == kick = 1 /\ kick' = 0                                  \* mutant
TickOrKick == kick' = kick \/ (kick = 1 /\ kick' = 0)

Select ==
  /\ runPC = "select"
  /\ TickOrKick
  /\ runPC' = "fetch"
  /\ UNCHANGED <<provider, honoured, list, hand, failed, pollPC, pollURL,
                 token, acks, faults>>

-----------------------------------------------------------------------------
(* Poller.Run: Once, with its setup, and call with its bearer. *)

(* Once starts with setup unless a stream is known. *)
Once ==
  /\ pollPC = "rest"
  /\ pollPC' = IF pollURL = NoURL THEN "setup" ELSE "poll"
  /\ UNCHANGED <<provider, honoured, runner, kick, pollURL, token, acks,
                 faults>>

(* An error ends Once, and Run forgets the stream. *)
Fail ==
  /\ pollPC' = "rest"
  /\ pollURL' = NoURL

(* call: bearer has a good token, the one it kept or one it just got. *)
Authorized ==
  /\ token => honoured
  /\ token' = TRUE
  /\ honoured' = TRUE

(* The first call of setup lists the streams: one is reused if there is    *)
(* one.                                                                    *)
NeverReuse(url) == FALSE                                           \* mutant
Reuse(url) == url \in streams

setup ==
  /\ pollPC = "setup"
  /\ Authorized
  /\ \/ \E url \in streams :
          /\ Reuse(url)
          /\ pollURL' = url
          /\ pollPC' = "poll"
     \/ /\ \A url \in streams : ~Reuse(url)
        /\ pollPC' = "create"
        /\ UNCHANGED pollURL
  /\ UNCHANGED <<provider, runner, kick, acks, faults>>

NewStream ==
  /\ created < MaxStreams
  /\ created' = created + 1
  /\ streams' = streams \cup {created'}
  /\ UNCHANGED <<version, queue, acked>>

create ==
  /\ pollPC = "create"
  /\ Authorized
  /\ NewStream
  /\ pollURL' = created'
  /\ pollPC' = "poll"
  /\ UNCHANGED <<runner, kick, acks, faults>>

(* The provider's side of a poll: what is acknowledged leaves the queue,   *)
(* and at most MaxEvents of what is left are delivered.                    *)
Acknowledge ==
  /\ queue' = [queue EXCEPT ![pollURL] = @ \ acks]
  /\ acked' = acked \cup acks
  /\ UNCHANGED <<version, streams, created>>

Delivered(sets) ==
  /\ sets \subseteq queue[pollURL] \ acks
  /\ Cardinality(sets) <= MaxEvents
  /\ sets = {} => queue[pollURL] \subseteq acks

(* The send on the channel, or its default when a kick is pending. *)
KickTwice == kick + 1                                              \* mutant
KickIfIdle == IF runPC = "select" THEN 1 ELSE kick                 \* mutant
Kick == 1

poll ==
  /\ pollPC = "poll"
  /\ Authorized
  /\ pollURL \in streams
  /\ Acknowledge
  /\ \E sets \in SUBSET (1..MaxVersion) :
       /\ Delivered(sets)
       /\ acks' = sets
       /\ kick' = IF sets = {} THEN kick ELSE Kick
  /\ pollPC' = "rest"
  /\ UNCHANGED <<runner, pollURL, faults>>

(* The stream is gone: the provider refuses the poll. *)
pollRefused ==
  /\ pollPC = "poll"
  /\ Authorized
  /\ pollURL \notin streams
  /\ Fail
  /\ UNCHANGED <<provider, runner, kick, acks, faults>>

(* 401: the token is dropped, so that the next call gets another. *)
KeepToken == TRUE                                                  \* mutant
DropToken == FALSE

callUnauthorized ==
  /\ pollPC \in {"setup", "create", "poll"}
  /\ token /\ ~honoured
  /\ token' = DropToken
  /\ Fail
  /\ UNCHANGED <<provider, honoured, runner, kick, acks, faults>>

(* A call that is not made, or gets no token, or whose answer does not     *)
(* arrive although the provider acted on it.                               *)
callFails ==
  /\ pollPC \in {"setup", "create", "poll"}
  /\ Fault
  /\ \/ UNCHANGED <<provider, token, honoured>>
     \/ pollPC = "create" /\ Authorized /\ NewStream
     \/ pollPC = "poll" /\ Authorized /\ pollURL \in streams /\ Acknowledge
  /\ Fail
  /\ UNCHANGED <<runner, kick, acks>>

-----------------------------------------------------------------------------
(* The provider, the clock and the process. *)

Disable ==
  /\ version < MaxVersion
  /\ version' = version + 1
  /\ queue' = [s \in DOMAIN queue |->
                 IF s \in streams THEN queue[s] \cup {version'} ELSE queue[s]]
  /\ UNCHANGED <<streams, created, acked, honoured, runner, kick, pollPC,
                 pollURL, token, acks, faults>>

RemoveStream ==
  /\ Fault
  /\ \E s \in streams : streams' = streams \ {s}
  /\ UNCHANGED <<version, created, queue, acked, honoured, runner, kick,
                 pollPC, pollURL, token, acks>>

RevokeToken ==
  /\ token /\ honoured
  /\ Fault
  /\ honoured' = FALSE
  /\ UNCHANGED <<provider, runner, kick, pollPC, pollURL, token, acks>>

(* The token comes within 30 seconds of its end. *)
TokenEnds ==
  /\ token
  /\ Fault
  /\ token' = FALSE
  /\ UNCHANGED <<provider, honoured, runner, kick, pollPC, pollURL, acks>>

(* The process stops and starts again: everything it held is lost, and it  *)
(* reads a first list before it serves.                                    *)
Restart ==
  /\ Fault
  /\ list' = version
  /\ runPC' = "fetch" /\ hand' = 0 /\ failed' = FALSE
  /\ kick' = 0
  /\ pollPC' = "rest" /\ pollURL' = NoURL /\ token' = FALSE /\ acks' = {}
  /\ UNCHANGED <<provider, honoured>>

Init ==
  /\ version = 0 /\ streams = {} /\ created = 0
  /\ queue = [s \in 1..MaxStreams |-> {}]
  /\ acked = {}
  /\ honoured = FALSE
  /\ list = 0 /\ runPC = "fetch" /\ hand = 0 /\ failed = FALSE
  /\ kick = 0
  /\ pollPC = "rest" /\ pollURL = NoURL /\ token = FALSE /\ acks = {}
  /\ faults = 0

Run == Fetch \/ FetchFails \/ Refresh \/ Select

Poller ==
  \/ Once \/ setup \/ create \/ poll
  \/ pollRefused \/ callUnauthorized \/ callFails

Environment == Disable \/ RemoveStream \/ RevokeToken \/ TokenEnds \/ Restart

Next == Run \/ Poller \/ Environment

Spec == Init /\ [][Next]_vars

(* Both goroutines run, their tickers tick, and faults are finitely many.  *)
FairSpec == Spec /\ WF_vars(Run) /\ WF_vars(Poller)

-----------------------------------------------------------------------------
(* Properties. *)

Events == 1..MaxVersion

(* Types; the kick channel holds at most its one kick, and no list or      *)
(* event is from the future.                                               *)
TypeOK ==
  /\ version \in 0..MaxVersion
  /\ created \in 0..MaxStreams /\ streams \subseteq 1..created
  /\ queue \in [1..MaxStreams -> SUBSET (1..version)]
  /\ acked \subseteq 1..version /\ acks \subseteq 1..version
  /\ list \in 0..version /\ hand \in 0..version
  /\ honoured \in BOOLEAN /\ token \in BOOLEAN /\ failed \in BOOLEAN
  /\ runPC \in {"fetch", "answer", "select"}
  /\ kick \in {0, 1}
  /\ pollPC \in {"rest", "setup", "create", "poll"}
  /\ pollURL \in 0..created
  /\ faults \in 0..MaxFaults

(* An event is never spent without its effect: once the provider has been  *)
(* told it arrived, the list held reflects it, or a fetch that will is     *)
(* under way or asked for.  Only when the fetch just tried failed does it  *)
(* wait for the ticker (ssfpoll.go:65, peers.go:40).                       *)
AckedEventsFetched ==
  \A e \in acks \cup acked :
    \/ e <= list
    \/ kick = 1
    \/ runPC = "fetch"
    \/ runPC = "answer" /\ e <= hand
    \/ runPC = "select" /\ failed

(* "One is reused rather than one made per start" (ssfpoll.go:115): never  *)
(* more than one stream at the provider, whatever restarts and answers     *)
(* lost.                                                                   *)
OneStream == \A s1, s2 \in streams : s1 = s2

(* Every disabling reaches the list, even if its event never reaches the   *)
(* poller (peers.go:82).                                                   *)
DisablingReachesList ==
  \A v \in Events : (version >= v) ~> (list >= v)

(* Every event of a stream that lasts is delivered and acknowledged, even  *)
(* if the poller's token or its answers were lost on the way.              *)
EventsAreAcknowledged ==
  \A s \in 1..MaxStreams, e \in Events :
    (s \in streams /\ e \in queue[s])
      ~> (s \notin streams \/ e \notin queue[s])

=============================================================================
