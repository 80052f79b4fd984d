--------------------------- MODULE KeyListProofs ---------------------------
(***************************************************************************)
(* For any number of disablings, streams and faults: the kick channel and  *)
(* the acknowledgements never lose an event, and the poller never leaves   *)
(* two streams at the provider.                                            *)
(***************************************************************************)
EXTENDS KeyList, TLAPS

(* What a poll does to the provider, whether or not its answer arrives. *)
LEMMA AcknowledgeType ==
  ASSUME TypeOK, Acknowledge, pollURL \in streams
  PROVE  /\ queue' \in [1..MaxStreams -> SUBSET (1..version)]
         /\ acked' = acked \cup acks
         /\ acked' \subseteq 1..version
BY DEF TypeOK, Acknowledge

(* Every step keeps the types. *)
LEMMA TypeStep == TypeOK /\ [Next]_vars => TypeOK'
<1> SUFFICES ASSUME TypeOK, [Next]_vars PROVE TypeOK'
  OBVIOUS
<1> USE KeyListAssumption
<1>1. CASE Fetch
  BY <1>1 DEF TypeOK, Fetch, provider
<1>2. CASE FetchFails
  BY <1>2 DEF TypeOK, FetchFails, provider, Fault
<1>3. CASE Refresh
  BY <1>3 DEF TypeOK, Refresh, provider
<1>4. CASE Select
  BY <1>4 DEF TypeOK, Select, TickOrKick, provider
<1>5. CASE Once
  BY <1>5 DEF TypeOK, Once, provider, runner
<1>6. CASE setup
  BY <1>6 DEF TypeOK, setup, Authorized, provider, runner
<1>7. CASE create
  BY <1>7 DEF TypeOK, create, Authorized, NewStream, runner
<1>8. CASE poll
  <2>1. PICK sets \in SUBSET (1..MaxVersion) :
          /\ Delivered(sets)
          /\ acks' = sets
          /\ kick' = IF sets = {} THEN kick ELSE Kick
    BY <1>8 DEF poll
  <2>2. sets \subseteq 1..version
    BY <2>1, <1>8 DEF Delivered, TypeOK, poll
  <2>3. Acknowledge /\ pollURL \in streams
    BY <1>8 DEF poll
  <2> QED
    BY <1>8, <2>1, <2>2, <2>3, AcknowledgeType
    DEF TypeOK, poll, Authorized, Acknowledge, Kick, runner
<1>9. CASE pollRefused
  BY <1>9 DEF TypeOK, pollRefused, Authorized, Fail, NoURL, provider, runner
<1>10. CASE callUnauthorized
  <2>1. /\ UNCHANGED <<provider, runner, kick, acks, faults>>
        /\ Fail
    BY <1>10 DEF callUnauthorized
  <2>2. token' \in BOOLEAN /\ honoured' \in BOOLEAN
    BY <1>10, Zenon DEF callUnauthorized, DropToken, TypeOK
  <2> QED
    BY <2>1, <2>2 DEF TypeOK, Fail, NoURL, provider, runner
<1>11. CASE callFails
  <2>1. CASE UNCHANGED <<provider, token, honoured>>
    BY <1>11, <2>1 DEF TypeOK, callFails, Fault, Fail, NoURL, provider, runner
  <2>2. CASE Authorized /\ NewStream
    BY <1>11, <2>2 DEF TypeOK, callFails, Fault, Fail, NoURL, Authorized,
                       NewStream, runner
  <2>3. CASE Authorized /\ pollURL \in streams /\ Acknowledge
    BY <1>11, <2>3, AcknowledgeType
    DEF TypeOK, callFails, Fault, Fail, NoURL, Authorized, Acknowledge, runner
  <2> QED BY <1>11, <2>1, <2>2, <2>3 DEF callFails
<1>12. CASE Disable
  <2>1. version' \in 0..MaxVersion /\ version <= version'
    BY <1>12 DEF Disable, TypeOK
  <2>2. 1..version \subseteq 1..version' /\ version' \in 1..version'
    BY <1>12 DEF Disable, TypeOK
  <2>3. queue' \in [1..MaxStreams -> SUBSET (1..version')]
    BY <1>12, <2>2 DEF Disable, TypeOK
  <2>4. acked' \subseteq 1..version' /\ acks' \subseteq 1..version'
    BY <1>12, <2>2 DEF Disable, TypeOK
  <2> QED
    BY <1>12, <2>1, <2>3, <2>4 DEF Disable, TypeOK, runner
<1>13. CASE RemoveStream
  BY <1>13 DEF TypeOK, RemoveStream, Fault, runner
<1>14. CASE RevokeToken
  <2>1. /\ UNCHANGED <<provider, runner, kick, pollPC, pollURL, acks>>
        /\ Fault
    BY <1>14 DEF RevokeToken
  <2>2. token' \in BOOLEAN /\ honoured' \in BOOLEAN
    BY <1>14, Zenon DEF RevokeToken, TypeOK
  <2> QED
    BY <2>1, <2>2 DEF TypeOK, Fault, provider, runner
<1>15. CASE TokenEnds
  <2>1. /\ UNCHANGED <<provider, runner, kick, pollPC, pollURL, acks>>
        /\ Fault
    BY <1>15 DEF TokenEnds
  <2>2. token' \in BOOLEAN /\ honoured' \in BOOLEAN
    BY <1>15, Zenon DEF TokenEnds, TypeOK
  <2> QED
    BY <2>1, <2>2 DEF TypeOK, Fault, provider, runner
<1>16. CASE Restart
  <2>1. /\ UNCHANGED provider
        /\ list' = version /\ runPC' = "fetch" /\ hand' = 0 /\ kick' = 0
        /\ pollPC' = "rest" /\ pollURL' = NoURL /\ acks' = {}
        /\ Fault
    BY <1>16 DEF Restart
  <2>2. token' \in BOOLEAN /\ honoured' \in BOOLEAN /\ failed' \in BOOLEAN
    BY <1>16, Zenon DEF Restart, TypeOK
  <2> QED
    BY <2>1, <2>2 DEF TypeOK, Fault, NoURL, provider
<1>17. CASE UNCHANGED vars
  BY <1>17 DEF TypeOK, vars, provider, runner
<1> QED
  BY <1>1, <1>2, <1>3, <1>4, <1>5, <1>6, <1>7, <1>8, <1>9, <1>10, <1>11,
     <1>12, <1>13, <1>14, <1>15, <1>16, <1>17
  DEF Next, Run, Poller, Environment

(* Initial states are well typed. *)
LEMMA TypeInit == Init => TypeOK
<1> SUFFICES ASSUME Init PROVE TypeOK
  OBVIOUS
<1>1. token \in BOOLEAN /\ honoured \in BOOLEAN /\ failed \in BOOLEAN
  BY Zenon DEF Init
<1>2. /\ version = 0 /\ streams = {} /\ created = 0
      /\ queue = [s \in 1..MaxStreams |-> {}]
      /\ acked = {} /\ acks = {}
      /\ list = 0 /\ runPC = "fetch" /\ hand = 0
      /\ kick = 0 /\ pollPC = "rest" /\ pollURL = 0 /\ faults = 0
  BY DEF Init, NoURL
<1> QED
  BY <1>1, <1>2, KeyListAssumption DEF TypeOK

(* The two goroutines and the provider keep their types: in particular the *)
(* channel between them never holds more than the one kick it has room     *)
(* for, and no list held is newer than the provider's.                     *)
THEOREM KeyListTypeCorrect == Spec => []TypeOK
BY TypeInit, TypeStep, PTL DEF Spec

-----------------------------------------------------------------------------

(* An answer under way is no older than the list it will replace. *)
AnswerIsNewer == runPC = "answer" => list <= hand

FetchInv == TypeOK /\ AnswerIsNewer /\ AckedEventsFetched

(* Every step keeps acknowledged events on their way into the list. *)
LEMMA FetchStep == FetchInv /\ [Next]_vars => FetchInv'
<1> SUFFICES ASSUME FetchInv, [Next]_vars PROVE FetchInv'
  OBVIOUS
<1>t. TypeOK /\ TypeOK'
  BY TypeStep DEF FetchInv
<1>a. AnswerIsNewer /\ AckedEventsFetched
  BY DEF FetchInv
<1>n. /\ version \in Nat /\ list \in Nat /\ hand \in Nat
      /\ list <= version /\ hand <= version
      /\ \A e \in acks \cup acked : e \in Nat /\ e <= version
  BY <1>t, KeyListAssumption DEF TypeOK
<1> SUFFICES AnswerIsNewer' /\ AckedEventsFetched'
  BY <1>t DEF FetchInv
<1> USE DEF AnswerIsNewer, AckedEventsFetched
<1>1. CASE Fetch
  BY <1>1, <1>a, <1>n DEF Fetch, provider
<1>2. CASE FetchFails
  BY <1>2, <1>a DEF FetchFails, provider
<1>3. CASE Refresh
  BY <1>3, <1>a, <1>n DEF Refresh, provider
<1>4. CASE Select
  BY <1>4, <1>a DEF Select, provider
<1>5. CASE Once \/ setup \/ pollRefused \/ callUnauthorized
  BY <1>5, <1>a
  DEF Once, setup, pollRefused, callUnauthorized, Fail, provider, runner
<1>6. CASE create
  BY <1>6, <1>a DEF create, NewStream, runner
<1>7. CASE poll
  <2>1. PICK sets \in SUBSET (1..MaxVersion) :
          /\ acks' = sets
          /\ kick' = IF sets = {} THEN kick ELSE Kick
    BY <1>7 DEF poll
  <2>2. CASE sets = {}
    BY <1>7, <1>a, <2>1, <2>2 DEF poll, Acknowledge, runner
  <2>3. CASE sets # {}
    BY <1>7, <1>a, <2>1, <2>3 DEF poll, Acknowledge, Kick, runner
  <2> QED BY <2>2, <2>3
<1>8. CASE callFails
  BY <1>8, <1>a DEF callFails, Fail, NewStream, Acknowledge, provider, runner
<1>9. CASE Disable
  BY <1>9, <1>a DEF Disable, runner
<1>10. CASE RemoveStream \/ RevokeToken \/ TokenEnds
  BY <1>10, <1>a DEF RemoveStream, RevokeToken, TokenEnds, provider, runner
<1>11. CASE Restart
  BY <1>11 DEF Restart
<1>12. CASE UNCHANGED vars
  BY <1>12, <1>a DEF vars, provider, runner
<1> QED
  BY <1>1, <1>2, <1>3, <1>4, <1>5, <1>6, <1>7, <1>8, <1>9, <1>10, <1>11, <1>12
  DEF Next, Run, Poller, Environment

(* No event is acknowledged to the provider without the list it announces  *)
(* being held, on its way or asked for, unless the fetch just tried        *)
(* failed: the channel of one kick with its default case is enough, and    *)
(* acknowledging only at the next poll is late enough.                     *)
THEOREM AcknowledgedEventsAreFetched == Spec => []AckedEventsFetched
<1>1. Init => FetchInv
  BY TypeInit DEF Init, FetchInv, AnswerIsNewer, AckedEventsFetched
<1>2. FetchInv => AckedEventsFetched
  BY DEF FetchInv
<1> QED
  BY <1>1, <1>2, FetchStep, PTL DEF Spec

-----------------------------------------------------------------------------

StreamInv == OneStream /\ (pollPC = "create" => streams = {})

(* The poller comes to create a stream only when there is none, and only   *)
(* its own steps create one.                                               *)
THEOREM StreamStaysSingle == Spec => []OneStream
<1>1. Init => StreamInv
  BY DEF Init, StreamInv, OneStream
<1>2. StreamInv /\ [Next]_vars => StreamInv'
  <2> SUFFICES ASSUME StreamInv, [Next]_vars PROVE StreamInv'
    OBVIOUS
  <2> USE DEF StreamInv, OneStream
  <2>1. CASE Run
    BY <2>1 DEF Run, Fetch, FetchFails, Refresh, Select, provider
  <2>2. CASE Once \/ setup \/ poll \/ pollRefused \/ callUnauthorized
    BY <2>2 DEF Once, setup, Reuse, poll, Acknowledge, pollRefused,
                callUnauthorized, Fail, provider
  <2>3. CASE create \/ callFails
    BY <2>3 DEF create, callFails, NewStream, Acknowledge, Fail, provider
  <2>4. CASE Environment
    BY <2>4 DEF Environment, Disable, RemoveStream, RevokeToken, TokenEnds,
                Restart, provider
  <2>5. CASE UNCHANGED vars
    BY <2>5 DEF vars, provider
  <2> QED
    BY <2>1, <2>2, <2>3, <2>4, <2>5 DEF Next, Poller
<1>3. StreamInv => OneStream
  BY DEF StreamInv
<1> QED
  BY <1>1, <1>2, <1>3, PTL DEF Spec

=============================================================================
