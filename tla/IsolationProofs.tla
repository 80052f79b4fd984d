--------------------------- MODULE IsolationProofs ---------------------------
(***************************************************************************)
(* What holds of ControlPlane when operations on one key do not overlap,   *)
(* for any number of keys, addresses, people and goroutines, with crashes  *)
(* and sweeps cut short: a key keeps its owner; the store and the pool     *)
(* agree if no re-addition fails; and the WireGuard device agrees with     *)
(* them if no removal fails either.                                        *)
(***************************************************************************)
EXTENDS ControlPlaneProofs

(* No two operations on one key at once. *)
Isolated == Isolation = "key"

(* The addition of a device that is already enrolled does not fail. *)
Careful == "readd" \notin Faults

(* Nor does the removal of a peer. *)
Obeys == Careful /\ "remove" \notin Faults

-----------------------------------------------------------------------------
(* The inductive invariant.  A key is in the hands of one operation at a   *)
(* time, so an invariant about keys need only say, call by call, how the   *)
(* operation in flight on a key has left its entry and its peer.           *)

Exclusive ==
  /\ \A p, q \in DOMAIN job : job[p].key = job[q].key => p = q
  /\ \A p \in DOMAIN job, q \in Loops : \A x \in todo[q] : x.key # job[p].key
  /\ \A q, r \in Loops : \A x \in todo[q], y \in todo[r] :
       x.key = y.key => q = r /\ x = y

(* What the call about to be made takes for granted of a store S and a     *)
(* device D.                                                               *)
JobFits(j, S, D) ==
  /\ j.call \in {"allocate", "add", "release"} => j.key \notin DOMAIN S
  /\ Careful /\ j.call = "undo" => j.key \notin DOMAIN S
  /\ j.call \in {"readd", "remove", "delete"} =>
       j.key \in DOMAIN S /\ S[j.key].ip = j.ip
  /\ j.call = "readd" => S[j.key].subject = j.subject
  /\ j.call = "put" =>
       (j.key \in DOMAIN S => S[j.key].ip = j.ip /\ S[j.key].subject = j.subject)
  /\ Obeys /\ j.call = "put" => j.key \in DOMAIN D /\ D[j.key] = {j.ip}
  /\ Obeys /\ j.call = "delete" => j.key \notin DOMAIN D

JobsFit == \A p \in DOMAIN job : JobFits(job[p], store, device)

SnapshotsFit ==
  \A q \in Loops : \A x \in todo[q] :
    x.key \in DOMAIN store /\ store[x.key].ip = x.ip

(* A key's peer is what its entry says, except between AddPeer and Put and *)
(* between RemovePeer and Delete.                                          *)
Agrees(k, S, D) ==
  /\ k \in DOMAIN D <=> k \in DOMAIN S
  /\ k \in DOMAIN S => D[k] = {S[k].ip}

Between(k, J) ==
  \E p \in DOMAIN J : J[p].key = k /\ J[p].call \in {"put", "delete"}

DeviceAgrees ==
  up => \A k \in Keys : Between(k, job) \/ Agrees(k, store, device)

(* An address is held for a key by its entry, or by the operation that     *)
(* took it and has not entered it yet, or is about to give it back.        *)
Carries(j) == j.call \in {"add", "undo", "put", "release"}

Holds(k, ip, S, J) ==
  \/ k \in DOMAIN S /\ S[k].ip = ip
  \/ \E p \in DOMAIN J : Carries(J[p]) /\ J[p].key = k /\ J[p].ip = ip

OneHolder ==
  \A k1, k2 \in Keys, ip \in Hosts :
    Holds(k1, ip, store, job) /\ Holds(k2, ip, store, job) => k1 = k2

TakenIsHeld ==
  up => \A ip \in Hosts :
    ip \in used <=> (ip = ServerIP \/ \E k \in Keys : Holds(k, ip, store, job))

(* On the device are the peers configured by hand, as they were, and peers *)
(* the sweep can tell.                                                     *)
PeersKnown ==
  /\ \A k \in DOMAIN ByHand : k \in DOMAIN device /\ device[k] = ByHand[k]
  /\ \A k \in DOMAIN device \ DOMAIN ByHand : \E ip \in Hosts : device[k] = {ip}

DownForgets ==
  ~up => store = Empty /\ job = Empty /\ \A q \in Loops : todo[q] = {}

IsolationInv ==
  /\ Exclusive /\ JobsFit /\ SnapshotsFit /\ DownForgets
  /\ Careful => OneHolder /\ TakenIsHeld
  /\ Obeys => DeviceAgrees /\ PeersKnown

-----------------------------------------------------------------------------
(* A step on one key.  Operation t works on k, alone: the other operations *)
(* in flight are on other keys and go on as they were, and the store and   *)
(* a device that obeys stay as they were but for k.                        *)

Elsewhere(k, f, g) ==
  /\ \A x \in DOMAIN f \ {k} : x \in DOMAIN g /\ g[x] = f[x]
  /\ \A x \in DOMAIN g \ {k} : x \in DOMAIN f

Alone(t, k) ==
  /\ up /\ up'
  /\ \A p \in DOMAIN job' \ {t} :
       p \in DOMAIN job /\ job'[p] = job[p] /\ job[p].key # k
  /\ \A p \in DOMAIN job \ {t} : p \in DOMAIN job'
  /\ t \in DOMAIN job => job[t].key = k
  /\ t \in DOMAIN job' => job'[t].key = k
  /\ \A q \in Loops : todo'[q] \subseteq todo[q]
  /\ \A q \in Loops : \A x \in todo'[q] : x.key # k
  /\ Elsewhere(k, store, store')
  /\ Obeys => Elsewhere(k, device, device')

(* The other operations stay exclusive, and t has k for itself. *)
LEMMA AloneExclusive ==
  ASSUME Exclusive, NEW t, NEW k, Alone(t, k) PROVE Exclusive'
<1>1. \A p, q \in DOMAIN job' : job'[p].key = job'[q].key => p = q
  BY DEF Exclusive, Alone
<1>2. \A p \in DOMAIN job', q \in Loops : \A x \in todo'[q] : x.key # job'[p].key
  BY Zenon DEF Exclusive, Alone
<1>3. \A q, r \in Loops : \A x \in todo'[q], y \in todo'[r] :
        x.key = y.key => q = r /\ x = y
  BY DEF Exclusive, Alone
<1> QED BY Zenon, <1>1, <1>2, <1>3 DEF Exclusive

(* What the other operations take for granted is left alone. *)
LEMMA AloneJobsFit ==
  ASSUME JobsFit, NEW t, NEW k, Alone(t, k),
         t \in DOMAIN job' => JobFits(job'[t], store', device')
  PROVE  JobsFit'
<1>1. ASSUME NEW p \in DOMAIN job', p # t
      PROVE  JobFits(job'[p], store', device')
  <2>1. job'[p] = job[p] /\ job[p].key # k /\ JobFits(job[p], store, device)
    BY Zenon, <1>1 DEF Alone, JobsFit
  <2>2. Elsewhere(k, store, store') /\ (Obeys => Elsewhere(k, device, device'))
    BY Zenon DEF Alone
  <2> QED BY <2>1, <2>2 DEF JobFits, Elsewhere
<1> QED BY Zenon, <1>1 DEF JobsFit

(* So is what the snapshots say. *)
LEMMA AloneSnapshotsFit ==
  ASSUME SnapshotsFit, NEW t, NEW k, Alone(t, k) PROVE SnapshotsFit'
BY Zenon DEF SnapshotsFit, Alone, Elsewhere

(* The device still agrees with the store about the other keys. *)
LEMMA AloneDeviceAgrees ==
  ASSUME Obeys, DeviceAgrees, NEW t, NEW k, Alone(t, k),
         Between(k, job') \/ Agrees(k, store', device')
  PROVE  DeviceAgrees'
<1>1. ASSUME NEW x \in Keys, x # k
      PROVE  Between(x, job') \/ Agrees(x, store', device')
  <2>1. CASE Between(x, job)
    <3>1. PICK p \in DOMAIN job : job[p].key = x /\ job[p].call \in {"put", "delete"}
      BY Zenon, <2>1 DEF Between
    <3>2. p \in DOMAIN job' /\ job'[p] = job[p]
      BY Zenon, <1>1, <3>1 DEF Alone
    <3> QED BY Zenon, <3>1, <3>2 DEF Between
  <2>2. CASE Agrees(x, store, device)
    <3>1. Elsewhere(k, store, store') /\ Elsewhere(k, device, device')
      BY Zenon DEF Alone
    <3> QED BY Zenon, <1>1, <2>2, <3>1 DEF Agrees, Elsewhere
  <2> QED BY Zenon, <2>1, <2>2 DEF DeviceAgrees, Alone
<1> QED BY Zenon, <1>1 DEF DeviceAgrees

(* The other keys hold what they held. *)
LEMMA AloneHolds ==
  ASSUME NEW t, NEW k, Alone(t, k), NEW x, x # k, NEW ip
  PROVE  Holds(x, ip, store', job') <=> Holds(x, ip, store, job)
<1>1. (x \in DOMAIN store' /\ store'[x].ip = ip)
        <=> (x \in DOMAIN store /\ store[x].ip = ip)
  BY Zenon DEF Alone, Elsewhere
<1>2. (\E p \in DOMAIN job' : Carries(job'[p]) /\ job'[p].key = x /\ job'[p].ip = ip)
        <=> (\E p \in DOMAIN job : Carries(job[p]) /\ job[p].key = x /\ job[p].ip = ip)
  BY Zenon DEF Alone
<1> QED BY Zenon, <1>1, <1>2 DEF Holds

(* A step keeps what k holds, takes a free address for it, or gives back   *)
(* one that k held.                                                        *)
Accounted(k) ==
  \/ /\ used' = used
     /\ \A ip \in Hosts : Holds(k, ip, store', job') <=> Holds(k, ip, store, job)
  \/ \E new \in Hosts \ used :
       /\ used' = used \cup {new}
       /\ \A ip \in Hosts :
            Holds(k, ip, store', job') <=> (Holds(k, ip, store, job) \/ ip = new)
  \/ \E old \in Hosts \ {ServerIP} :
       /\ Holds(k, old, store, job)
       /\ used' = used \ {old}
       /\ \A ip \in Hosts :
            Holds(k, ip, store', job') <=> (Holds(k, ip, store, job) /\ ip # old)

(* The pool still accounts for what is held, and each address has one      *)
(* holder.                                                                 *)
LEMMA AloneAccounts ==
  ASSUME OneHolder, TakenIsHeld, NEW t, NEW k \in Keys, Alone(t, k),
         Accounted(k)
  PROVE  OneHolder' /\ TakenIsHeld'
<1> DEFINE H(x, ip) == Holds(x, ip, store, job)
           G(x, ip) == Holds(x, ip, store', job')
<1>1. \A x \in Keys \ {k}, ip \in Hosts : G(x, ip) <=> H(x, ip)
  BY AloneHolds
<1>2. \A x, y \in Keys, ip \in Hosts : H(x, ip) /\ H(y, ip) => x = y
  BY Zenon DEF OneHolder
<1>3. \A ip \in Hosts : ip \in used <=> (ip = ServerIP \/ \E x \in Keys : H(x, ip))
  BY Zenon DEF TakenIsHeld, Alone
<1>4. \/ used' = used /\ \A ip \in Hosts : G(k, ip) <=> H(k, ip)
      \/ \E new \in Hosts \ used :
           used' = used \cup {new}
             /\ \A ip \in Hosts : G(k, ip) <=> (H(k, ip) \/ ip = new)
      \/ \E old \in Hosts \ {ServerIP} :
           H(k, old) /\ used' = used \ {old}
             /\ \A ip \in Hosts : G(k, ip) <=> (H(k, ip) /\ ip # old)
  BY Zenon DEF Accounted
<1> SUFFICES /\ \A x, y \in Keys, ip \in Hosts : G(x, ip) /\ G(y, ip) => x = y
             /\ \A ip \in Hosts :
                  ip \in used' <=> (ip = ServerIP \/ \E x \in Keys : G(x, ip))
  BY Zenon DEF OneHolder, TakenIsHeld
<1> HIDE DEF H, G
<1>5. CASE used' = used /\ \A ip \in Hosts : G(k, ip) <=> H(k, ip)
  <2>1. \A x \in Keys, ip \in Hosts : G(x, ip) <=> H(x, ip)
    BY Zenon, <1>1, <1>5
  <2> QED BY Zenon, <1>2, <1>3, <1>5, <2>1
<1>6. ASSUME NEW new \in Hosts \ used, used' = used \cup {new},
             \A ip \in Hosts : G(k, ip) <=> (H(k, ip) \/ ip = new)
      PROVE  /\ \A x, y \in Keys, ip \in Hosts : G(x, ip) /\ G(y, ip) => x = y
             /\ \A ip \in Hosts :
                  ip \in used' <=> (ip = ServerIP \/ \E x \in Keys : G(x, ip))
  <2>1. \A x \in Keys : ~H(x, new)
    BY Zenon, <1>3, <1>6
  <2>2. \A x \in Keys, ip \in Hosts : G(x, ip) <=> (H(x, ip) \/ (x = k /\ ip = new))
    BY Zenon, <1>1, <1>6
  <2>3. \A x, y \in Keys, ip \in Hosts : G(x, ip) /\ G(y, ip) => x = y
    BY <1>2, <2>1, <2>2
  <2>4. \A ip \in Hosts : ip \in used' <=> (ip = ServerIP \/ \E x \in Keys : G(x, ip))
    BY Zenon, <1>3, <1>6, <2>2
  <2> QED BY Zenon, <2>3, <2>4
<1>7. ASSUME NEW old \in Hosts \ {ServerIP}, H(k, old), used' = used \ {old},
             \A ip \in Hosts : G(k, ip) <=> (H(k, ip) /\ ip # old)
      PROVE  /\ \A x, y \in Keys, ip \in Hosts : G(x, ip) /\ G(y, ip) => x = y
             /\ \A ip \in Hosts :
                  ip \in used' <=> (ip = ServerIP \/ \E x \in Keys : G(x, ip))
  <2>1. \A x \in Keys, ip \in Hosts : G(x, ip) <=> (H(x, ip) /\ ip # old)
    BY Zenon, <1>1, <1>2, <1>7
  <2>2. \A x, y \in Keys, ip \in Hosts : G(x, ip) /\ G(y, ip) => x = y
    BY Zenon, <1>2, <2>1
  <2>3. \A ip \in Hosts : ip \in used' <=> (ip = ServerIP \/ \E x \in Keys : G(x, ip))
    BY Zenon, <1>3, <1>7, <2>1
  <2> QED BY Zenon, <2>2, <2>3
<1> QED BY Zenon, <1>4, <1>5, <1>6, <1>7

(* The peers configured by hand stay as they were. *)
LEMMA AlonePeersKnown ==
  ASSUME Obeys, PeersKnown, NEW t, NEW k \in Keys, Alone(t, k),
         k \in DOMAIN device' => \E ip \in Hosts : device'[k] = {ip}
  PROVE  PeersKnown'
<1>1. Elsewhere(k, device, device')
  BY Zenon DEF Alone
<1>2. k \notin DOMAIN ByHand
  BY Zenon, ByHandAssumption
<1> QED BY Zenon, <1>1, <1>2 DEF PeersKnown, Elsewhere

(* What is left to show of a step on one key. *)
LEMMA AloneStep ==
  ASSUME IsolationInv, NEW t, NEW k \in Keys, Alone(t, k),
         t \in DOMAIN job' => JobFits(job'[t], store', device'),
         Careful => Accounted(k),
         Obeys => Between(k, job') \/ Agrees(k, store', device'),
         Obeys /\ k \in DOMAIN device' => \E ip \in Hosts : device'[k] = {ip}
  PROVE  IsolationInv'
<1>1. up'
  BY Zenon DEF Alone
<1>2. DownForgets'
  BY Zenon, <1>1 DEF DownForgets
<1>3. Exclusive' BY Zenon, AloneExclusive DEF IsolationInv
<1>4. JobsFit' BY Zenon, AloneJobsFit DEF IsolationInv
<1>5. SnapshotsFit' BY Zenon, AloneSnapshotsFit DEF IsolationInv
<1>6. Obeys => DeviceAgrees' BY Zenon, AloneDeviceAgrees DEF IsolationInv
<1>7. Careful => OneHolder' /\ TakenIsHeld' BY Zenon, AloneAccounts DEF IsolationInv
<1>8. Obeys => PeersKnown' BY Zenon, AlonePeersKnown DEF IsolationInv
<1> QED BY Zenon, <1>2, <1>3, <1>4, <1>5, <1>6, <1>7, <1>8 DEF IsolationInv

-----------------------------------------------------------------------------
(* Steps of an operation in flight. *)

(* Only the operation of t changes, and it stays on its key or returns. *)
Moves(t) ==
  /\ DOMAIN job' \subseteq DOMAIN job
  /\ \A p \in DOMAIN job \ {t} : p \in DOMAIN job' /\ job'[p] = job[p]
  /\ t \in DOMAIN job' => job'[t].key = job[t].key

(* An operation in flight is a well-formed call on a key. *)
LEMMA JobTypes ==
  ASSUME TypeOK, NEW t \in DOMAIN job
  PROVE  /\ t \in Procs /\ job[t] \in Job
         /\ job[t].key \in Keys /\ job[t].subject \in Subjects
         /\ job[t].call \in WithAddress => job[t].ip \in Hosts
         /\ job[t].call \in WithTenant => job[t].tenant \in Tenants
<1>1. t \in Procs /\ job[t] \in Job
  BY Zenon, EntryOf DEF TypeOK
<1> QED BY Zenon, <1>1 DEF Job

(* An operation that returns. *)
LEMMA ReturnMoves ==
  ASSUME TypeOK, NEW t \in DOMAIN job, Return(t)
  PROVE  Moves(t) /\ t \notin DOMAIN job'
BY Zenon DEF Moves, Return, Unset

(* An operation that goes on to another call. *)
LEMMA ExceptMoves ==
  ASSUME TypeOK, NEW t \in DOMAIN job, NEW j, j.key = job[t].key,
         job' = [job EXCEPT ![t] = j]
  PROVE  Moves(t) /\ t \in DOMAIN job' /\ job'[t] = j
BY Zenon DEF Moves, TypeOK, IsMap

(* A step that leaves the keys of others as they were is one on one key. *)
LEMMA MovesAlone ==
  ASSUME Exclusive, NEW t \in DOMAIN job, Moves(t), up, up', todo' = todo,
         Elsewhere(job[t].key, store, store'),
         Obeys => Elsewhere(job[t].key, device, device')
  PROVE  Alone(t, job[t].key)
BY Zenon DEF Alone, Moves, Exclusive

(* The key of an operation in flight holds what its entry and t do. *)
LEMMA HeldBefore ==
  ASSUME Exclusive, NEW t \in DOMAIN job, NEW ip
  PROVE  Holds(job[t].key, ip, store, job) <=>
           \/ job[t].key \in DOMAIN store /\ store[job[t].key].ip = ip
           \/ Carries(job[t]) /\ job[t].ip = ip
BY Zenon DEF Holds, Exclusive

(* So it does after the step, where t may have returned. *)
LEMMA HeldAfter ==
  ASSUME Exclusive, NEW t \in DOMAIN job, Moves(t), NEW ip
  PROVE  Holds(job[t].key, ip, store', job') <=>
           \/ job[t].key \in DOMAIN store' /\ store'[job[t].key].ip = ip
           \/ t \in DOMAIN job' /\ Carries(job'[t]) /\ job'[t].ip = ip
<1>1. \A p \in DOMAIN job' \ {t} : job'[p].key # job[t].key
  BY Zenon DEF Moves, Exclusive
<1>2. CASE t \in DOMAIN job'
  BY Zenon, <1>1, <1>2 DEF Moves, Holds
<1>3. CASE t \notin DOMAIN job'
  BY Zenon, <1>1, <1>3 DEF Moves, Holds
<1> QED BY Zenon, <1>2, <1>3

(* Store and device agree on a key whose operation is not between AddPeer  *)
(* and Put or between RemovePeer and Delete.                               *)
LEMMA AgreesNow ==
  ASSUME Exclusive, DeviceAgrees, up, NEW t \in DOMAIN job, job[t].key \in Keys,
         job[t].call \notin {"put", "delete"}
  PROVE  Agrees(job[t].key, store, device)
<1>1. ~Between(job[t].key, job)
  BY Zenon DEF Between, Exclusive
<1> QED BY Zenon, <1>1 DEF DeviceAgrees

(* The peer of a key has one address. *)
LEMMA OneAddress ==
  ASSUME PeersKnown, NEW k \in Keys, k \in DOMAIN device
  PROVE  \E ip \in Hosts : device[k] = {ip}
BY Zenon, ByHandAssumption DEF PeersKnown

(* A call that only reads, and the address in hand stays in hand. *)
LEMMA ReadStep ==
  ASSUME TypeOK, IsolationInv, up, NEW t \in DOMAIN job, Moves(t),
         UNCHANGED <<up, store, used, device, todo>>,
         job[t].call \notin {"put", "delete"},
         t \in DOMAIN job' => JobFits(job'[t], store, device),
         Careful =>
           /\ Carries(job[t]) <=> (t \in DOMAIN job' /\ Carries(job'[t]))
           /\ Carries(job[t]) => job'[t].ip = job[t].ip
  PROVE  IsolationInv'
<1> DEFINE k == job[t].key
<1> USE DEF IsolationInv
<1>1. k \in Keys
  BY Zenon, JobTypes
<1>2. Elsewhere(k, store, store') /\ Elsewhere(k, device, device')
  BY Zenon DEF Elsewhere
<1>3. Alone(t, k)
  BY Zenon, <1>2, MovesAlone
<1>4. Obeys => Agrees(k, store', device')
  BY Zenon, <1>1, AgreesNow
<1>5. ASSUME Careful
      PROVE  \A ip \in Hosts :
               Holds(k, ip, store', job') <=> Holds(k, ip, store, job)
  <2> TAKE ip \in Hosts
  <2>1. Holds(k, ip, store, job) <=> \/ k \in DOMAIN store /\ store[k].ip = ip
                                     \/ Carries(job[t]) /\ job[t].ip = ip
    BY Zenon, HeldBefore
  <2>2. Holds(k, ip, store', job') <=>
          \/ k \in DOMAIN store' /\ store'[k].ip = ip
          \/ t \in DOMAIN job' /\ Carries(job'[t]) /\ job'[t].ip = ip
    BY Zenon, HeldAfter
  <2> QED BY Zenon, <1>5, <2>1, <2>2
<1>6. Careful => Accounted(k)
  BY Zenon, <1>5 DEF Accounted
<1>7. Obeys /\ k \in DOMAIN device' => \E ip \in Hosts : device'[k] = {ip}
  BY Zenon, <1>1, OneAddress
<1> QED BY Zenon, <1>1, <1>3, <1>4, <1>6, <1>7, AloneStep

(* The call of t with some of its fields replaced. *)
LEMMA NextCall ==
  ASSUME NEW r \in Job, NEW c, NEW v
  PROVE  /\ LET j == [r EXCEPT !.call = c]
            IN  /\ j.call = c /\ j.key = r.key /\ j.subject = r.subject
                /\ j.ip = r.ip
         /\ LET j == [r EXCEPT !.call = c, !.tenant = v]
            IN  /\ j.call = c /\ j.key = r.key /\ j.subject = r.subject
                /\ j.ip = r.ip
         /\ LET j == [r EXCEPT !.call = c, !.lease = v]
            IN  /\ j.call = c /\ j.key = r.key /\ j.subject = r.subject
                /\ j.ip = r.ip
         /\ LET j == [r EXCEPT !.call = c, !.ip = v]
            IN  j.call = c /\ j.key = r.key /\ j.subject = r.subject /\ j.ip = v
BY Zenon DEF Job

(* The operation of t makes another call, with the same key. *)
GoesOn(t, c) ==
  /\ Moves(t) /\ t \in DOMAIN job'
  /\ job'[t].call = c /\ job'[t].subject = job[t].subject

(* Each way of writing the next call is one of these. *)
LEMMA GoOn ==
  ASSUME TypeOK, NEW t \in DOMAIN job, NEW c, NEW v
  PROVE  /\ job' = [job EXCEPT ![t].call = c] =>
              GoesOn(t, c) /\ job'[t].ip = job[t].ip
         /\ job' = [job EXCEPT ![t].call = c, ![t].tenant = v] =>
              GoesOn(t, c) /\ job'[t].ip = job[t].ip
         /\ job' = [job EXCEPT ![t].call = c, ![t].lease = v] =>
              GoesOn(t, c) /\ job'[t].ip = job[t].ip
         /\ job' = [job EXCEPT ![t].call = c, ![t].ip = v] =>
              GoesOn(t, c) /\ job'[t].ip = v
<1>1. job[t] \in Job
  BY Zenon, JobTypes
<1>2. ASSUME job' = [job EXCEPT ![t].call = c]
      PROVE  GoesOn(t, c) /\ job'[t].ip = job[t].ip
  <2> DEFINE j == [job[t] EXCEPT !.call = c]
  <2>1. job' = [job EXCEPT ![t] = j]
    BY Zenon, <1>2
  <2>2. j.key = job[t].key /\ j.call = c /\ j.subject = job[t].subject /\ j.ip = job[t].ip
    BY <1>1, NextCall
  <2> HIDE DEF j
  <2>3. Moves(t) /\ t \in DOMAIN job' /\ job'[t] = j
    BY Zenon, <2>1, <2>2, ExceptMoves
  <2> QED BY Zenon, <2>2, <2>3 DEF GoesOn
<1>3. ASSUME job' = [job EXCEPT ![t].call = c, ![t].tenant = v]
      PROVE  GoesOn(t, c) /\ job'[t].ip = job[t].ip
  <2> DEFINE j == [job[t] EXCEPT !.call = c, !.tenant = v]
  <2>1. job' = [job EXCEPT ![t] = j]
    BY Zenon, <1>3
  <2>2. j.key = job[t].key /\ j.call = c /\ j.subject = job[t].subject /\ j.ip = job[t].ip
    BY <1>1, NextCall
  <2> HIDE DEF j
  <2>3. Moves(t) /\ t \in DOMAIN job' /\ job'[t] = j
    BY Zenon, <2>1, <2>2, ExceptMoves
  <2> QED BY Zenon, <2>2, <2>3 DEF GoesOn
<1>4. ASSUME job' = [job EXCEPT ![t].call = c, ![t].lease = v]
      PROVE  GoesOn(t, c) /\ job'[t].ip = job[t].ip
  <2> DEFINE j == [job[t] EXCEPT !.call = c, !.lease = v]
  <2>1. job' = [job EXCEPT ![t] = j]
    BY Zenon, <1>4
  <2>2. j.key = job[t].key /\ j.call = c /\ j.subject = job[t].subject /\ j.ip = job[t].ip
    BY <1>1, NextCall
  <2> HIDE DEF j
  <2>3. Moves(t) /\ t \in DOMAIN job' /\ job'[t] = j
    BY Zenon, <2>1, <2>2, ExceptMoves
  <2> QED BY Zenon, <2>2, <2>3 DEF GoesOn
<1>5. ASSUME job' = [job EXCEPT ![t].call = c, ![t].ip = v]
      PROVE  GoesOn(t, c) /\ job'[t].ip = v
  <2> DEFINE j == [job[t] EXCEPT !.call = c, !.ip = v]
  <2>1. job' = [job EXCEPT ![t] = j]
    BY Zenon, <1>5
  <2>2. j.key = job[t].key /\ j.call = c /\ j.subject = job[t].subject /\ j.ip = v
    BY <1>1, NextCall
  <2> HIDE DEF j
  <2>3. Moves(t) /\ t \in DOMAIN job' /\ job'[t] = j
    BY Zenon, <2>1, <2>2, ExceptMoves
  <2> QED BY Zenon, <2>2, <2>3 DEF GoesOn
<1> QED BY Zenon, <1>2, <1>3, <1>4, <1>5

-----------------------------------------------------------------------------
(* The actions of an operation in flight, one by one. *)

(* Calls that read the tenants, the store or the list, and an AddPeer that *)
(* fails.                                                                  *)
LEMMA ReadingCalls ==
  ASSUME TypeOK, IsolationInv, Isolated, NEW t,
         \/ ChooseTenant(t) \/ GetPeer(t) \/ AddPeerFails(t)
         \/ CheckMember(t) \/ CheckRegistered(t)
  PROVE  IsolationInv'
<1>0. up /\ t \in DOMAIN job
  BY Zenon DEF ChooseTenant, GetPeer, AddPeerFails, CheckMember, CheckRegistered, At
<1>u. UNCHANGED <<up, store, used, device, todo>>
  BY Zenon DEF ChooseTenant, GetPeer, AddPeerFails, CheckMember, CheckRegistered, memory
<1>f. JobFits(job[t], store, device)
  BY Zenon, <1>0 DEF IsolationInv, JobsFit
<1>r. ASSUME Return(t) PROVE Moves(t) /\ t \notin DOMAIN job'
  BY Zenon, <1>0, <1>r, ReturnMoves
<1>1. CASE ChooseTenant(t)
  <2>1. job[t].call = "tenant"
    BY Zenon, <1>1 DEF ChooseTenant, At
  <2>2. \/ GoesOn(t, "get")
        \/ Moves(t) /\ t \notin DOMAIN job'
    BY Zenon, <1>0, <1>1, <1>r, GoOn DEF ChooseTenant
  <2> QED BY Zenon, <1>0, <1>u, <2>1, <2>2, ReadStep DEF GoesOn, Carries, JobFits
<1>2. CASE GetPeer(t)
  <2>1. job[t].call = "get"
    BY Zenon, <1>2 DEF GetPeer, At
  <2>2. \/ /\ GoesOn(t, "readd") /\ OwnedBy(job[t].key, job[t].subject)
           /\ job'[t].ip = store[job[t].key].ip
        \/ GoesOn(t, "allocate") /\ job[t].key \notin DOMAIN store
        \/ Moves(t) /\ t \notin DOMAIN job'
    <3>1. ASSUME job' = [job EXCEPT ![t].call = "readd",
                                    ![t].ip = store[job[t].key].ip]
          PROVE  GoesOn(t, "readd") /\ job'[t].ip = store[job[t].key].ip
      BY Zenon, <1>0, <3>1, GoOn
    <3>2. ASSUME job' = [job EXCEPT ![t].call = "allocate"]
          PROVE  GoesOn(t, "allocate")
      BY Zenon, <1>0, <3>2, GoOn
    <3> QED BY Zenon, <1>2, <1>r, <3>1, <3>2 DEF GetPeer
  <2>3. t \in DOMAIN job' => JobFits(job'[t], store, device)
    BY Zenon, <2>2 DEF JobFits, OwnedBy, GoesOn, Moves
  <2>4. Moves(t) /\ (t \in DOMAIN job' => ~Carries(job'[t]))
    BY Zenon, <2>2 DEF GoesOn, Carries
  <2> QED BY Zenon, <1>0, <1>u, <2>1, <2>3, <2>4, ReadStep DEF Carries
<1>3. CASE AddPeerFails(t)
  <2>1. job[t].call \in {"add", "readd"} /\ (Careful => job[t].call = "add")
    BY Zenon, <1>3 DEF AddPeerFails, At, Careful
  <2>2. GoesOn(t, "undo") /\ job'[t].ip = job[t].ip
    BY Zenon, <1>0, <1>3, GoOn DEF AddPeerFails
  <2>3. JobFits(job'[t], store, device)
    BY Zenon, <1>f, <2>1, <2>2 DEF JobFits, GoesOn, Moves
  <2> QED BY Zenon, <1>0, <1>u, <2>1, <2>2, <2>3, ReadStep DEF Carries, GoesOn
<1>4. CASE CheckMember(t)
  <2>1. job[t].call = "member"
    BY Zenon, <1>4 DEF CheckMember, At
  <2>2. GoesOn(t, "check") \/ (Moves(t) /\ t \notin DOMAIN job')
    BY Zenon, <1>0, <1>4, <1>r, GoOn DEF CheckMember
  <2> QED BY Zenon, <1>0, <1>u, <2>1, <2>2, ReadStep DEF GoesOn, Carries, JobFits
<1>5. CASE CheckRegistered(t)
  <2>1. job[t].call = "check"
    BY Zenon, <1>5 DEF CheckRegistered, At
  <2>2. GoesOn(t, "renew") \/ (Moves(t) /\ t \notin DOMAIN job')
    BY Zenon, <1>0, <1>5, <1>r, GoOn DEF CheckRegistered
  <2> QED BY Zenon, <1>0, <1>u, <2>1, <2>2, ReadStep DEF GoesOn, Carries, JobFits
<1> QED BY Zenon, <1>1, <1>2, <1>3, <1>4, <1>5

(* An address taken for a key that has none, or none left to take. *)
LEMMA AllocateStep ==
  ASSUME TypeOK, IsolationInv, NEW t, Allocate(t) PROVE IsolationInv'
<1> DEFINE k == job[t].key
<1>0. up /\ t \in DOMAIN job /\ job[t].call = "allocate"
  BY Zenon DEF Allocate, At
<1>u. UNCHANGED <<up, store, device, todo>>
  BY Zenon DEF Allocate
<1>k. k \in Keys /\ k \notin DOMAIN store
  BY Zenon, <1>0, JobTypes DEF IsolationInv, JobsFit, JobFits
<1>1. CASE Return(t) /\ UNCHANGED used
  <2>1. Moves(t) /\ t \notin DOMAIN job'
    BY Zenon, <1>0, <1>1, ReturnMoves
  <2> QED BY Zenon, <1>0, <1>u, <1>1, <2>1, ReadStep DEF Carries
<1>2. ASSUME NEW ip \in Hosts \ used, used' = used \cup {ip},
             job' = [job EXCEPT ![t].call = "add", ![t].ip = ip]
      PROVE  IsolationInv'
  <2>1. GoesOn(t, "add") /\ job'[t].ip = ip
    BY Zenon, <1>0, <1>2, GoOn
  <2>2. Elsewhere(k, store, store') /\ Elsewhere(k, device, device')
    BY Zenon, <1>u DEF Elsewhere
  <2>3. Alone(t, k)
    BY Zenon, <1>0, <1>u, <2>1, <2>2, MovesAlone DEF IsolationInv, GoesOn
  <2>4. ASSUME NEW i \in Hosts
        PROVE  Holds(k, i, store', job') <=> (Holds(k, i, store, job) \/ i = ip)
    <3>1. ~Holds(k, i, store, job)
      BY Zenon, <1>0, <1>k, HeldBefore DEF IsolationInv, Carries
    <3>2. Holds(k, i, store', job') <=> i = ip
      BY Zenon, <1>0, <1>k, <1>u, <2>1, HeldAfter DEF IsolationInv, Carries, GoesOn
    <3> QED BY Zenon, <3>1, <3>2
  <2>5. Accounted(k)
    BY Zenon, <1>2, <2>4 DEF Accounted
  <2>6. Obeys => Agrees(k, store', device')
    BY Zenon, <1>0, <1>k, <1>u, AgreesNow DEF IsolationInv
  <2>7. JobFits(job'[t], store', device')
    BY Zenon, <1>k, <1>u, <2>1 DEF JobFits, GoesOn, Moves
  <2>8. Obeys /\ k \in DOMAIN device' => \E i \in Hosts : device'[k] = {i}
    BY Zenon, <1>k, <1>u, OneAddress DEF IsolationInv
  <2> QED BY Zenon, <1>k, <2>3, <2>5, <2>6, <2>7, <2>8, AloneStep
<1> QED BY Zenon, <1>1, <1>2 DEF Allocate, FreeIn, Marked

(* No peer but its own has the address a key holds. *)
LEMMA AddressElsewhere ==
  ASSUME TypeOK, IsolationInv, Obeys, Careful, up, NEW k \in Keys, NEW ip \in Hosts,
         Holds(k, ip, store, job), NEW x \in DOMAIN device \ {k}
  PROVE  ip \notin device[x]
<1>1. CASE x \in DOMAIN ByHand
  BY Zenon, <1>1, ByHandAssumption DEF IsolationInv, PeersKnown
<1>2. CASE x \notin DOMAIN ByHand
  <2>1. x \in Keys
    BY <1>2, EntryOf DEF TypeOK, DeviceKeys
  <2>2. \A i \in Hosts : Holds(x, i, store, job) => i # ip
    BY Zenon, <2>1 DEF IsolationInv, OneHolder
  <2>3. CASE Between(x, job)
    <3>1. PICK p \in DOMAIN job : job[p].key = x /\ job[p].call \in {"put", "delete"}
      BY Zenon, <2>3 DEF Between
    <3>2. JobFits(job[p], store, device)
      BY Zenon DEF IsolationInv, JobsFit
    <3>3. job[p].call = "put" /\ device[x] = {job[p].ip}
      BY Zenon, <3>1, <3>2 DEF JobFits
    <3>4. job[p].ip \in Hosts
      BY Zenon, <3>3, JobTypes DEF WithAddress
    <3>5. Holds(x, job[p].ip, store, job)
      BY Zenon, <3>1, <3>3 DEF Holds, Carries
    <3> QED BY Zenon, <2>2, <3>3, <3>4, <3>5
  <2>4. CASE Agrees(x, store, device)
    <3>1. x \in DOMAIN store /\ device[x] = {store[x].ip}
      BY Zenon, <2>4 DEF Agrees
    <3>2. store[x].ip \in Hosts
      <4>1. store[x] \in Peer
        BY Zenon, <3>1, EntryOf DEF TypeOK
      <4> QED BY Zenon, <4>1 DEF Peer
    <3>3. Holds(x, store[x].ip, store, job)
      BY Zenon, <3>1 DEF Holds
    <3> QED BY Zenon, <2>2, <3>1, <3>2, <3>3
  <2> QED BY Zenon, <2>1, <2>3, <2>4 DEF IsolationInv, DeviceAgrees
<1> QED BY Zenon, <1>1, <1>2

(* AddPeer takes the address from no other peer. *)
LEMMA AddPeerStep ==
  ASSUME TypeOK, IsolationInv, NEW t, AddPeer(t) PROVE IsolationInv'
<1> DEFINE k == job[t].key
           ip == job[t].ip
<1>0. up /\ t \in DOMAIN job /\ job[t].call \in {"add", "readd"}
  BY Zenon DEF AddPeer, At
<1>u. UNCHANGED <<up, store, used, todo>>
  BY Zenon DEF AddPeer, memory
<1>k. k \in Keys /\ ip \in Hosts
  BY Zenon, <1>0, JobTypes DEF WithAddress
<1>f. JobFits(job[t], store, device)
  BY Zenon, <1>0 DEF IsolationInv, JobsFit
<1>1. GoesOn(t, "put") /\ job'[t].ip = ip
  BY Zenon, <1>0, GoOn DEF AddPeer
<1>2. \A i \in Hosts : Holds(k, i, store, job) <=> i = ip
  BY Zenon, <1>0, <1>f, HeldBefore DEF IsolationInv, Carries, JobFits
<1>3. \A i \in Hosts : Holds(k, i, store', job') <=> i = ip
  BY Zenon, <1>0, <1>f, <1>u, <1>1, HeldAfter DEF IsolationInv, Carries, JobFits, GoesOn
<1>4. /\ DOMAIN device' = DOMAIN device \cup {k}
      /\ device'[k] = {ip}
      /\ \A x \in DOMAIN device \ {k} : device'[x] = device[x] \ {ip}
  <2>1. device' = WithPeer(device, k, ip)
    BY Zenon DEF AddPeer
  <2>2. IsMap(device, DeviceKeys, SUBSET AllowedIPs)
    BY Zenon DEF TypeOK
  <2> QED BY Zenon, <1>k, <2>1, <2>2 DEF WithPeer
<1>5. ASSUME Obeys PROVE \A x \in DOMAIN device \ {k} : device'[x] = device[x]
  <2>1. \A x \in DOMAIN device \ {k} : ip \notin device[x]
    <3>1. Careful
      BY Zenon, <1>5 DEF Obeys
    <3> QED BY Zenon, <1>0, <1>k, <1>2, <1>5, <3>1, AddressElsewhere
  <2> QED BY <1>4, <2>1
<1>6. Elsewhere(k, store, store') /\ (Obeys => Elsewhere(k, device, device'))
  BY Zenon, <1>u, <1>4, <1>5 DEF Elsewhere
<1>7. Alone(t, k)
  BY Zenon, <1>0, <1>u, <1>1, <1>6, MovesAlone DEF IsolationInv, GoesOn
<1>8. Accounted(k)
  BY Zenon, <1>u, <1>2, <1>3 DEF Accounted
<1>9. JobFits(job'[t], store', device')
  BY Zenon, <1>0, <1>f, <1>u, <1>1, <1>4 DEF JobFits, GoesOn, Moves
<1>10. Between(k, job')
  BY Zenon, <1>1 DEF Between, GoesOn, Moves
<1> QED BY Zenon, <1>k, <1>4, <1>7, <1>8, <1>9, <1>10, AloneStep

(* An address given back: a new device whose AddPeer failed, or one that   *)
(* was dropped.                                                            *)
LEMMA GiveBackStep ==
  ASSUME TypeOK, IsolationInv, ServerInv, NEW t,
         UndoAllocate(t) \/ ReleaseIP(t)
  PROVE  IsolationInv'
<1> DEFINE k == job[t].key
           ip == job[t].ip
<1>0. up /\ t \in DOMAIN job /\ job[t].call \in {"undo", "release"}
  BY Zenon DEF UndoAllocate, ReleaseIP, At
<1>u. UNCHANGED <<up, store, device, todo>> /\ used' = used \ {ip} /\ Return(t)
  BY Zenon DEF UndoAllocate, ReleaseIP, Released
<1>k. k \in Keys /\ ip \in Hosts \ {ServerIP}
  BY Zenon, <1>0, JobTypes DEF WithAddress, ServerInv
<1>f. Careful => k \notin DOMAIN store
  BY Zenon, <1>0 DEF IsolationInv, JobsFit, JobFits
<1>1. Moves(t) /\ t \notin DOMAIN job'
  BY Zenon, <1>0, <1>u, ReturnMoves
<1>2. Careful => \A i \in Hosts : Holds(k, i, store, job) <=> i = ip
  BY Zenon, <1>0, <1>f, HeldBefore DEF IsolationInv, Carries
<1>3. Careful => \A i \in Hosts : ~Holds(k, i, store', job')
  BY Zenon, <1>0, <1>f, <1>u, <1>1, HeldAfter DEF IsolationInv
<1>4. Elsewhere(k, store, store') /\ Elsewhere(k, device, device')
  BY Zenon, <1>u DEF Elsewhere
<1>5. Alone(t, k)
  BY Zenon, <1>0, <1>u, <1>1, <1>4, MovesAlone DEF IsolationInv
<1>6. Careful => Accounted(k)
  BY Zenon, <1>k, <1>u, <1>2, <1>3 DEF Accounted
<1>7. Obeys => Agrees(k, store', device')
  BY Zenon, <1>0, <1>k, <1>u, AgreesNow DEF IsolationInv
<1>8. Obeys /\ k \in DOMAIN device' => \E i \in Hosts : device'[k] = {i}
  BY Zenon, <1>k, <1>u, OneAddress DEF IsolationInv
<1> HIDE DEF k, ip
<1> QED BY ZenonT(30), <1>0, <1>k, <1>1, <1>5, <1>6, <1>7, <1>8, AloneStep

(* Put enters the address the peer has been given. *)
LEMMA PutStep ==
  ASSUME TypeOK, IsolationInv, NEW t, Put(t) PROVE IsolationInv'
<1> DEFINE k == job[t].key
           ip == job[t].ip
<1>0. up /\ t \in DOMAIN job /\ job[t].call = "put"
  BY Zenon DEF Put, At
<1>u. UNCHANGED <<up, used, device, todo>> /\ Return(t)
  BY Zenon DEF Put
<1>k. k \in Keys /\ ip \in Hosts
  BY Zenon, <1>0, JobTypes DEF WithAddress
<1>f. JobFits(job[t], store, device)
  BY Zenon, <1>0 DEF IsolationInv, JobsFit
<1>1. Moves(t) /\ t \notin DOMAIN job'
  BY Zenon, <1>0, <1>u, ReturnMoves
<1>2. /\ DOMAIN store' = DOMAIN store \cup {k}
      /\ store'[k].ip = ip
      /\ \A x \in DOMAIN store \ {k} : store'[x] = store[x]
  BY Zenon DEF Put, Set
<1>3. \A i \in Hosts : Holds(k, i, store, job) <=> i = ip
  BY Zenon, <1>0, <1>f, HeldBefore DEF IsolationInv, Carries, JobFits
<1>4. \A i \in Hosts : Holds(k, i, store', job') <=> i = ip
  BY Zenon, <1>0, <1>1, <1>2, HeldAfter DEF IsolationInv
<1>5. Elsewhere(k, store, store') /\ Elsewhere(k, device, device')
  BY Zenon, <1>u, <1>2 DEF Elsewhere
<1>6. Alone(t, k)
  BY Zenon, <1>0, <1>u, <1>1, <1>5, MovesAlone DEF IsolationInv
<1>7. Accounted(k)
  BY Zenon, <1>u, <1>3, <1>4 DEF Accounted
<1>8. Obeys => device[k] = {ip} /\ k \in DOMAIN device
  BY Zenon, <1>0, <1>f DEF JobFits
<1>9. Obeys => Agrees(k, store', device')
  BY Zenon, <1>u, <1>2, <1>8 DEF Agrees
<1> QED BY Zenon, <1>k, <1>u, <1>1, <1>6, <1>7, <1>8, <1>9, AloneStep

(* Renew changes the end of a lease and nothing else. *)
LEMMA RenewStep ==
  ASSUME TypeOK, IsolationInv, NEW t, Renew(t) PROVE IsolationInv'
<1> DEFINE k == job[t].key
<1>0. up /\ t \in DOMAIN job /\ job[t].call = "renew"
  BY Zenon DEF Renew, At
<1>u. UNCHANGED <<up, used, device, todo>> /\ Return(t)
  BY Zenon DEF Renew
<1>k. k \in Keys
  BY Zenon, <1>0, JobTypes
<1>1. Moves(t) /\ t \notin DOMAIN job'
  BY Zenon, <1>0, <1>u, ReturnMoves
<1>2. /\ DOMAIN store' = DOMAIN store
      /\ k \in DOMAIN store => store'[k].ip = store[k].ip
      /\ \A x \in DOMAIN store \ {k} : store'[x] = store[x]
  <2>1. CASE k \in DOMAIN store
    <3>1. store[k] \in Peer
      BY Zenon, <2>1, EntryOf DEF TypeOK
    <3>2. store' = [store EXCEPT ![k].lease = job[t].lease]
      BY Zenon, <2>1 DEF Renew
    <3>3. store'[k] = [store[k] EXCEPT !.lease = job[t].lease]
      BY Zenon, <2>1, <3>2
    <3>4. store'[k].ip = store[k].ip
      BY Zenon, <3>1, <3>3 DEF Peer
    <3> QED BY Zenon, <3>2, <3>4
  <2>2. CASE k \notin DOMAIN store
    BY Zenon, <2>2 DEF Renew
  <2> QED BY Zenon, <2>1, <2>2
<1>3. \A i \in Hosts : Holds(k, i, store, job) <=> (k \in DOMAIN store /\ store[k].ip = i)
  BY Zenon, <1>0, HeldBefore DEF IsolationInv, Carries
<1>4. \A i \in Hosts : Holds(k, i, store', job') <=> (k \in DOMAIN store /\ store[k].ip = i)
  BY Zenon, <1>0, <1>1, <1>2, HeldAfter DEF IsolationInv
<1>5. Elsewhere(k, store, store') /\ Elsewhere(k, device, device')
  BY Zenon, <1>u, <1>2 DEF Elsewhere
<1>6. Alone(t, k)
  BY Zenon, <1>0, <1>u, <1>1, <1>5, MovesAlone DEF IsolationInv
<1>7. Accounted(k)
  BY Zenon, <1>u, <1>3, <1>4 DEF Accounted
<1>8. Obeys => Agrees(k, store, device)
  BY Zenon, <1>0, <1>k, AgreesNow DEF IsolationInv
<1>9. Obeys => Agrees(k, store', device')
  BY Zenon, <1>u, <1>2, <1>8 DEF Agrees
<1>10. Obeys /\ k \in DOMAIN device' => \E i \in Hosts : device'[k] = {i}
  BY Zenon, <1>k, <1>u, OneAddress DEF IsolationInv
<1> QED BY Zenon, <1>k, <1>1, <1>6, <1>7, <1>9, <1>10, AloneStep

(* RemovePeer, if it succeeds, takes the peer off the device. *)
LEMMA RemovePeerStep ==
  ASSUME TypeOK, IsolationInv, NEW t, RemovePeer(t) PROVE IsolationInv'
<1> DEFINE k == job[t].key
<1>0. up /\ t \in DOMAIN job /\ job[t].call = "remove"
  BY Zenon DEF RemovePeer, At
<1>u. /\ UNCHANGED <<up, store, used, todo>>
      /\ Obeys => device' = Unset(device, k)
  BY Zenon DEF RemovePeer, memory, Obeys, WithoutPeer
<1>k. k \in Keys
  BY Zenon, <1>0, JobTypes
<1>f. JobFits(job[t], store, device)
  BY Zenon, <1>0 DEF IsolationInv, JobsFit
<1>1. GoesOn(t, "delete") /\ job'[t].ip = job[t].ip
  BY Zenon, <1>0, GoOn DEF RemovePeer
<1>2. \A i \in Hosts : Holds(k, i, store, job) <=> (k \in DOMAIN store /\ store[k].ip = i)
  BY Zenon, <1>0, HeldBefore DEF IsolationInv, Carries
<1>3. \A i \in Hosts : Holds(k, i, store', job') <=> (k \in DOMAIN store /\ store[k].ip = i)
  BY Zenon, <1>0, <1>u, <1>1, HeldAfter DEF IsolationInv, Carries, GoesOn
<1>4. Obeys => k \notin DOMAIN device'
  BY Zenon, <1>u DEF Unset
<1>5. Elsewhere(k, store, store') /\ (Obeys => Elsewhere(k, device, device'))
  BY Zenon, <1>u DEF Elsewhere, Unset
<1>6. Alone(t, k)
  BY Zenon, <1>0, <1>u, <1>1, <1>5, MovesAlone DEF IsolationInv, GoesOn
<1>7. Accounted(k)
  BY Zenon, <1>u, <1>2, <1>3 DEF Accounted
<1>8. JobFits(job'[t], store', device')
  BY Zenon, <1>0, <1>f, <1>u, <1>1, <1>4 DEF JobFits, GoesOn, Moves
<1>9. Between(k, job')
  BY Zenon, <1>1 DEF Between, GoesOn, Moves
<1> QED BY Zenon, <1>k, <1>4, <1>6, <1>7, <1>8, <1>9, AloneStep

(* Delete takes the entry out, and the address stays in hand. *)
LEMMA DeletePeerStep ==
  ASSUME TypeOK, IsolationInv, NEW t, DeletePeer(t) PROVE IsolationInv'
<1> DEFINE k == job[t].key
           ip == job[t].ip
<1>0. up /\ t \in DOMAIN job /\ job[t].call = "delete"
  BY Zenon DEF DeletePeer, At
<1>u. UNCHANGED <<up, used, device, todo>> /\ store' = Unset(store, k)
  BY Zenon DEF DeletePeer
<1>k. k \in Keys
  BY Zenon, <1>0, JobTypes
<1>f. /\ k \in DOMAIN store /\ store[k].ip = ip
      /\ Obeys => k \notin DOMAIN device
  BY Zenon, <1>0 DEF IsolationInv, JobsFit, JobFits
<1>1. GoesOn(t, "release") /\ job'[t].ip = ip
  BY Zenon, <1>0, GoOn DEF DeletePeer
<1>2. k \notin DOMAIN store'
  BY Zenon, <1>u DEF Unset
<1>3. \A i \in Hosts : Holds(k, i, store, job) <=> i = ip
  BY Zenon, <1>0, <1>f, HeldBefore DEF IsolationInv, Carries
<1>4. \A i \in Hosts : Holds(k, i, store', job') <=> i = ip
  BY Zenon, <1>0, <1>1, <1>2, HeldAfter DEF IsolationInv, Carries, GoesOn
<1>5. Elsewhere(k, store, store') /\ Elsewhere(k, device, device')
  BY Zenon, <1>u DEF Elsewhere, Unset
<1>6. Alone(t, k)
  BY Zenon, <1>0, <1>u, <1>1, <1>5, MovesAlone DEF IsolationInv, GoesOn
<1>7. Accounted(k)
  BY Zenon, <1>u, <1>3, <1>4 DEF Accounted
<1>8. JobFits(job'[t], store', device')
  BY Zenon, <1>1, <1>2 DEF JobFits, GoesOn, Moves
<1>9. Obeys => Agrees(k, store', device')
  BY Zenon, <1>f, <1>u, <1>2 DEF Agrees
<1> QED BY Zenon, <1>k, <1>f, <1>u, <1>6, <1>7, <1>8, <1>9, AloneStep

-----------------------------------------------------------------------------
(* Operations that start, on a key that is in nobody's hands. *)

(* A goroutine p takes up key k with the call j, or passes over it. *)
LEMMA StartStep ==
  ASSUME IsolationInv, up, NEW p, NEW k \in Keys, NEW j,
         p \notin DOMAIN job, \A q \in DOMAIN job : job[q].key # k,
         j.key = k, ~Carries(j), JobFits(j, store, device),
         job' = Set(job, p, j) \/ job' = job,
         UNCHANGED <<up, store, used, device>>,
         \A q \in Loops : todo'[q] \subseteq todo[q],
         \A q \in Loops : \A x \in todo'[q] : x.key # k
  PROVE  IsolationInv'
<1>1. /\ \A q \in DOMAIN job' \ {p} : q \in DOMAIN job /\ job'[q] = job[q]
      /\ \A q \in DOMAIN job : q \in DOMAIN job' /\ job'[q] = job[q]
      /\ p \in DOMAIN job' => job'[p] = j
  BY Zenon DEF Set
<1>2. Elsewhere(k, store, store') /\ Elsewhere(k, device, device')
  BY Zenon DEF Elsewhere
<1>3. Alone(p, k)
  BY Zenon, <1>1, <1>2 DEF Alone
<1>4. \A ip \in Hosts : Holds(k, ip, store', job') <=> Holds(k, ip, store, job)
  BY Zenon, <1>1 DEF Holds
<1>5. Accounted(k)
  BY Zenon, <1>4 DEF Accounted
<1>6. ~Between(k, job)
  BY Zenon DEF Between
<1>7. Obeys => Agrees(k, store', device')
  BY Zenon, <1>6 DEF IsolationInv, DeviceAgrees
<1>8. Obeys /\ k \in DOMAIN device' => \E ip \in Hosts : device'[k] = {ip}
  BY Zenon, OneAddress DEF IsolationInv
<1>9. p \in DOMAIN job' => JobFits(job'[p], store', device')
  BY Zenon, <1>1
<1> QED BY Zenon, <1>3, <1>5, <1>7, <1>8, <1>9, AloneStep

(* What isolation says of an operation that may start on the keys K. *)
LEMMA Unclaimed ==
  ASSUME Isolated, NEW p, p \notin DOMAIN job, NEW K, MayTouch(p, K)
  PROVE  /\ \A q \in DOMAIN job : job[q].key \notin K
         /\ \A q \in Loops \ {p} : \A x \in todo[q] : x.key \notin K
<1>1. K \cap ClaimedByOthers(p) = {}
  BY Zenon DEF MayTouch, Isolated
<1>2. \A q \in DOMAIN job : job[q].key \in ClaimedByOthers(p)
  BY Zenon DEF ClaimedByOthers
<1>3. \A q \in Loops \ {p} : \A x \in todo[q] : x.key \in ClaimedByOthers(p)
  BY Zenon DEF ClaimedByOthers
<1> QED BY Zenon, <1>1, <1>2, <1>3

(* A request arrives. *)
LEMMA ArriveStep ==
  ASSUME TypeOK, IsolationInv, Isolated, NEW t \in Threads, Arrive(t)
  PROVE  IsolationInv'
<1>1. PICK k \in Keys, s \in Subjects :
        \/ \E asked \in Asked : Enroll(t, k, s, asked)
        \/ Heartbeat(t, k, s)
        \/ Deregister(t, k, s)
  BY Zenon DEF Arrive
<1>2. /\ up /\ t \notin DOMAIN job /\ MayTouch(t, {k})
      /\ UNCHANGED <<up, store, used, device, todo>>
  BY Zenon, <1>1 DEF Enroll, Heartbeat, Deregister, Idle, memory
<1>3. t \notin Loops
  BY Zenon, ConstantsAssumption
<1>4. /\ \A q \in DOMAIN job : job[q].key # k
      /\ \A q \in Loops : \A x \in todo[q] : x.key # k
  BY Zenon, <1>2, <1>3, Unclaimed
<1>5. ASSUME NEW j, job' = Set(job, t, j), j.key = k, ~Carries(j),
             JobFits(j, store, device)
      PROVE  IsolationInv'
  BY Zenon, <1>2, <1>4, <1>5, StartStep
<1>6. ASSUME NEW asked \in Asked, Enroll(t, k, s, asked) PROVE IsolationInv'
  <2> DEFINE j == [call |-> "tenant", key |-> k, subject |-> s, ip |-> NoIP,
                   lease |-> LeaseEnd(k), tenant |-> asked]
  <2>1. job' = Set(job, t, j)
    BY Zenon, <1>6 DEF Enroll
  <2>2. j.key = k /\ ~Carries(j) /\ JobFits(j, store, device)
    BY Zenon DEF Carries, JobFits
  <2> HIDE DEF j
  <2> QED BY Zenon, <1>5, <2>1, <2>2
<1>7. ASSUME Heartbeat(t, k, s) PROVE IsolationInv'
  <2> DEFINE j == [call |-> "member", key |-> k, subject |-> s, ip |-> NoIP,
                   lease |-> 0, tenant |-> store[k].tenant]
  <2>1. job' = Set(job, t, j)
    BY Zenon, <1>7 DEF Heartbeat
  <2>2. j.key = k /\ ~Carries(j) /\ JobFits(j, store, device)
    BY Zenon DEF Carries, JobFits
  <2> HIDE DEF j
  <2> QED BY Zenon, <1>5, <2>1, <2>2
<1>8. ASSUME Deregister(t, k, s) PROVE IsolationInv'
  <2> DEFINE j == Dropping(k, s, store[k].ip)
  <2>1. job' = Set(job, t, j) /\ k \in DOMAIN store
    BY Zenon, <1>8 DEF Deregister, OwnedBy
  <2>2. j.key = k /\ ~Carries(j) /\ JobFits(j, store, device)
    BY Zenon, <2>1 DEF Carries, JobFits, Dropping
  <2> HIDE DEF j
  <2> QED BY Zenon, <1>5, <2>1, <2>2
<1> QED BY Zenon, <1>1, <1>6, <1>7, <1>8

(* A loop takes a snapshot of entries nobody is working on. *)
LEMMA SnapshotStep ==
  ASSUME TypeOK, IsolationInv, Isolated, NEW p \in Loops, NEW K,
         K \subseteq DOMAIN store, Resting(p), MayTouch(p, K),
         todo' = [todo EXCEPT ![p] = Snapshot(K)],
         UNCHANGED <<up, store, used, device, job>>
  PROVE  IsolationInv'
<1>1. up /\ p \notin DOMAIN job
  BY Zenon DEF Resting
<1>2. /\ \A q \in DOMAIN job : job[q].key \notin K
      /\ \A q \in Loops \ {p} : \A x \in todo[q] : x.key \notin K
  BY Zenon, <1>1, Unclaimed
<1>3. /\ todo'[p] = Snapshot(K)
      /\ \A q \in Loops \ {p} : todo'[q] = todo[q]
  BY Zenon DEF TypeOK
<1>4. \A x \in Snapshot(K) : x.key \in K /\ x.ip = store[x.key].ip
  BY DEF Snapshot
<1>5. \A x, y \in Snapshot(K) : x.key = y.key => x = y
  BY DEF Snapshot
<1>6. Exclusive'
  <2>1. \A r, q \in DOMAIN job' : job'[r].key = job'[q].key => r = q
    BY Zenon DEF IsolationInv, Exclusive
  <2>2. \A r \in DOMAIN job', q \in Loops : \A x \in todo'[q] : x.key # job'[r].key
    BY <1>2, <1>3, <1>4 DEF IsolationInv, Exclusive
  <2>3. \A q, r \in Loops : \A x \in todo'[q], y \in todo'[r] :
          x.key = y.key => q = r /\ x = y
    <3> TAKE q \in Loops, r \in Loops
    <3> TAKE x \in todo'[q], y \in todo'[r]
    <3> HAVE x.key = y.key
    <3>1. CASE q = p /\ r = p
      BY ZenonT(30), <1>3, <1>5, <3>1
    <3>2. CASE q # p /\ r # p
      BY SMTT(30), <1>3, <3>2 DEF IsolationInv, Exclusive
    <3>3. CASE (q = p /\ r # p) \/ (q # p /\ r = p)
      BY SMTT(30), <1>2, <1>3, <1>4, <3>3
    <3> QED BY Zenon, <3>1, <3>2, <3>3
  <2> QED BY Zenon, <2>1, <2>2, <2>3 DEF Exclusive
<1>7. SnapshotsFit'
  <2> SUFFICES ASSUME NEW q \in Loops, NEW x \in todo'[q]
               PROVE  x.key \in DOMAIN store /\ store[x.key].ip = x.ip
    BY Zenon DEF SnapshotsFit
  <2>1. CASE q = p
    BY Zenon, <1>3, <1>4, <2>1
  <2>2. CASE q # p
    BY Zenon, <1>3, <2>2 DEF IsolationInv, SnapshotsFit
  <2> QED BY Zenon, <2>1, <2>2
<1>8. /\ JobsFit'
      /\ Careful => OneHolder' /\ TakenIsHeld'
      /\ Obeys => DeviceAgrees' /\ PeersKnown'
  BY Zenon
     DEF IsolationInv, JobsFit, DeviceAgrees, OneHolder, TakenIsHeld, PeersKnown
<1>9. DownForgets'
  BY Zenon, <1>1 DEF DownForgets
<1> QED BY Zenon, <1>6, <1>7, <1>8, <1>9 DEF IsolationInv

(* A loop takes up the next peer of its snapshot, or passes over it. *)
LEMMA NextPeerStep ==
  ASSUME TypeOK, IsolationInv, NEW p \in Loops, NextPeer(p)
  PROVE  IsolationInv'
<1>1. PICK x \in todo[p] :
        /\ todo' = [todo EXCEPT ![p] = @ \ {x}]
        /\ job' = Set(job, p, Dropping(x.key, x.subject, x.ip)) \/ job' = job
  BY Zenon DEF NextPeer
<1>2. up /\ p \notin DOMAIN job /\ UNCHANGED <<up, store, used, device>>
  BY Zenon DEF NextPeer, memory
<1> DEFINE j == Dropping(x.key, x.subject, x.ip)
<1>3. x.key \in Keys
  BY DEF TypeOK, Target
<1>4. x.key \in DOMAIN store /\ store[x.key].ip = x.ip
  BY Zenon DEF IsolationInv, SnapshotsFit
<1>5. j.key = x.key /\ ~Carries(j) /\ JobFits(j, store, device)
  BY Zenon, <1>4 DEF Carries, JobFits, Dropping
<1>6. todo'[p] = todo[p] \ {x} /\ \A q \in Loops \ {p} : todo'[q] = todo[q]
  BY Zenon, <1>1 DEF TypeOK
<1>7. \A q \in Loops : todo'[q] \subseteq todo[q]
  BY Zenon, <1>6
<1>8. \A q \in Loops : \A y \in todo'[q] : y.key # x.key
  BY SMTT(30), <1>6 DEF IsolationInv, Exclusive
<1>9. \A q \in DOMAIN job : job[q].key # x.key
  BY Zenon DEF IsolationInv, Exclusive
<1>10. job' = Set(job, p, j) \/ job' = job
  BY Zenon, <1>1
<1> HIDE DEF j
<1> QED BY Zenon, <1>2, <1>3, <1>5, <1>7, <1>8, <1>9, <1>10, StartStep

-----------------------------------------------------------------------------
(* Starts, crashes, and steps that touch none of this. *)

(* The peers the sweep takes for the server's are those not configured by  *)
(* hand.                                                                   *)
LEMMA SweepTells ==
  ASSUME PeersKnown PROVE OursOnDevice = DOMAIN device \ DOMAIN ByHand
<1>1. \A k \in DOMAIN device \ DOMAIN ByHand : Ours(k)
  BY Zenon DEF PeersKnown, Ours
<1>2. \A k \in DOMAIN ByHand : ~Ours(k)
  BY Zenon, ByHandAssumption DEF PeersKnown, Ours
<1> QED BY Zenon, <1>1, <1>2 DEF OursOnDevice

(* A completed sweep leaves the peers configured by hand. *)
LEMMA SweepLeavesByHand ==
  ASSUME PeersKnown PROVE Without(device, OursOnDevice) = ByHand
<1>1. DOMAIN device \ OursOnDevice = DOMAIN ByHand
  BY Zenon, SweepTells DEF PeersKnown
<1>2. \A k \in DOMAIN ByHand : device[k] = ByHand[k]
  BY Zenon DEF PeersKnown
<1>3. Without(device, OursOnDevice) = [k \in DOMAIN ByHand |-> device[k]]
  BY Zenon, <1>1 DEF Without
<1>4. [k \in DOMAIN ByHand |-> device[k]] = [k \in DOMAIN ByHand |-> ByHand[k]]
  BY Zenon, <1>2
<1> QED BY Zenon, <1>3, <1>4, ByHandAssumption

(* When the server serves, store and pool are empty and the device is      *)
(* swept.                                                                  *)
LEMMA StartUpStep ==
  ASSUME IsolationInv, StartUp PROVE IsolationInv'
<1>1. /\ up' /\ used' = {ServerIP} /\ (Obeys => device' = ByHand)
      /\ store' = Empty /\ job' = Empty /\ \A q \in Loops : todo'[q] = {}
  BY Zenon, SweepLeavesByHand DEF StartUp, IsolationInv, DownForgets, NewPool
<1>2. DOMAIN Empty = {}
  BY Zenon DEF Empty
<1>3. \A k, ip : ~Holds(k, ip, store', job')
  BY Zenon, <1>1, <1>2 DEF Holds
<1>4. Exclusive' /\ JobsFit' /\ SnapshotsFit' /\ DownForgets'
  BY Zenon, <1>1, <1>2 DEF Exclusive, JobsFit, SnapshotsFit, DownForgets
<1>5. Obeys => DeviceAgrees'
  BY Zenon, <1>1, <1>2, ByHandAssumption DEF DeviceAgrees, Agrees
<1>6. OneHolder' /\ TakenIsHeld'
  BY Zenon, <1>1, <1>3 DEF OneHolder, TakenIsHeld
<1>7. Obeys => PeersKnown'
  BY Zenon, <1>1 DEF PeersKnown
<1> QED BY Zenon, <1>4, <1>5, <1>6, <1>7 DEF IsolationInv

(* A start cut short has swept some of the server's own peers. *)
LEMMA StartFailsStep ==
  ASSUME IsolationInv, StartFails PROVE IsolationInv'
<1>1. PICK gone \in SUBSET OursOnDevice : device' = Without(device, gone)
  BY Zenon DEF StartFails
<1>2. ~up /\ UNCHANGED <<up, store, used, job, todo>>
  BY Zenon DEF StartFails, memory
<1>3. Obeys => gone \cap DOMAIN ByHand = {}
  BY Zenon, SweepTells DEF IsolationInv
<1>4. /\ DOMAIN device' = DOMAIN device \ gone
      /\ \A k \in DOMAIN device \ gone : device'[k] = device[k]
  BY Zenon, <1>1 DEF Without
<1>5. Obeys => PeersKnown'
  BY Zenon, <1>3, <1>4 DEF IsolationInv, PeersKnown
<1>6. job' = Empty /\ DOMAIN Empty = {}
  BY Zenon, <1>2 DEF IsolationInv, DownForgets, Empty
<1>7. JobsFit' /\ DeviceAgrees' /\ TakenIsHeld'
  BY Zenon, <1>2, <1>6 DEF JobsFit, DeviceAgrees, TakenIsHeld
<1>8. Exclusive' /\ SnapshotsFit' /\ (Careful => OneHolder') /\ DownForgets'
  BY Zenon, <1>2 DEF IsolationInv, Exclusive, SnapshotsFit, OneHolder, DownForgets
<1> QED BY Zenon, <1>5, <1>7, <1>8 DEF IsolationInv

(* A crash forgets everything but the device. *)
LEMMA CrashStep ==
  ASSUME IsolationInv, Crash PROVE IsolationInv'
<1>1. /\ ~up' /\ store' = Empty /\ job' = Empty /\ device' = device
      /\ \A q \in Loops : todo'[q] = {}
  BY Zenon DEF Crash
<1>2. DOMAIN Empty = {}
  BY Zenon DEF Empty
<1>3. \A k, ip : ~Holds(k, ip, store', job')
  BY Zenon, <1>1, <1>2 DEF Holds
<1>4. Exclusive' /\ JobsFit' /\ SnapshotsFit' /\ DownForgets'
  BY Zenon, <1>1, <1>2 DEF Exclusive, JobsFit, SnapshotsFit, DownForgets
<1>5. DeviceAgrees' /\ OneHolder' /\ TakenIsHeld'
  BY Zenon, <1>1, <1>3 DEF DeviceAgrees, OneHolder, TakenIsHeld
<1>6. Obeys => PeersKnown'
  BY Zenon, <1>1 DEF IsolationInv, PeersKnown
<1> QED BY Zenon, <1>4, <1>5, <1>6 DEF IsolationInv

(* A new list, a registration, an edit of the tenants or a tick. *)
LEMMA FrameStep ==
  ASSUME IsolationInv, UNCHANGED <<up, store, used, device, job, todo>>
  PROVE  IsolationInv'
<1>1. Exclusive' /\ JobsFit' /\ SnapshotsFit'
  BY DEF IsolationInv, Exclusive, JobsFit, SnapshotsFit
<1>2. /\ Obeys => DeviceAgrees'
      /\ Careful => OneHolder' /\ TakenIsHeld'
  BY Zenon DEF IsolationInv, DeviceAgrees, OneHolder, TakenIsHeld
<1>3. (Obeys => PeersKnown') /\ DownForgets'
  BY Zenon DEF IsolationInv, PeersKnown, DownForgets
<1> QED BY Zenon, <1>1, <1>2, <1>3 DEF IsolationInv

-----------------------------------------------------------------------------

(* Every step keeps the invariant. *)
LEMMA IsolationStep ==
  ASSUME TypeOK, ServerInv, IsolationInv, Isolated, [Next]_vars
  PROVE  IsolationInv'
<1>1. ASSUME NEW p, Drop(p) PROVE IsolationInv'
  BY Zenon, <1>1, RemovePeerStep, DeletePeerStep, GiveBackStep DEF Drop
<1>2. ASSUME NEW t \in Threads, Arrive(t) PROVE IsolationInv'
  BY Zenon, <1>2, ArriveStep
<1>3. ASSUME NEW t \in Threads, Serve(t) PROVE IsolationInv'
  <2>1. CASE ChooseTenant(t) \/ GetPeer(t) \/ AddPeerFails(t)
               \/ CheckMember(t) \/ CheckRegistered(t)
    BY Zenon, <2>1, ReadingCalls
  <2>2. CASE Allocate(t)
    BY Zenon, <2>2, AllocateStep
  <2>3. CASE AddPeer(t)
    BY Zenon, <2>3, AddPeerStep
  <2>4. CASE UndoAllocate(t)
    BY Zenon, <2>4, GiveBackStep
  <2>5. CASE Put(t)
    BY Zenon, <2>5, PutStep
  <2>6. CASE Renew(t)
    BY Zenon, <2>6, RenewStep
  <2> QED BY Zenon, <1>1, <1>3, <2>1, <2>2, <2>3, <2>4, <2>5, <2>6 DEF Serve
<1>4. ASSUME ReapExpired PROVE IsolationInv'
  BY Zenon, <1>4, SnapshotStep DEF ReapExpired, memory, Loops
<1>5. ASSUME Reconcile PROVE IsolationInv'
  BY Zenon, <1>5, SnapshotStep DEF Reconcile, memory, Loops
<1>6. ASSUME NEW p \in Loops, Walk(p) PROVE IsolationInv'
  BY Zenon, <1>1, <1>6, NextPeerStep DEF Walk
<1>7. ASSUME Refresh PROVE IsolationInv'
  BY Zenon, <1>7, FrameStep DEF Refresh
<1>8. ASSUME Environment PROVE IsolationInv'
  <2>1. CASE StartFails
    BY Zenon, <2>1, StartFailsStep
  <2>2. CASE Crash
    BY Zenon, <2>2, CrashStep
  <2>3. CASE Tick
    BY Zenon, <2>3, FrameStep DEF Tick, memory
  <2>4. ASSUME NEW k \in Keys, TakeBack(k) PROVE IsolationInv'
    BY Zenon, <2>4, FrameStep DEF TakeBack, memory
  <2>5. ASSUME NEW k \in Keys, NEW s \in Subjects, Register(k, s)
        PROVE  IsolationInv'
    BY Zenon, <2>5, FrameStep DEF Register, memory
  <2>6. ASSUME NEW s \in Subjects, NEW T, ChangeTenancy(s, T)
        PROVE  IsolationInv'
    BY Zenon, <2>6, FrameStep DEF ChangeTenancy, memory
  <2> QED BY Zenon, <1>8, <2>1, <2>2, <2>3, <2>4, <2>5, <2>6 DEF Environment
<1>9. ASSUME UNCHANGED vars PROVE IsolationInv'
  BY Zenon, <1>9, FrameStep DEF vars
<1> QED
  BY Zenon, <1>2, <1>3, <1>4, <1>5, <1>6, <1>7, <1>8, <1>9, StartUpStep DEF Next

(* The invariant holds before the server first starts. *)
LEMMA IsolationInit == ASSUME Init PROVE IsolationInv
<1>1. /\ ~up /\ store = Empty /\ job = Empty /\ device = ByHand
      /\ \A q \in Loops : todo[q] = {}
  BY Zenon DEF Init
<1>2. DOMAIN Empty = {}
  BY Zenon DEF Empty
<1>3. \A k, ip : ~Holds(k, ip, store, job)
  BY Zenon, <1>1, <1>2 DEF Holds
<1>4. Exclusive /\ JobsFit /\ SnapshotsFit /\ DownForgets
  BY Zenon, <1>1, <1>2 DEF Exclusive, JobsFit, SnapshotsFit, DownForgets
<1>5. DeviceAgrees /\ OneHolder /\ TakenIsHeld
  BY Zenon, <1>1, <1>3 DEF DeviceAgrees, OneHolder, TakenIsHeld
<1>6. PeersKnown
  BY Zenon, <1>1 DEF PeersKnown
<1> QED BY Zenon, <1>4, <1>5, <1>6 DEF IsolationInv

(* The invariant holds always. *)
THEOREM IsolationHolds == ASSUME Isolated PROVE Spec => []IsolationInv
<1>1. Init => IsolationInv /\ ServerInv
  BY Zenon, IsolationInit, ConstantsAssumption, ByHandAssumption
  DEF Init, ServerInv, ServerAddressReserved, Empty
<1>2. TypeOK /\ ServerInv /\ IsolationInv /\ [Next]_vars
        => ServerInv' /\ IsolationInv'
  BY ServerStep, IsolationStep
<1> QED BY <1>1, <1>2, TypeCorrect, PTL DEF Spec

(* No two enrolled devices have one address, whatever additions and        *)
(* removals fail and however often the server crashes, when operations on  *)
(* one key do not overlap and no re-addition fails (AddressesUnique).      *)
THEOREM AddressesStayUnique ==
  ASSUME Isolated, Careful PROVE Spec => []AddressesUnique
<1>1. TypeOK /\ IsolationInv => AddressesUnique
  <2> SUFFICES ASSUME TypeOK, IsolationInv,
                      NEW k1 \in DOMAIN store, NEW k2 \in DOMAIN store,
                      store[k1].ip = store[k2].ip
               PROVE  k1 = k2
    BY Zenon DEF AddressesUnique
  <2>1. k1 \in Keys /\ k2 \in Keys /\ store[k1] \in Peer
    BY Zenon, EntryOf DEF TypeOK
  <2>2. store[k1].ip \in Hosts
    BY Zenon, <2>1 DEF Peer
  <2>3. /\ Holds(k1, store[k1].ip, store, job)
        /\ Holds(k2, store[k1].ip, store, job)
    BY Zenon DEF Holds
  <2> QED BY <2>1, <2>2, <2>3 DEF IsolationInv, OneHolder
<1> QED BY <1>1, IsolationHolds, TypeCorrect, PTL

(* The pool loses no address and frees none in use, even if peers cannot   *)
(* be removed: when no operation is in flight, it has taken the gateway's  *)
(* address and those of the enrolled devices, and no other                 *)
(* (PoolAccountsForStore).                                                 *)
THEOREM PoolAccounts ==
  ASSUME Isolated, Careful PROVE Spec => []PoolAccountsForStore
<1>1. TypeOK /\ IsolationInv => PoolAccountsForStore
  <2> SUFFICES ASSUME TypeOK, IsolationInv, up, \A k \in Keys : Settled(k)
               PROVE  used = {ServerIP} \cup {store[k].ip : k \in DOMAIN store}
    BY Zenon DEF PoolAccountsForStore
  <2>1. \A p \in DOMAIN job : FALSE
    BY Zenon, JobTypes DEF Settled
  <2>2. \A k \in Keys, ip \in Hosts :
          Holds(k, ip, store, job) <=> (k \in DOMAIN store /\ store[k].ip = ip)
    BY Zenon, <2>1 DEF Holds
  <2>3. \A ip \in Hosts : ip \in used <=>
          (ip = ServerIP \/ \E k \in Keys : k \in DOMAIN store /\ store[k].ip = ip)
    BY Zenon, <2>2 DEF IsolationInv, TakenIsHeld
  <2>4. \A k \in DOMAIN store : k \in Keys /\ store[k] \in Peer
    BY Zenon, EntryOf DEF TypeOK
  <2>5. \A k \in DOMAIN store : k \in Keys /\ store[k].ip \in Hosts
    BY Zenon, <2>4 DEF Peer
  <2>6. used \subseteq Hosts /\ ServerIP \in Hosts
    BY Zenon, ConstantsAssumption DEF TypeOK
  <2> QED BY SMTT(30), <2>3, <2>5, <2>6
<1> QED BY <1>1, IsolationHolds, TypeCorrect, PTL

(* "one peer per enrolled device": a key no operation is working on is a   *)
(* peer of the device exactly when it is enrolled, with the address it was *)
(* given (DeviceMatchesStore).                                             *)
THEOREM DeviceStaysInStep ==
  ASSUME Isolated, Obeys PROVE Spec => []DeviceMatchesStore
<1>1. IsolationInv => DeviceMatchesStore
  <2> SUFFICES ASSUME IsolationInv, NEW k \in Keys, Settled(k)
               PROVE  Agrees(k, store, device)
    BY Zenon DEF DeviceMatchesStore, Agrees
  <2>1. up /\ ~Between(k, job)
    BY Zenon DEF Settled, Between
  <2> QED BY <2>1 DEF IsolationInv, DeviceAgrees
<1> QED BY <1>1, IsolationHolds, PTL

(* Whatever was enrolled, and however often the server crashed or its      *)
(* sweep was cut short, when it serves, the device has the peers           *)
(* configured by hand, as they were, and no more (StartsClean).            *)
THEOREM StartsSwept == ASSUME Isolated, Obeys PROVE Spec => StartsClean
<1>1. ASSUME IsolationInv, [Next]_vars, ~up, up' PROVE device' = ByHand
  <2>1. ASSUME NEW p PROVE ~Drop(p)
    BY Zenon, <1>1 DEF Drop, RemovePeer, DeletePeer, ReleaseIP, At
  <2>2. ASSUME NEW t \in Threads PROVE ~Serve(t) /\ ~Arrive(t)
    <3>1. ~(ChooseTenant(t) \/ GetPeer(t) \/ Allocate(t) \/ AddPeer(t))
      BY Zenon, <1>1 DEF ChooseTenant, GetPeer, Allocate, AddPeer, At
    <3>2. ~(AddPeerFails(t) \/ UndoAllocate(t) \/ Put(t))
      BY Zenon, <1>1 DEF AddPeerFails, UndoAllocate, Put, At
    <3>3. ~(CheckMember(t) \/ CheckRegistered(t) \/ Renew(t))
      BY Zenon, <1>1 DEF CheckMember, CheckRegistered, Renew, At
    <3>4. ~Arrive(t)
      BY Zenon, <1>1 DEF Arrive, Enroll, Heartbeat, Deregister, Idle
    <3> QED BY Zenon, <2>1, <3>1, <3>2, <3>3, <3>4 DEF Serve
  <2>3. ASSUME NEW p \in Loops PROVE ~Walk(p)
    BY Zenon, <1>1, <2>1 DEF Walk, NextPeer
  <2>4. ~(ReapExpired \/ Refresh \/ Reconcile)
    BY Zenon, <1>1 DEF ReapExpired, Refresh, Reconcile, Resting
  <2>5. ~Environment
    BY Zenon, <1>1
    DEF Environment, StartFails, Crash, Tick, TakeBack, Register, ChangeTenancy
  <2>6. StartUp
    BY Zenon, <1>1, <2>2, <2>3, <2>4, <2>5 DEF Next, vars
  <2> QED BY Zenon, <1>1, <2>6, SweepLeavesByHand DEF StartUp, IsolationInv
<1>2. IsolationInv /\ [Next]_vars => [~up /\ up' => device' = ByHand]_vars
  BY <1>1
<1> QED BY <1>2, IsolationHolds, PTL DEF Spec, StartsClean

-----------------------------------------------------------------------------
(* Only Put, Renew and DeletePeer write the store, and a crash loses it.   *)
LEMMA StoreChanges ==
  ASSUME [Next]_vars
  PROVE  \/ store' = store
         \/ \E t : Put(t) \/ Renew(t) \/ DeletePeer(t)
         \/ Crash
<1>1. ASSUME NEW p, RemovePeer(p) \/ ReleaseIP(p) PROVE store' = store
  BY Zenon, <1>1 DEF RemovePeer, ReleaseIP, memory
<1>2. ASSUME NEW t \in Threads, Arrive(t) PROVE store' = store
  BY Zenon, <1>2 DEF Arrive, Enroll, Heartbeat, Deregister, memory
<1>3. ASSUME NEW t \in Threads,
             \/ ChooseTenant(t) \/ GetPeer(t) \/ Allocate(t) \/ AddPeer(t)
             \/ AddPeerFails(t) \/ UndoAllocate(t)
             \/ CheckMember(t) \/ CheckRegistered(t)
      PROVE  store' = store
  BY Zenon, <1>3 DEF ChooseTenant, GetPeer, Allocate, AddPeer, AddPeerFails,
              UndoAllocate, CheckMember, CheckRegistered, memory
<1>4. ASSUME ReapExpired \/ Refresh \/ Reconcile \/ StartUp \/ StartFails \/ Tick
       PROVE  store' = store
  BY Zenon, <1>4 DEF ReapExpired, Refresh, Reconcile, StartUp, StartFails, Tick, memory
<1>5. ASSUME NEW p \in Loops, NextPeer(p) PROVE store' = store
  BY Zenon, <1>5 DEF NextPeer, memory
<1>6. ASSUME NEW k \in Keys, TakeBack(k) \/ \E s \in Subjects : Register(k, s)
       PROVE  store' = store
  BY Zenon, <1>6 DEF TakeBack, Register, memory
<1>7. ASSUME NEW s \in Subjects, NEW T, ChangeTenancy(s, T)
       PROVE  store' = store
  BY Zenon, <1>7 DEF ChangeTenancy, memory
<1>8. ASSUME Environment PROVE store' = store \/ Crash
  BY Zenon, <1>8, <1>4, <1>6, <1>7 DEF Environment
<1>9. ASSUME NEW p, Drop(p) PROVE store' = store \/ \E t : DeletePeer(t)
  BY Zenon, <1>9, <1>1 DEF Drop
<1>10. ASSUME NEW p \in Threads, Serve(p)
      PROVE  store' = store \/ \E t : Put(t) \/ Renew(t) \/ DeletePeer(t)
  BY Zenon, <1>9, <1>10, <1>3 DEF Serve
<1>11. ASSUME NEW p \in Loops, Walk(p)
      PROVE  store' = store \/ \E t : DeletePeer(t)
  BY Zenon, <1>9, <1>11, <1>5 DEF Walk
<1>12. ASSUME UNCHANGED vars PROVE store' = store
  BY Zenon, <1>12 DEF vars
<1> QED BY Zenon, <1>2, <1>4, <1>8, <1>10, <1>11, <1>12 DEF Next

(* A renewal changes the lease of one entry and nothing else. *)
LEMMA RenewChanges ==
  ASSUME TypeOK, NEW t, Renew(t)
  PROVE  /\ DOMAIN store' = DOMAIN store
         /\ \A x \in DOMAIN store' :
              store'[x].subject = store[x].subject /\ store'[x].ip = store[x].ip
<1> DEFINE k == job[t].key
<1>1. CASE k \in DOMAIN store
  <2>1. store[k] \in Peer
    BY Zenon, <1>1, EntryOf DEF TypeOK
  <2>2. store' = [store EXCEPT ![k].lease = job[t].lease]
    BY Zenon, <1>1 DEF Renew
  <2>3. store'[k] = [store[k] EXCEPT !.lease = job[t].lease]
    BY Zenon, <1>1, <2>2
  <2>4. store'[k].ip = store[k].ip /\ store'[k].subject = store[k].subject
    BY Zenon, <2>1, <2>3 DEF Peer
  <2> QED BY Zenon, <2>2, <2>4
<1>2. CASE k \notin DOMAIN store
  BY Zenon, <1>2 DEF Renew
<1> QED BY Zenon, <1>1, <1>2

(* An entry keeps its owner as long as it is in the store: a key changes   *)
(* hands only by being dropped first, whatever fails, when operations on   *)
(* one key do not overlap (OwnerStays).                                    *)
THEOREM OwnersStay == ASSUME Isolated PROVE Spec => OwnerStays
<1> DEFINE Kept == \A k \in DOMAIN store \cap DOMAIN store' :
                     store'[k].subject = store[k].subject
<1>1. ASSUME IsolationInv, NEW t, Put(t) PROVE Kept
  <2>1. t \in DOMAIN job /\ job[t].call = "put"
    BY Zenon, <1>1 DEF Put, At
  <2>2. job[t].key \in DOMAIN store => store[job[t].key].subject = job[t].subject
    BY Zenon, <1>1, <2>1 DEF IsolationInv, JobsFit, JobFits
  <2>3. /\ store'[job[t].key].subject = job[t].subject
        /\ \A x \in DOMAIN store \ {job[t].key} : store'[x] = store[x]
    BY Zenon, <1>1 DEF Put, Set
  <2> QED BY Zenon, <2>2, <2>3
<1>2. ASSUME TypeOK, NEW t, Renew(t) PROVE Kept
  BY Zenon, <1>2, RenewChanges
<1>3. ASSUME NEW t, DeletePeer(t) PROVE Kept
  BY Zenon, <1>3 DEF DeletePeer, Unset
<1>4. ASSUME Crash PROVE Kept
  BY Zenon, <1>4 DEF Crash, Empty
<1>5. TypeOK /\ IsolationInv /\ [Next]_vars => [Kept]_vars
  BY Zenon, <1>1, <1>2, <1>3, <1>4, StoreChanges
<1> QED BY <1>5, IsolationHolds, TypeCorrect, PTL DEF Spec, OwnerStays

-----------------------------------------------------------------------------
(* The store implements LeaseBook. *)

(* What the book says of a store S. *)
Page(S) == [k \in DOMAIN S |-> [subject |-> S[k].subject, ip |-> S[k].ip]]

(* A store with the same owners and addresses is the same page. *)
LEMMA SamePage ==
  ASSUME NEW S, NEW R, DOMAIN S = DOMAIN R,
         \A k \in DOMAIN S : S[k].subject = R[k].subject /\ S[k].ip = R[k].ip
  PROVE  Page(S) = Page(R)
BY Zenon DEF Page

(* Put enters a new key with an address no other key has, or writes again  *)
(* what the book says.                                                     *)
LEMMA PutKeepsBook ==
  ASSUME TypeOK, IsolationInv, ServerInv, Careful, NEW t, Put(t)
  PROVE  \/ Page(store') = Page(store)
         \/ \E k \in Keys, s \in Subjects, ip \in Hosts \ {ServerIP} :
              /\ k \notin DOMAIN Page(store)
              /\ \A other \in DOMAIN Page(store) : Page(store)[other].ip # ip
              /\ Page(store') =
                   [x \in DOMAIN Page(store) \cup {k} |->
                      IF x = k THEN [subject |-> s, ip |-> ip]
                               ELSE Page(store)[x]]
<1> DEFINE k == job[t].key
           s == job[t].subject
           ip == job[t].ip
<1>0. up /\ t \in DOMAIN job /\ job[t].call = "put"
  BY Zenon DEF Put, At
<1>k. k \in Keys /\ s \in Subjects /\ ip \in Hosts \ {ServerIP}
  BY Zenon, <1>0, JobTypes DEF WithAddress, ServerInv
<1>f. k \in DOMAIN store => store[k].ip = ip /\ store[k].subject = s
  BY Zenon, <1>0 DEF IsolationInv, JobsFit, JobFits
<1>1. /\ DOMAIN store' = DOMAIN store \cup {k}
      /\ store'[k].ip = ip /\ store'[k].subject = s
      /\ \A x \in DOMAIN store \ {k} : store'[x] = store[x]
  BY Zenon DEF Put, Set
<1>2. CASE k \in DOMAIN store
  <2> HIDE DEF k, s, ip
  <2>1. DOMAIN store' = DOMAIN store
    BY Zenon, <1>1, <1>2
  <2>2. \A x \in DOMAIN store' :
          store'[x].subject = store[x].subject /\ store'[x].ip = store[x].ip
    BY Zenon, <1>f, <1>1, <1>2
  <2> QED BY Zenon, <2>1, <2>2, SamePage
<1>3. CASE k \notin DOMAIN store
  <2>1. Holds(k, ip, store, job)
    BY Zenon, <1>0 DEF Holds, Carries
  <2>2. \A other \in DOMAIN store : other \in Keys
    BY Zenon DEF TypeOK, IsMap
  <2>3. \A other \in DOMAIN store : store[other].ip # ip
    BY Zenon, <1>k, <1>3, <2>1, <2>2 DEF IsolationInv, OneHolder, Holds
  <2> HIDE DEF k, s, ip
  <2>4. DOMAIN Page(store) = DOMAIN store
    BY Zenon DEF Page
  <2>5. \A other \in DOMAIN Page(store) : Page(store)[other].ip # ip
    BY Zenon, <2>3 DEF Page
  <2>6. Page(store') = [x \in DOMAIN Page(store) \cup {k} |->
                          IF x = k THEN [subject |-> s, ip |-> ip]
                                   ELSE Page(store)[x]]
    BY Zenon, <1>1, <1>3 DEF Page
  <2> QED BY Zenon, <1>k, <1>3, <2>4, <2>5, <2>6
<1> QED BY ZenonT(30), <1>2, <1>3

(* A step of the server is an entry, a striking out, or nothing to the     *)
(* book.                                                                   *)
LEMMA BookStep ==
  ASSUME TypeOK, IsolationInv, ServerInv, Careful, [Next]_vars
  PROVE  \/ Page(store') = Page(store)
         \/ \E k \in Keys, s \in Subjects, ip \in Hosts \ {ServerIP} :
              /\ k \notin DOMAIN Page(store)
              /\ \A other \in DOMAIN Page(store) : Page(store)[other].ip # ip
              /\ Page(store') =
                   [x \in DOMAIN Page(store) \cup {k} |->
                      IF x = k THEN [subject |-> s, ip |-> ip]
                               ELSE Page(store)[x]]
         \/ \E K \in SUBSET Keys :
              Page(store') = [x \in DOMAIN Page(store) \ K |-> Page(store)[x]]
<1>1. CASE store' = store
  BY Zenon, <1>1
<1>2. ASSUME NEW t, Put(t)
      PROVE  \/ Page(store') = Page(store)
             \/ \E k \in Keys, s \in Subjects, ip \in Hosts \ {ServerIP} :
                  /\ k \notin DOMAIN Page(store)
                  /\ \A other \in DOMAIN Page(store) : Page(store)[other].ip # ip
                  /\ Page(store') =
                       [x \in DOMAIN Page(store) \cup {k} |->
                          IF x = k THEN [subject |-> s, ip |-> ip]
                                   ELSE Page(store)[x]]
  BY Zenon, <1>2, PutKeepsBook
<1>3. ASSUME NEW t, Renew(t) PROVE Page(store') = Page(store)
  BY Zenon, <1>3, RenewChanges, SamePage
<1>4. ASSUME NEW K \in SUBSET Keys, DOMAIN store' = DOMAIN store \ K,
             \A k \in DOMAIN store' : store'[k] = store[k]
      PROVE  Page(store') = [x \in DOMAIN Page(store) \ K |-> Page(store)[x]]
  BY Zenon, <1>4 DEF Page
<1>5. ASSUME NEW t, DeletePeer(t)
      PROVE  \E K \in SUBSET Keys :
               Page(store') = [x \in DOMAIN Page(store) \ K |-> Page(store)[x]]
  <2>1. t \in DOMAIN job /\ store' = Unset(store, job[t].key)
    BY Zenon, <1>5 DEF DeletePeer, At
  <2>2. {job[t].key} \in SUBSET Keys
    BY Zenon, <2>1, JobTypes
  <2> QED BY Zenon, <1>4, <2>1, <2>2 DEF Unset
<1>6. ASSUME Crash
      PROVE  \E K \in SUBSET Keys :
               Page(store') = [x \in DOMAIN Page(store) \ K |-> Page(store)[x]]
  <2>1. DOMAIN store \in SUBSET Keys
    BY Zenon DEF TypeOK, IsMap
  <2>2. DOMAIN store' = {}
    BY Zenon, <1>6 DEF Crash, Empty
  <2> QED BY Zenon, <1>4, <2>1, <2>2
<1> QED BY Zenon, <1>1, <1>2, <1>3, <1>5, <1>6, StoreChanges

(* The peer store implements LeaseBook: from the moment a key is entered   *)
(* until it is dropped it keeps its owner and its address, and no address  *)
(* is entered for two keys (KeepsBook).                                    *)
THEOREM StoreKeepsBook == ASSUME Isolated, Careful PROVE Spec => KeepsBook
<1>1. Init => Book!Init /\ ServerInv
  <2> SUFFICES ASSUME Init PROVE Book!Init /\ ServerInv
    BY Zenon
  <2>1. ServerInv
    BY Zenon, ConstantsAssumption, ByHandAssumption
    DEF Init, ServerInv, ServerAddressReserved, Empty
  <2>2. Book!Init
    BY Zenon DEF Init, Book!Init, Empty
  <2> QED BY Zenon, <2>1, <2>2
<1>2. TypeOK /\ ServerInv /\ [Next]_vars => ServerInv'
  BY Zenon, ServerStep
<1>3. TypeOK /\ IsolationInv /\ ServerInv /\ [Next]_vars
        => [Book!Next]_([k \in DOMAIN store |->
              [subject |-> store[k].subject, ip |-> store[k].ip]])
  BY Zenon, BookStep DEF Page, Book!Next, Book!Enter, Book!Strike
<1> QED BY <1>1, <1>2, <1>3, IsolationHolds, TypeCorrect, PTL
        DEF Spec, KeepsBook, Book!Spec
=============================================================================
