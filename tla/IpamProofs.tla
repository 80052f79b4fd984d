----------------------------- MODULE IpamProofs -----------------------------
(***************************************************************************)
(* Proofs about Ipam, for addresses of any width and every pool.           *)
(***************************************************************************)
EXTENDS Ipam, Induction

-----------------------------------------------------------------------------
(* Powers of two. *)

(* The recursive definition has a value. *)
LEMMA PowerEquation ==
  pow2 = [k \in 0..Width |-> IF k = 0 THEN 1 ELSE 2 * pow2[k - 1]]
<1> DEFINE G == [i \in 1..Width |-> [v \in Nat |-> 2 * v]]
<1>1. G \in [1..Width -> [Nat -> Nat]] /\ Width \in Nat
  BY WidthAssumption
<1>2. \A i \in 1..Width, v \in Nat : G[i][v] = 2 * v
  OBVIOUS
<1> HIDE DEF G
<1>3. PICK f : Stages(f, Width, Nat, 1, G)
  BY Zenon, <1>1, RecursionUpTo
<1>4. \A i \in 1..Width : f[i] = 2 * f[i - 1]
  <2> SUFFICES ASSUME NEW i \in 1..Width PROVE f[i] = 2 * f[i - 1]
    OBVIOUS
  <2>1. f[i - 1] \in Nat
    <3>1. i - 1 \in 0..Width
      BY <1>1
    <3> QED BY <1>3, <3>1 DEF Stages
  <2> QED BY Zenon, <1>2, <1>3, <2>1 DEF Stages
<1>5. f = [k \in 0..Width |-> IF k = 0 THEN 1 ELSE 2 * f[k - 1]]
  BY <1>1, <1>3, <1>4 DEF Stages
<1> QED BY Zenon, <1>5 DEF pow2

(* They are positive, and from the first on they are at least two.         *)
LEMMA PowerPositive ==
  \A k \in 0..Width : /\ pow2[k] \in Nat \ {0}
                      /\ k # 0 => pow2[k] = 2 * pow2[k - 1] /\ pow2[k] >= 2
<1>0. /\ pow2[0] = 1
      /\ \A k \in 1..Width : pow2[k] = 2 * pow2[k - 1]
  BY PowerEquation, WidthAssumption
<1> DEFINE S == {k \in 0..Width : pow2[k] \in Nat \ {0}}
<1>1. 0 \in S
  BY <1>0, WidthAssumption
<1>2. \A k \in 1..Width : k - 1 \in S => k \in S
  BY <1>0
<1> HIDE DEF S
<1>3. 0..Width \subseteq S
  BY <1>1, <1>2, InductionUpTo, WidthAssumption
<1>4. \A k \in 0..Width : pow2[k] \in Nat \ {0}
  BY <1>3 DEF S
<1> SUFFICES ASSUME NEW k \in 1..Width
             PROVE  pow2[k] = 2 * pow2[k - 1] /\ pow2[k] >= 2
  BY <1>4
<1>5. k - 1 \in 0..Width
  BY WidthAssumption
<1> QED BY <1>0, <1>4, <1>5

(* The size of a network divides the size of the address space.            *)
LEMMA PowerDivides ==
  ASSUME NEW j \in 0..Width PROVE \E m \in Nat : pow2[Width] = m * pow2[j]
<1> DEFINE P(d) == j + d <= Width => \E m \in Nat : pow2[j + d] = m * pow2[j]
           S == {d \in 0..Width : P(d)}
<1>w. Width \in Nat
  BY WidthAssumption
<1>1. 0 \in S
  <2>1. pow2[j + 0] = 1 * pow2[j]
    BY PowerPositive
  <2> QED BY <1>w, <2>1
<1>2. ASSUME NEW d \in 1..Width, d - 1 \in S PROVE d \in S
  <2> SUFFICES ASSUME j + d <= Width
               PROVE  \E m \in Nat : pow2[j + d] = m * pow2[j]
    BY <1>w
  <2>1. j + (d - 1) <= Width /\ j + d \in 0..Width /\ j + d # 0
    BY <1>w
  <2>2. PICK m \in Nat : pow2[j + (d - 1)] = m * pow2[j]
    BY <1>2, <2>1
  <2>3. (j + d) - 1 = j + (d - 1)
    OBVIOUS
  <2>4. pow2[j + d] = 2 * pow2[j + (d - 1)]
    BY <2>1, <2>3, PowerPositive
  <2>5. pow2[j] \in Nat
    BY PowerPositive
  <2>6. pow2[j + d] = (2 * m) * pow2[j]
    BY <2>2, <2>4, <2>5
  <2> QED BY <2>6
<1> HIDE DEF S
<1>3. 0..Width \subseteq S
  BY <1>w, <1>1, <1>2, InductionUpTo
<1>4. Width - j \in S /\ j + (Width - j) = Width
  BY <1>w, <1>3
<1> QED BY <1>w, <1>4 DEF S

-----------------------------------------------------------------------------
(* Networks. *)

(* A network lies within the address space. *)
LEMMA NetworkFits ==
  ASSUME NEW n \in Networks
  PROVE  /\ Size(n) \in Nat \ {0} /\ pow2[Width] \in Nat \ {0}
         /\ n.base \in Nat /\ n.base + Size(n) <= pow2[Width]
<1>1. /\ n.base \in Addresses /\ n.ones \in 0..Width /\ n.base % Size(n) = 0
  BY DEF Networks
<1>2. Width - n.ones \in 0..Width /\ Width \in 0..Width
  BY <1>1, WidthAssumption
<1>3. Size(n) \in Nat \ {0} /\ pow2[Width] \in Nat \ {0}
  BY <1>2, PowerPositive DEF Size
<1>4. n.base \in Nat /\ n.base < pow2[Width]
  BY <1>1, <1>3 DEF Addresses
<1>5. PICK m \in Nat : pow2[Width] = m * Size(n)
  BY <1>2, PowerDivides DEF Size
<1> DEFINE s == Size(n)
           b == n.base
           q == b \div s
<1>6. s \in Nat \ {0} /\ b \in Nat /\ b % s = 0
  BY <1>1, <1>3, <1>4
<1> HIDE DEF s, b
<1>7. q \in Nat /\ b = s * q
  BY <1>6
<1> HIDE DEF q
<1>8. s * q < s * m
  BY <1>4, <1>5, <1>6, <1>7 DEF s, b
<1>9. q < m
  BY <1>6, <1>7, <1>8
<1>10. s * q + s <= s * m
  BY <1>6, <1>7, <1>9
<1>11. s * m = m * s
  BY <1>6
<1> QED BY <1>3, <1>4, <1>5, <1>7, <1>10, <1>11 DEF s, b

(* The addresses a network contains are those from its base to its         *)
(* broadcast address.                                                      *)
LEMMA ContainsRange ==
  ASSUME NEW n \in Networks, NEW ip \in Nat
  PROVE  Contains(n, ip) <=> n.base <= ip /\ ip < n.base + Size(n)
<1> DEFINE s == Size(n)
           b == n.base
           q == b \div s
           p == ip \div s
           r == ip % s
<1>1. s \in Nat \ {0} /\ b \in Nat /\ b % s = 0
  BY NetworkFits DEF Networks
<1> HIDE DEF s, b
<1>2. q \in Nat /\ b = s * q
  BY <1>1
<1>3. p \in Nat /\ r \in Nat
  BY <1>1
<1>4. r < s
  BY <1>1
<1>5. ip = s * p + r
  BY <1>1
<1> HIDE DEF q, p, r
<1>c. ip \in Nat /\ s * p \in Nat /\ s * q \in Nat
  BY <1>1, <1>2, <1>3
<1>6. ASSUME p = q PROVE b <= ip /\ ip < b + s
  <2>1. s * p = s * q
    BY <1>6
  <2> QED BY <1>1, <1>2, <1>3, <1>4, <1>5, <1>c, <2>1
<1>7. ASSUME p < q PROVE ip < b
  <2>1. s * p + s <= s * q
    BY <1>1, <1>2, <1>3, <1>7
  <2>2. ip < b
    BY <1>1, <1>2, <1>3, <1>4, <1>5, <1>c, <2>1
  <2> QED BY <2>2
<1>8. ASSUME q < p PROVE b + s <= ip
  <2>1. s * q + s <= s * p
    BY <1>1, <1>2, <1>3, <1>8
  <2>2. b + s <= ip
    BY <1>1, <1>2, <1>3, <1>4, <1>5, <1>c, <2>1
  <2> QED BY <2>2
<1>9. p = q <=> b <= ip /\ ip < b + s
  BY <1>1, <1>2, <1>3, <1>6, <1>7, <1>8
<1> QED BY <1>9 DEF Contains, p, q, b, s

-----------------------------------------------------------------------------
(* The loop of Allocate. *)

(* The last address of a network, at which the loop ends. *)
Broadcast(n) == n.base + (Size(n) - 1)

(* The lowest address from ip to before the broadcast address that is not  *)
(* taken.                                                                  *)
LowestFrom(n, u, ip) ==
  LET free == {x \in Nat : ip <= x /\ x < Broadcast(n)} \ u
  IN  {x \in free : \A y \in free : x <= y}

(* One turn of the loop, where f is what the turns after it return.        *)
Turn(n, u, f) ==
  [ip \in Addresses |->
     IF ~Contains(n, ip) \/ isBroadcast(ip, n) THEN {}
     ELSE IF ip \notin u THEN {ip}
     ELSE f[next(ip)]]

(* What a turn does at an address: outside the network and at its last     *)
(* address it ends, and within it goes on to the next address.             *)
LEMMA TurnAt ==
  ASSUME NEW n \in Networks, NEW u, NEW f, NEW ip \in Addresses
  PROVE  /\ ~(n.base <= ip /\ ip < Broadcast(n)) => Turn(n, u, f)[ip] = {}
         /\ n.base <= ip /\ ip < Broadcast(n) =>
              /\ ip + 1 \in Addresses
              /\ ip \notin u => Turn(n, u, f)[ip] = {ip}
              /\ ip \in u => Turn(n, u, f)[ip] = f[ip + 1]
<1>1. /\ Size(n) \in Nat \ {0} /\ pow2[Width] \in Nat \ {0}
      /\ n.base \in Nat /\ n.base + Size(n) <= pow2[Width]
  BY NetworkFits
<1>2. ip \in Nat /\ ip < pow2[Width]
  BY <1>1 DEF Addresses
<1>3. Contains(n, ip) <=> n.base <= ip /\ ip <= Broadcast(n)
  BY <1>1, <1>2, ContainsRange DEF Broadcast
<1>4. isBroadcast(ip, n) <=> ip = Broadcast(n)
  BY DEF isBroadcast, Broadcast
<1>5. Broadcast(n) \in Nat /\ Broadcast(n) < pow2[Width]
  BY <1>1 DEF Broadcast
<1>6. CASE ~(n.base <= ip /\ ip < Broadcast(n))
  <2>1. ~Contains(n, ip) \/ isBroadcast(ip, n)
    BY <1>1, <1>2, <1>3, <1>4, <1>5, <1>6
  <2> QED BY <1>6, <2>1 DEF Turn
<1>7. CASE n.base <= ip /\ ip < Broadcast(n)
  <2>1. Contains(n, ip) /\ ~isBroadcast(ip, n)
    BY <1>1, <1>2, <1>3, <1>4, <1>5, <1>7
  <2>2. ip + 1 \in Nat /\ ip + 1 < pow2[Width]
    BY <1>1, <1>2, <1>5, <1>7
  <2>3. next(ip) = ip + 1
    BY <1>1, <2>2 DEF next
  <2>4. ip + 1 \in Addresses
    BY <1>1, <2>2 DEF Addresses
  <2> QED BY <1>7, <2>1, <2>3, <2>4 DEF Turn
<1> QED BY <1>6, <1>7

(* The lowest free address from ip on is ip if it is free, and else the    *)
(* lowest from ip + 1 on.                                                  *)
LEMMA LowestTurn ==
  ASSUME NEW n \in Networks, NEW u, NEW ip \in Nat
  PROVE  /\ ~(ip < Broadcast(n)) => LowestFrom(n, u, ip) = {}
         /\ ip < Broadcast(n) /\ ip \notin u => LowestFrom(n, u, ip) = {ip}
         /\ ip < Broadcast(n) /\ ip \in u =>
              LowestFrom(n, u, ip) = LowestFrom(n, u, ip + 1)
<1> DEFINE free(a) == {x \in Nat : a <= x /\ x < Broadcast(n)} \ u
<1>0. Broadcast(n) \in Nat
  BY NetworkFits DEF Broadcast
<1>1. ASSUME ~(ip < Broadcast(n)) PROVE LowestFrom(n, u, ip) = {}
  <2>1. free(ip) = {}
    BY <1>0, <1>1
  <2> QED BY <2>1 DEF LowestFrom
<1>2. ASSUME ip < Broadcast(n), ip \notin u PROVE LowestFrom(n, u, ip) = {ip}
  <2>1. ip \in free(ip) /\ \A x \in free(ip) : x \in Nat /\ ip <= x
    BY <1>0, <1>2
  <2> HIDE DEF free
  <2>2. {x \in free(ip) : \A y \in free(ip) : x <= y} = {ip}
    BY <2>1
  <2> QED BY <2>2 DEF LowestFrom, free
<1>3. ASSUME ip < Broadcast(n), ip \in u
      PROVE  LowestFrom(n, u, ip) = LowestFrom(n, u, ip + 1)
  <2>1. free(ip) = free(ip + 1)
    BY <1>0, <1>3
  <2> QED BY <2>1 DEF LowestFrom
<1> QED BY <1>1, <1>2, <1>3

(* What the loop should return, from every address. *)
Returns(n, u) ==
  [ip \in Addresses |->
     IF n.base <= ip THEN LowestFrom(n, u, ip) ELSE {}]

(* The loop's equation has a solution. *)
LEMMA LoopEnds ==
  ASSUME NEW n \in Networks, NEW u
  PROVE  Returns(n, u) = Turn(n, u, Returns(n, u))
<1> DEFINE f == Returns(n, u)
<1> SUFFICES ASSUME NEW ip \in Addresses PROVE f[ip] = Turn(n, u, f)[ip]
  BY DEF Returns, Turn
<1>0. /\ ip \in Nat /\ n.base \in Nat /\ Broadcast(n) \in Nat
  BY NetworkFits DEF Addresses, Broadcast
<1>1. CASE ~(n.base <= ip)
  BY SMTT(30), <1>0, <1>1, TurnAt DEF Returns
<1>2. CASE n.base <= ip /\ ~(ip < Broadcast(n))
  BY SMTT(30), <1>0, <1>2, TurnAt, LowestTurn DEF Returns
<1>3. CASE n.base <= ip /\ ip < Broadcast(n)
  <2>1. f[ip] = LowestFrom(n, u, ip)
    BY <1>3 DEF Returns
  <2>2. ip + 1 \in Addresses /\ n.base <= ip + 1
    BY <1>0, <1>3, TurnAt
  <2>3. f[ip + 1] = LowestFrom(n, u, ip + 1)
    BY <2>2 DEF Returns
  <2>4. CASE ip \notin u
    <3>1. Turn(n, u, f)[ip] = {ip}
      BY <1>3, <2>4, TurnAt
    <3>2. LowestFrom(n, u, ip) = {ip}
      BY <1>0, <1>3, <2>4, LowestTurn
    <3> QED BY <2>1, <3>1, <3>2
  <2>5. CASE ip \in u
    BY <1>0, <1>3, <2>1, <2>3, <2>5, TurnAt, LowestTurn
  <2> QED BY <2>4, <2>5
<1> QED BY <1>1, <1>2, <1>3

(* Every solution returns that, from every address of the network: by      *)
(* induction on the distance to the broadcast address.                     *)
LEMMA LoopReturns ==
  ASSUME NEW n \in Networks, NEW u, NEW f, f = Turn(n, u, f),
         NEW ip \in Addresses, n.base <= ip, ip <= Broadcast(n)
  PROVE  f[ip] = LowestFrom(n, u, ip)
<1> DEFINE D == Broadcast(n) - ip
           S == {d \in 0..D :
                   f[Broadcast(n) - d] = LowestFrom(n, u, Broadcast(n) - d)}
<1>0. /\ ip \in Nat /\ n.base \in Nat /\ Broadcast(n) \in Nat
      /\ Broadcast(n) < pow2[Width] /\ pow2[Width] \in Nat
  BY NetworkFits DEF Addresses, Broadcast
<1>d. /\ D \in Nat /\ Broadcast(n) - D = ip
      /\ \A d \in 0..D : /\ Broadcast(n) - d \in Addresses
                         /\ n.base <= Broadcast(n) - d
                         /\ Broadcast(n) - d <= Broadcast(n)
  BY <1>0 DEF Addresses
<1>1. 0 \in S
  <2>1. f[Broadcast(n)] = {} /\ LowestFrom(n, u, Broadcast(n)) = {}
    BY <1>0, <1>d, TurnAt, LowestTurn
  <2>2. Broadcast(n) - 0 = Broadcast(n)
    BY <1>0
  <2>3. f[Broadcast(n) - 0] = LowestFrom(n, u, Broadcast(n) - 0)
    BY <2>1, <2>2
  <2>4. 0 \in 0..D
    BY <1>d
  <2> QED BY <2>3, <2>4
<1>2. ASSUME NEW d \in 1..D, d - 1 \in S PROVE d \in S
  <2> DEFINE x == Broadcast(n) - d
  <2>1. x \in Addresses /\ x \in Nat /\ n.base <= x /\ x < Broadcast(n)
    BY <1>0, <1>d
  <2>2. Broadcast(n) - (d - 1) = x + 1
    BY <1>0
  <2>3. f[x + 1] = LowestFrom(n, u, x + 1)
    BY <1>2, <2>2
  <2>4. f[x] = LowestFrom(n, u, x)
    <3> HIDE DEF x
    <3>1. CASE x \notin u
      <4>1. f[x] = {x}
        BY <2>1, <3>1, TurnAt
      <4>2. LowestFrom(n, u, x) = {x}
        BY <2>1, <3>1, LowestTurn
      <4> QED BY <4>1, <4>2
    <3>2. CASE x \in u
      <4>1. f[x] = f[x + 1]
        BY <2>1, <3>2, TurnAt
      <4>2. LowestFrom(n, u, x) = LowestFrom(n, u, x + 1)
        BY <2>1, <3>2, LowestTurn
      <4> QED BY <2>3, <4>1, <4>2
    <3> QED BY <3>1, <3>2
  <2>5. d \in 0..D
    BY <1>d
  <2> QED BY <2>4, <2>5
<1> HIDE DEF S, D
<1>3. 0..D \subseteq S
  BY <1>d, <1>1, <1>2, InductionUpTo
<1>4. D \in S
  BY <1>d, <1>3
<1> QED BY <1>d, <1>4 DEF S

(* Allocate's loop returns the lowest free host of any network, whatever   *)
(* is taken.                                                               *)
LEMMA ScanIsLowestFree ==
  ASSUME NEW n \in Networks, NEW u PROVE ScanFrom(n, u) = LowestFree(n, u)
<1> DEFINE f == CHOOSE g : g = Turn(n, u, g)
<1>1. ScanFrom(n, u) = f[firstHost(n)]
  BY DEF ScanFrom, Turn
<1>2. f = Turn(n, u, f)
  BY LoopEnds
<1> HIDE DEF f
<1>3. /\ Size(n) \in Nat \ {0} /\ pow2[Width] \in Nat \ {0}
      /\ n.base \in Nat /\ n.base + Size(n) <= pow2[Width]
  BY NetworkFits
<1>4. CASE Size(n) # 1
  <2>1. /\ n.base + 1 \in Nat /\ n.base + 1 < pow2[Width]
        /\ n.base + 1 <= Broadcast(n)
    BY <1>3, <1>4 DEF Broadcast
  <2>2. firstHost(n) = n.base + 1
    BY <1>3, <2>1 DEF firstHost, next
  <2>3. n.base + 1 \in Addresses /\ n.base <= n.base + 1
    BY <1>3, <2>1 DEF Addresses
  <2>4. f[n.base + 1] = LowestFrom(n, u, n.base + 1)
    BY <1>2, <2>1, <2>3, LoopReturns
  <2>5. {x \in Nat : n.base + 1 <= x /\ x < Broadcast(n)} = Hosts(n)
    BY <1>3 DEF Broadcast, Hosts, Addresses
  <2> QED BY <1>1, <2>2, <2>4, <2>5 DEF LowestFrom, LowestFree
<1>5. CASE Size(n) = 1
  <2>1. Hosts(n) = {}
    BY <1>3, <1>5 DEF Hosts, Addresses
  <2>2. firstHost(n) \in Addresses /\ firstHost(n) # n.base
    <3>1. pow2[Width] >= 2
      BY PowerPositive, WidthAssumption
    <3>2. CASE n.base + 1 < pow2[Width]
      BY <1>3, <3>2 DEF firstHost, next, Addresses
    <3>3. CASE n.base + 1 = pow2[Width]
      <4>1. firstHost(n) = 0
        BY <1>3, <3>3 DEF firstHost, next
      <4> QED BY <1>3, <3>1, <3>3, <4>1 DEF Addresses
    <3> QED BY <1>3, <1>5, <3>2, <3>3
  <2>3. firstHost(n) \in Nat /\ Broadcast(n) = n.base
    BY <1>3, <1>5, <2>2 DEF Addresses, Broadcast
  <2>4. f[firstHost(n)] = {}
    BY <1>2, <1>3, <2>2, <2>3, TurnAt
  <2> QED BY <1>1, <2>1, <2>4 DEF LowestFree
<1> QED BY <1>4, <1>5

-----------------------------------------------------------------------------
(* The allocator. *)

(* What the callers hold and the gateway's address are what is taken.      *)
Accounted == used = held \cup {serverIP} /\ serverIP \notin held

PoolInv == TypeOK /\ Accounted

(* The pool New makes. *)
LEMMA PoolStarts == ASSUME Init PROVE PoolInv
<1>1. network \in Networks /\ serverIP = firstHost(network)
  BY DEF Init
<1>2. network.base \in Nat /\ pow2[Width] \in Nat \ {0}
  BY <1>1, NetworkFits
<1>3. serverIP \in Addresses
  BY <1>1, <1>2 DEF firstHost, next, Addresses
<1> QED BY <1>1, <1>3 DEF Init, PoolInv, TypeOK, Accounted

(* Every method keeps it. *)
LEMMA PoolStep == ASSUME PoolInv, [Next]_vars PROVE PoolInv'
<1>1. CASE Allocate
  <2>1. PICK ip \in ScanFrom(network, used) :
          /\ used' = used \cup {ip} /\ held' = held \cup {ip}
          /\ UNCHANGED <<network, serverIP>>
    BY <1>1 DEF Allocate
  <2>2. ip \in Addresses /\ ip \notin used
    BY <2>1, ScanIsLowestFree DEF PoolInv, TypeOK, LowestFree, Hosts
  <2> QED BY <2>1, <2>2 DEF PoolInv, TypeOK, Accounted
<1>2. ASSUME NEW ip \in Addresses, Reserve(ip) PROVE PoolInv'
  BY <1>2 DEF Reserve, PoolInv, TypeOK, Accounted
<1>3. ASSUME NEW ip \in Addresses, Release(ip) PROVE PoolInv'
  BY <1>3 DEF Release, PoolInv, TypeOK, Accounted
<1>4. CASE UNCHANGED vars
  BY <1>4 DEF vars, PoolInv, TypeOK, Accounted
<1> QED BY <1>1, <1>2, <1>3, <1>4 DEF Next

(* What is taken is what callers hold and the gateway's address, however   *)
(* they allocate, reserve and return.                                      *)
THEOREM PoolStaysAccounted == Spec => []PoolInv
BY PoolStarts, PoolStep, PTL DEF Spec

(* No address the allocator computes, the wrap of next included, leaves    *)
(* the address space (TypeOK).                                             *)
THEOREM PoolTypeCorrect == Spec => []TypeOK
<1>1. PoolInv => TypeOK
  BY DEF PoolInv
<1> QED BY <1>1, PoolStaysAccounted, PTL

(* For addresses of any width, every pool and whatever is taken, Allocate  *)
(* returns the lowest free host and fails exactly when none is free        *)
(* (AllocateReturnsLowestFree).                                            *)
THEOREM AllocationIsLowestFree == Spec => []AllocateReturnsLowestFree
<1>1. TypeOK => AllocateReturnsLowestFree
  BY ScanIsLowestFree DEF TypeOK, AllocateReturnsLowestFree
<1> QED BY <1>1, PoolTypeCorrect, PTL

(* No caller is ever given the gateway's own address                       *)
(* (ServerAddressNeverHandedOut).                                          *)
THEOREM ServerAddressKept == Spec => []ServerAddressNeverHandedOut
<1>1. PoolInv => ServerAddressNeverHandedOut
  BY DEF PoolInv, Accounted, ServerAddressNeverHandedOut
<1> QED BY <1>1, PoolStaysAccounted, PTL

(* What ControlPlane assumes of its pool (ConstantsAssumption) holds of    *)
(* every pool with room for a device: its hosts are positive numbers, and  *)
(* the gateway's own address is the first of them.                         *)
THEOREM PoolSuitsControlPlane ==
  ASSUME NEW n \in Networks, n.ones + 2 <= Width
  PROVE  /\ Hosts(n) \subseteq Nat \ {0}
         /\ firstHost(n) \in Hosts(n)
         /\ \A ip \in Hosts(n) : firstHost(n) <= ip
<1>1. /\ Size(n) \in Nat \ {0} /\ pow2[Width] \in Nat \ {0}
      /\ n.base \in Nat /\ n.base + Size(n) <= pow2[Width]
  BY NetworkFits
<1>2. Size(n) >= 4
  <2> DEFINE k == Width - n.ones
  <2>1. k \in 0..Width /\ k # 0 /\ k - 1 \in 0..Width /\ k - 1 # 0
    BY WidthAssumption DEF Networks
  <2> HIDE DEF k
  <2>2. pow2[k] = 2 * pow2[k - 1] /\ pow2[k - 1] >= 2 /\ pow2[k - 1] \in Nat
    BY <2>1, PowerPositive
  <2> QED BY <2>2 DEF k, Size
<1>3. n.base + 1 < pow2[Width] /\ firstHost(n) = n.base + 1
  BY <1>1, <1>2 DEF firstHost, next
<1>4. firstHost(n) \in Hosts(n)
  BY <1>1, <1>2, <1>3 DEF Hosts, Addresses
<1>5. \A ip \in Hosts(n) : ip \in Nat /\ n.base + 1 <= ip
  BY <1>1 DEF Hosts, Addresses
<1> QED BY <1>1, <1>3, <1>4, <1>5
=============================================================================
