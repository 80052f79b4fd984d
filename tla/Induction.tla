----------------------------- MODULE Induction -----------------------------
(***************************************************************************)
(* Induction and recursion for the proofs about loops and recursive        *)
(* functions, stated with sets and functions in place of predicates.  All  *)
(* of it rests on the order of the naturals being well founded.            *)
(***************************************************************************)
EXTENDS Naturals, Sequences, TLAPS, WellFoundedInduction

(* A set of naturals that is not empty has a least element. *)
LEMMA LeastElement ==
  ASSUME NEW T, T \subseteq Nat, T # {}
  PROVE  \E x \in T : \A y \in T : x <= y
<1> DEFINE R == {ss \in Nat \X Nat : ss[1] < ss[2]}
<1>0. OpToRel(<, Nat) = R
  BY DEF OpToRel
<1>1. IsWellFoundedOn(R, Nat)
  BY Zenon, <1>0, NatLessThanWellFounded
<1>2. \A x, y \in Nat : y < x => <<y, x>> \in R
  OBVIOUS
<1> HIDE DEF R
<1>3. PICK x \in T : \A y \in T : ~(<<y, x>> \in R)
  BY Zenon, <1>1, WFMin
<1>4. ASSUME NEW y \in T PROVE x <= y
  <2>1. x \in Nat /\ y \in Nat /\ ~(y < x)
    BY Zenon, <1>2, <1>3
  <2> QED BY <2>1
<1> QED BY <1>4

(* Induction up to a bound. *)
LEMMA InductionUpTo ==
  ASSUME NEW N \in Nat, NEW S, 0 \in S,
         \A i \in 1..N : i - 1 \in S => i \in S
  PROVE  0..N \subseteq S
<1> SUFFICES ASSUME ~(0..N \subseteq S) PROVE FALSE
  OBVIOUS
<1> DEFINE T == {i \in 0..N : i \notin S}
<1>0. T \subseteq Nat /\ T # {}
  OBVIOUS
<1>1. PICK i \in T : \A j \in T : i <= j
  BY Zenon, <1>0, LeastElement
<1>2. i \in 1..N
  OBVIOUS
<1>3. i - 1 \in 0..N /\ ~(i <= i - 1)
  BY <1>2
<1>4. i - 1 \in S
  BY <1>1, <1>3
<1> QED BY <1>2, <1>4

(* f records N stages of a loop: from b, stage i applies G[i] to what      *)
(* stage i - 1 made.                                                       *)
Stages(f, N, V, b, G) ==
  /\ f \in [0..N -> V]
  /\ f[0] = b
  /\ \A i \in 1..N : f[i] = G[i][f[i - 1]]

(* A recursive definition has a value. *)
LEMMA RecursionUpTo ==
  ASSUME NEW N \in Nat, NEW V, NEW b \in V, NEW G \in [1..N -> [V -> V]]
  PROVE  \E f : Stages(f, N, V, b, G)
<1> DEFINE Made(n, f) == f[0] = b /\ \A i \in 1..n : f[i] = G[i][f[i - 1]]
           S == {n \in 0..N : \E f \in [0..n -> V] : Made(n, f)}
<1>1. 0 \in S
  <2> DEFINE f == [i \in 0..0 |-> b]
  <2>1. f \in [0..0 -> V] /\ Made(0, f)
    OBVIOUS
  <2> HIDE DEF f, Made
  <2> QED BY <2>1
<1>2. ASSUME NEW n \in 1..N, n - 1 \in S PROVE n \in S
  <2>1. PICK f \in [0..(n - 1) -> V] : Made(n - 1, f)
    BY <1>2
  <2> DEFINE g == [i \in 0..n |-> IF i = n THEN G[n][f[n - 1]] ELSE f[i]]
  <2>2. f[n - 1] \in V /\ G[n][f[n - 1]] \in V
    OBVIOUS
  <2>3. g \in [0..n -> V]
    BY <2>2
  <2>4. g[0] = b
    BY <2>1
  <2>5. ASSUME NEW i \in 1..n PROVE g[i] = G[i][g[i - 1]]
    <3>1. CASE i = n
      BY <3>1
    <3>2. CASE i # n
      <4>1. i \in 1..(n - 1)
        BY <3>2
      <4> QED BY <2>1, <4>1
    <3> QED BY <3>1, <3>2
  <2>6. Made(n, g)
    BY Zenon, <2>4, <2>5
  <2> HIDE DEF g, Made
  <2> QED BY <2>3, <2>6
<1> HIDE DEF S
<1>3. 0..N \subseteq S
  BY Zenon, <1>1, <1>2, InductionUpTo
<1>4. N \in S
  BY <1>3
<1> QED BY <1>4 DEF S, Stages
=============================================================================
