--------------------------- MODULE MCControlPlane ---------------------------
(* Instances of ControlPlane for TLC. *)
EXTENDS ControlPlane, TLC

(* Peers configured by hand: none, or one whose only allowed IP is outside *)
(* the pool and one with two.                                              *)
NoneByHand == Empty
TwoByHand == "site" :> {8} @@ "link" :> {9, 10}

(* Requests are served by interchangeable goroutines. *)
ThreadSymmetry == Permutations(Threads)
=============================================================================
