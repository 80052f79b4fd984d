------------------------------ MODULE LeaseBook ------------------------------
(***************************************************************************)
(* What enrollment promises, without saying how: a book of who has which   *)
(* address for which key.  A key has one owner and one address from the    *)
(* moment it is entered until it is struck out, and an address is entered  *)
(* for one key at a time.  Leases, lists and restarts only decide when     *)
(* entries are struck out.                                                 *)
(***************************************************************************)
CONSTANTS Keys, Subjects, Addresses

VARIABLE book           \* key -> [subject, ip]

Init == book = [k \in {} |-> k]

Enter(k, s, ip) ==
  /\ k \notin DOMAIN book
  /\ \A other \in DOMAIN book : book[other].ip # ip
  /\ book' = [x \in DOMAIN book \cup {k} |->
                IF x = k THEN [subject |-> s, ip |-> ip] ELSE book[x]]

Strike(K) == book' = [x \in DOMAIN book \ K |-> book[x]]

Next ==
  \/ \E k \in Keys, s \in Subjects, ip \in Addresses : Enter(k, s, ip)
  \/ \E K \in SUBSET Keys : Strike(K)

Spec == Init /\ [][Next]_book
=============================================================================
