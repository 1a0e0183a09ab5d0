-------------------------- MODULE MCConnectHandler --------------------------
(***************************************************************************)
(* An instance of ConnectHandler for TLC: two calls of the session API at a *)
(* time, two ids and two addresses, so that sessions of one id, and of one  *)
(* address, follow and meet each other.                                     *)
(***************************************************************************)
EXTENDS ConnectHandler, TLC

CONSTANTS w1, w2, t1, id1, id2, ip1, ip2, k1, k2, d1, d2

\* One id asks for no key the second time.
Asks == [id \in Ids |-> IF id = id1 THEN {{k1}, {}} ELSE {{k2}}]

OneDomainEach == [id \in Ids |-> IF id = id1 THEN {d1} ELSE {d2}]

Same == Permutations({w1, w2}) \union Permutations({ip1, ip2})

=============================================================================
