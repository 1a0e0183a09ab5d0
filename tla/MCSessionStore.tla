--------------------------- MODULE MCSessionStore ---------------------------
(***************************************************************************)
(* Instances of SessionStore for TLC: two workers, two ids, two addresses. *)
(* The bodies name every pair of an id and an address that can collide,    *)
(* one of them with a reference the secret store does not know.            *)
(***************************************************************************)
EXTENDS SessionStore

CONSTANTS w1, w2, id1, id2, ip1, ip2, k1, k2, k3

Body(id, ip, refs, expires) ==
    [id |-> id, ip |-> ip, refs |-> refs, expires |-> expires]

AllRequests ==
    { Body(id1, ip1, {k1}, NoExpiry), Body(id1, ip2, {}, 0),
      Body(id2, ip1, {k2}, NoExpiry), Body(id2, ip2, {k3}, NoExpiry) }

=============================================================================
