----------------------------- MODULE MCThrottle -----------------------------
(***************************************************************************)
(* Instances of Throttle for TLC: two users and two networks, so that      *)
(* sign-ins share both buckets, one or none; one user knows the password.  *)
(***************************************************************************)
EXTENDS Throttle, TLC

CONSTANTS r1, r2, r3, u1, u2, n1, n2

Wrong == {[user |-> u, network |-> n, right |-> FALSE] : u \in User, n \in Network}
Mixed == Wrong \cup {[user |-> u1, network |-> n1, right |-> TRUE]}
=============================================================================
