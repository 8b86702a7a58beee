--------------------------- MODULE MCIdempotency ---------------------------
(***************************************************************************)
(* Instances of Idempotency for TLC.  The claims are fixed by the          *)
(* scenario; requests are model values, numbered r1 .. r4.                 *)
(***************************************************************************)
EXTENDS Idempotency, TLC

CONSTANTS r1, r2, r3, r4, a, b, g, h

C(key, hash) == [key |-> key, hash |-> hash]

\* A command with an inner command, its retry, a request that claims the two
\* keys in the opposite order, one of them for another command, and a direct use
\* of the inner key.
CrossedClaims ==
  r1 :> <<C(a, g), C(b, g)>> @@ r2 :> <<C(a, g), C(b, g)>>
    @@ r3 :> <<C(b, h), C(a, g)>> @@ r4 :> <<C(b, g)>>
=============================================================================
