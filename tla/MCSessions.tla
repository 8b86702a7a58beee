----------------------------- MODULE MCSessions -----------------------------
(***************************************************************************)
(* An instance of Sessions for TLC: the tabs ask for anything, in any      *)
(* order, and a session may expire once.                                   *)
(***************************************************************************)
EXTENDS Sessions, TLC

CONSTANTS r0, r1, r2, r3
=============================================================================
