---------------------------- MODULE ExactlyOnce ----------------------------
(***************************************************************************)
(* What a durable idempotency key promises to the caller of a command:     *)
(* every request is served in one indivisible step.  A key that nothing    *)
(* has used yet is bound, for ever, to the request that is performed under *)
(* it and to the result of that performance; a request whose key is bound  *)
(* to the same command gets the recorded result and performs nothing; any  *)
(* request may be refused, and a refused request leaves no trace.          *)
(*                                                                         *)
(* A handler may call another command under a key of its own (posting a    *)
(* document posts a journal entry), so a request carries a sequence of     *)
(* claims, outermost first.                                                *)
(***************************************************************************)
EXTENDS Naturals, Sequences

CONSTANTS
  Request,   \* attempts made by clients; a retry is a request of its own
  Key,       \* idempotency keys of one organization
  Hash,      \* the command a key is bound to: operation and payload hash
  Claims,    \* Claims[r]: the claims that serving r makes, outermost first
  None       \* no result, no outcome

VARIABLES
  outcome,   \* outcome[k]: the command performed under k and its result
  reply      \* reply[r]: the result given to r, "refused", or None

vars == <<outcome, reply>>

Init ==
  /\ outcome = [k \in Key |-> None]
  /\ reply = [r \in Request |-> None]

Bound(r, i) ==
  LET c == Claims[r][i] IN outcome[c.key] # None /\ outcome[c.key].hash = c.hash

Replay(r) ==
  /\ reply[r] = None
  /\ Bound(r, 1)
  /\ reply' = [reply EXCEPT ![r] = outcome[Claims[r][1].key].resource]
  /\ UNCHANGED outcome

\* The outer n claims of r are new; the next one, if r has one, was performed
\* by an earlier request and its result is used.
Perform(r, n) ==
  LET levels == 1 .. n
      result == IF n = Len(Claims[r]) THEN r
                ELSE outcome[Claims[r][n + 1].key].resource
  IN /\ reply[r] = None
     /\ \A i \in levels : outcome[Claims[r][i].key] = None
     /\ n < Len(Claims[r]) => Bound(r, n + 1)
     /\ outcome' = [k \in Key |->
                      IF \E i \in levels : Claims[r][i].key = k
                      THEN [hash |-> Claims[r][CHOOSE i \in levels : Claims[r][i].key = k].hash,
                            resource |-> result]
                      ELSE outcome[k]]
     /\ reply' = [reply EXCEPT ![r] = result]

Refuse(r) ==
  /\ reply[r] = None
  /\ reply' = [reply EXCEPT ![r] = "refused"]
  /\ UNCHANGED outcome

Next ==
  \E r \in Request :
    \/ Replay(r)
    \/ \E n \in 1 .. Len(Claims[r]) : Perform(r, n)
    \/ Refuse(r)

Spec == Init /\ [][Next]_vars
=============================================================================
