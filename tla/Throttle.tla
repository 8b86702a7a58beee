------------------------------ MODULE Throttle ------------------------------
(***************************************************************************)
(* The throttle of sign-ins (app/core/login_throttle.py and login in       *)
(* app/api/auth.py): failed sign-ins are counted in two buckets, one of    *)
(* the identity that signs in and one of the network it does so from.      *)
(*                                                                         *)
(* Sign-ins are requests of their own clients, several API instances       *)
(* share the records, and everything happens within one window: a bucket   *)
(* is neither reset (login_window_seconds) nor released                    *)
(* (login_block_seconds).  Hashed bucket keys are the buckets themselves.  *)
(***************************************************************************)
EXTENDS Requests, Integers, FiniteSets

CONSTANTS
  User, Network,
  Attempts,     \* what clients may send
  MaxFailures,  \* login_max_failures
  None          \* absence of a value

\* A sign-in of user, from network, with a right or a wrong password.
Attempt == [user : User, network : Network, right : BOOLEAN]

Bucket == ({"identity"} \X User) \cup ({"network"} \X Network)

ASSUME AttemptsAssumption == Attempts \subseteq Attempt
ASSUME MaxFailuresAssumption == MaxFailures \in Nat \ {0}
ASSUME NoneAssumption == None \notin Attempt

VARIABLES
  failures,  \* failures[b]: failed_attempts of the committed record of b, 0 without one
  counted,   \* counted[r]: the buckets in which r has counted its failure, uncommitted
  answer     \* answer[r]: 200, 401 or 429, once r is answered

vars == <<pc, cmd, failures, counted, answer>>

Init ==
  /\ pc = [r \in Request |-> "idle"]
  /\ cmd = [r \in Request |-> None]
  /\ failures = [b \in Bucket |-> 0]
  /\ counted = [r \in Request |-> {}]
  /\ answer = [r \in Request |-> None]

\* login_bucket_keys, in the order of the tuple.
Keys(r) == << <<"identity", cmd[r].user>>, <<"network", cmd[r].network>> >>
BucketsOf(r) == {Keys(r)[1], Keys(r)[2]}

\* The records that r has locked since check_login_throttle found them, and those
\* it has inserted.
Held(r) ==
  counted[r] \cup
  IF pc[r] \in {"password", "count", "commit"}
  THEN {b \in BucketsOf(r) : failures[b] > 0} ELSE {}

HeldByOthers(r) == UNION {Held(q) : q \in Request \ {r}}

Begin(r) ==
  /\ pc[r] = "idle"
  /\ \E a \in Attempts : cmd' = [cmd EXCEPT ![r] = a]
  /\ Goto(r, "check")
  /\ UNCHANGED <<failures, counted, answer>>

\* The transaction ends with an answer, or with none.
Ends(r, label, code) ==
  /\ Goto(r, label)
  /\ counted' = [counted EXCEPT ![r] = {}]
  /\ answer' = [answer EXCEPT ![r] = code]

\* check_login_throttle selects the committed records for update.
Check(r) ==
  /\ pc[r] = "check"
  /\ \A b \in BucketsOf(r) : failures[b] > 0 => b \notin HeldByOthers(r)
  /\ IF \E b \in BucketsOf(r) : failures[b] >= MaxFailures
     THEN Ends(r, "failed", 429)
     ELSE Goto(r, "password") /\ UNCHANGED <<counted, answer>>
  /\ UNCHANGED <<cmd, failures>>

Password(r) ==
  /\ pc[r] = "password"
  /\ Goto(r, IF cmd[r].right THEN "commit" ELSE "count")
  /\ UNCHANGED <<cmd, failures, counted, answer>>

\* The keys are a set and not a tuple: each instance has its own order.
NextBuckets_AnyOrder(r) == BucketsOf(r) \ counted[r]

\* record_login_failure goes through the tuple.
NextBuckets(r) ==
  IF Keys(r)[1] \in counted[r] THEN {Keys(r)[2]} \ counted[r] ELSE {Keys(r)[1]}

\* One turn of the loop of record_login_failure: _get_or_create locks the record
\* or inserts one, and the unique key makes the insertion wait for the uncommitted
\* record of another request.
CountFailure(r) ==
  /\ pc[r] = "count"
  /\ \E b \in NextBuckets(r) \ HeldByOthers(r) :
       counted' = [counted EXCEPT ![r] = @ \cup {b}]
  /\ UNCHANGED <<pc, cmd, failures, answer>>

\* record_login_failure returns retry_after when a count reaches the limit.  The
\* 401 or 429 is raised as an exception through get_session, which rolls the
\* counts back.
Reject(r) ==
  /\ pc[r] = "count" /\ counted[r] = BucketsOf(r)
  /\ Ends(r, "failed", IF \E b \in counted[r] : failures[b] + 1 >= MaxFailures THEN 429 ELSE 401)
  /\ UNCHANGED <<cmd, failures>>

\* record_login_success deletes the records; the session is modelled in Sessions.
SignIn(r) ==
  /\ pc[r] = "commit"
  /\ failures' = [b \in Bucket |-> IF b \in BucketsOf(r) THEN 0 ELSE failures[b]]
  /\ Ends(r, "done", 200)
  /\ UNCHANGED cmd

\* The worker dies, a wait is ended or the commit fails.
Fail(r) ==
  /\ Active(r)
  /\ Ends(r, "failed", None)
  /\ UNCHANGED <<cmd, failures>>

Step(r) == Check(r) \/ Password(r) \/ CountFailure(r) \/ Reject(r) \/ SignIn(r)

Next == \E r \in Request : Begin(r) \/ Step(r) \/ Fail(r)

Spec == Init /\ [][Next]_vars

\* Threads keep executing the requests they serve; no wait has to be ended.
Fairness == \A r \in Request : WF_vars(Step(r))

FairSpec == Spec /\ Fairness
-----------------------------------------------------------------------------
\* Every sign-in is answered although no timeout ends a wait: failed sign-ins that
\* count in the same buckets never wait for each other in a circle, whatever
\* identities and networks they share.
EveryRequestEnds == \A r \in Request : Active(r) ~> pc[r] \in Terminal

\* "Durable ... login abuse state shared by API instances" (models/platform.py):
\* unless a sign-in of the user has succeeded, fewer than login_max_failures
\* failed ones are answered 401, for the next is answered 429, as
\* test_login_rate_limit_blocks_repeated_failures expects of the fifth.
RepeatedFailuresAreBlocked ==
  \A u \in User :
    LET ofUser == {r \in Request : cmd[r] # None /\ cmd[r].user = u}
    IN (\A r \in ofUser : answer[r] # 200) =>
         Cardinality({r \in ofUser : answer[r] = 401}) < MaxFailures
=============================================================================
