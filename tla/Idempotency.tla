---------------------------- MODULE Idempotency ----------------------------
(***************************************************************************)
(* The durable idempotency protocol of app/core/idempotency.py, as the     *)
(* services use it inside one HTTP request.  A request is one PostgreSQL   *)
(* transaction at READ COMMITTED (app/db/session.py): it claims its key    *)
(* with SELECT ... FOR UPDATE, then INSERT ... ON CONFLICT DO NOTHING and, *)
(* if it lost the insertion, a second SELECT ... FOR UPDATE; it performs   *)
(* its business effect, completes the record, and commits everything       *)
(* together.  Every statement is an action of its own, so the transactions *)
(* of concurrent requests interleave between any two statements.           *)
(*                                                                         *)
(* A handler may call a second command that claims a key of its own:       *)
(* post_document and post_payment call post_journal_entry, and so does     *)
(* reverse_journal_entry.  Clients choose their keys freely in the same    *)
(* name space, so Claims may cross keys in any way.                        *)
(***************************************************************************)
EXTENDS Naturals, Sequences, Waits

CONSTANTS
  Request,   \* HTTP requests; a client's retry is a request of its own
  Key,       \* normalized keys of one organization
  Hash,      \* operation and request hash, compared together
  Claims,    \* Claims[r]: the claims made while serving r, outermost first
  None       \* no row, no lock, no result

ASSUME ClaimsAssumption ==
  /\ Claims \in [Request -> Seq([key : Key, hash : Hash])]
  /\ \A r \in Request : Len(Claims[r]) > 0

ASSUME NoneAssumption ==
  /\ None \notin Request
  /\ None \notin [by : Request, hash : Hash, status : {0, 201},
                  resource : Request \cup {None}]
  /\ None \notin [hash : Hash, resource : Request \cup {None}]

VARIABLES
  pc,        \* pc[r]: the statement r executes next
  level,     \* level[r]: the claim of Claims[r] being served
  record,    \* record[k]: the committed row of key k
  pending,   \* pending[k]: the row of k inserted by a running transaction
  lock,      \* lock[k]: the transaction that locked the committed row of k
  result,    \* result[r]: the request whose effect r answers with
  staged,    \* staged[r]: keys under which r performed an effect, uncommitted
  applied    \* applied[k]: requests whose effect under k is committed

vars == <<pc, level, record, pending, lock, result, staged, applied>>

Reserved == 0      \* response_status of a claim that is not completed
Completed == 201   \* response_status written by complete_idempotency

Row == [by : Request, hash : Hash, status : {Reserved, Completed},
        resource : Request \cup {None}]

Terminal == {"done", "failed"}
Active(r) == pc[r] \notin Terminal \cup {"idle"}

Init ==
  /\ pc = [r \in Request |-> "idle"]
  /\ level = [r \in Request |-> 1]
  /\ record = [k \in Key |-> None]
  /\ pending = [k \in Key |-> None]
  /\ lock = [k \in Key |-> None]
  /\ result = [r \in Request |-> None]
  /\ staged = [r \in Request |-> {}]
  /\ applied = [k \in Key |-> {}]

Goto(r, label) == pc' = [pc EXCEPT ![r] = label]

Claim(r) == Claims[r][level[r]]

Owns(r, k) == pending[k] # None /\ pending[k].by = r

\* READ COMMITTED: a statement sees its own writes and what has committed.
Visible(r, k) == IF Owns(r, k) THEN pending[k] ELSE record[k]

\* A retry is accepted whatever it asks for.
Matches_AnyHash(row, hash) == row.status # Reserved

\* _validate_existing, and the test for a claim still in progress.
Matches(row, hash) == row.hash = hash /\ row.status # Reserved

\* The outer command is resumed even if there is none.
Return_ToOuter(r) == Goto(r, "execute") /\ level' = [level EXCEPT ![r] = @ - 1]

\* Control returns to the handler that made the claim just served.
Return(r) ==
  IF level[r] = 1
  THEN Goto(r, "commit") /\ UNCHANGED level
  ELSE Goto(r, "execute") /\ level' = [level EXCEPT ![r] = @ - 1]

Begin(r) ==
  /\ pc[r] = "idle"
  /\ Goto(r, "select")
  /\ UNCHANGED <<level, record, pending, lock, result, staged, applied>>

\* SELECT ... FOR UPDATE found a row: wait for its lock, then replay the
\* recorded result or refuse the request.
Found(r) ==
  LET k == Claim(r).key
      row == Visible(r, k)
  IN /\ row # None
     /\ lock[k] \in {None, r}
     /\ lock' = IF Owns(r, k) THEN lock ELSE [lock EXCEPT ![k] = r]
     /\ IF Matches(row, Claim(r).hash)
        THEN result' = [result EXCEPT ![r] = row.resource] /\ Return(r)
        ELSE Goto(r, "rollback") /\ UNCHANGED <<level, result>>
     /\ UNCHANGED <<record, pending, staged, applied>>

Select(r) ==
  /\ pc[r] = "select"
  /\ \/ Found(r)
     \/ /\ Visible(r, Claim(r).key) = None
        /\ Goto(r, "insert")
        /\ UNCHANGED <<level, record, pending, lock, result, staged, applied>>

\* The table without its unique constraint.
Conflicts_Never(k) == FALSE

Conflicts(k) == record[k] # None

\* INSERT ... ON CONFLICT DO NOTHING waits for a transaction that has an
\* uncommitted row with the same key, and inserts only if none was committed.
Insert(r) ==
  LET k == Claim(r).key
  IN /\ pc[r] = "insert"
     /\ pending[k] = None
     /\ IF Conflicts(k)
        THEN Goto(r, "reselect") /\ UNCHANGED <<level, pending>>
        ELSE /\ pending' = [pending EXCEPT ![k] =
                              [by |-> r, hash |-> Claim(r).hash,
                               status |-> Reserved, resource |-> None]]
             /\ IF level[r] < Len(Claims[r])
                THEN Goto(r, "select") /\ level' = [level EXCEPT ![r] = @ + 1]
                ELSE Goto(r, "execute") /\ UNCHANGED level
     /\ UNCHANGED <<record, lock, result, staged, applied>>

\* Committed rows are never deleted, so the row that stopped the insertion is
\* there: "idempotency key could not be resolved" is never answered.
Reselect(r) == pc[r] = "reselect" /\ Found(r)

\* The replay of the inner command is not taken over.
ResultOf_Own(r) == r

\* The answer of an outer command is built from the result of the inner one.
ResultOf(r) == IF result[r] = None THEN r ELSE result[r]

\* The business writes of the current level and complete_idempotency.
Execute(r) ==
  LET k == Claim(r).key
      resource == ResultOf(r)
  IN /\ pc[r] = "execute"
     /\ pending' = [pending EXCEPT ![k].status = Completed,
                                   ![k].resource = resource]
     /\ staged' = [staged EXCEPT ![r] = @ \cup {k}]
     /\ result' = [result EXCEPT ![r] = resource]
     /\ Return(r)
     /\ UNCHANGED <<record, lock, applied>>

\* A domain rule refuses the command, before or after the inner one.
Fail(r) ==
  /\ pc[r] \in {"select", "execute"}
  /\ Goto(r, "rollback")
  /\ UNCHANGED <<level, record, pending, lock, result, staged, applied>>

Commit(r) ==
  /\ pc[r] = "commit"
  /\ record' = [k \in Key |-> IF Owns(r, k) THEN pending[k] ELSE record[k]]
  /\ applied' = [k \in Key |-> IF k \in staged[r] THEN applied[k] \cup {r}
                               ELSE applied[k]]
  /\ pending' = [k \in Key |-> IF Owns(r, k) THEN None ELSE pending[k]]
  /\ lock' = [k \in Key |-> IF lock[k] = r THEN None ELSE lock[k]]
  /\ staged' = [staged EXCEPT ![r] = {}]
  /\ Goto(r, "done")
  /\ UNCHANGED <<level, result>>

\* The claims are kept when the transaction that made them rolls back.
Undo_KeepsClaims(r) ==
  /\ record' = [k \in Key |-> IF Owns(r, k) THEN pending[k] ELSE record[k]]
  /\ pending' = [k \in Key |-> IF Owns(r, k) THEN None ELSE pending[k]]
  /\ lock' = [k \in Key |-> IF lock[k] = r THEN None ELSE lock[k]]
  /\ staged' = [staged EXCEPT ![r] = {}]
  /\ result' = [result EXCEPT ![r] = None]
  /\ Goto(r, "failed")
  /\ UNCHANGED <<level, applied>>

\* Rolling back removes the claims, the effects and the locks together.
Undo(r) ==
  /\ pending' = [k \in Key |-> IF Owns(r, k) THEN None ELSE pending[k]]
  /\ lock' = [k \in Key |-> IF lock[k] = r THEN None ELSE lock[k]]
  /\ staged' = [staged EXCEPT ![r] = {}]
  /\ result' = [result EXCEPT ![r] = None]
  /\ Goto(r, "failed")
  /\ UNCHANGED <<level, record, applied>>

\* The refused request is answered, and its transaction is left open.
Rollback_LeftOpen(r) ==
  /\ pc[r] = "rollback"
  /\ Goto(r, "failed")
  /\ UNCHANGED <<level, record, pending, lock, result, staged, applied>>

Rollback(r) == pc[r] = "rollback" /\ Undo(r)

\* The worker or its connection dies, or the commit is refused.
Crash(r) == Active(r) /\ Undo(r)

\* Whose uncommitted row or lock r waits for.
WaitsFor(r) ==
  LET k == Claim(r).key
  IN {q \in Request :
        \/ pc[r] = "insert" /\ Owns(q, k)
        \/ /\ pc[r] \in {"select", "reselect"}
           /\ Visible(r, k) # None
           /\ lock[k] = q /\ q # r}

Waiting(r) == WaitsFor(r) # {}

\* statement_timeout, and the deadlock detector before it, may end a wait.
Timeout(r) == Waiting(r) /\ Undo(r)

Step(r) ==
  \/ Select(r) \/ Insert(r) \/ Reselect(r) \/ Execute(r)
  \/ Commit(r) \/ Rollback(r)

Next ==
  \E r \in Request : Begin(r) \/ Step(r) \/ Fail(r) \/ Crash(r) \/ Timeout(r)

Spec == Init /\ [][Next]_vars

\* A thread that serves a request keeps executing it.  Nothing makes a request
\* start, fail or crash, and nothing makes the database end a wait.
Fairness == \A r \in Request : WF_vars(Step(r))

FairSpec == Spec /\ Fairness
-----------------------------------------------------------------------------
TypeOK ==
  /\ pc \in [Request -> {"idle", "select", "insert", "reselect", "execute",
                         "commit", "rollback"} \cup Terminal]
  /\ level \in [Request -> Nat \ {0}]
  /\ \A r \in Request : level[r] <= Len(Claims[r])
  /\ record \in [Key -> Row \cup {None}]
  /\ pending \in [Key -> Row \cup {None}]
  /\ lock \in [Key -> Request \cup {None}]
  /\ result \in [Request -> Request \cup {None}]
  /\ staged \in [Request -> SUBSET Key]
  /\ applied \in [Key -> SUBSET Request]

\* However the retries of a command interleave, crash or time out, at most
\* one of them commits an effect under a key (claim_idempotency reserves the
\* key "before applying its side effect").
AppliedOnce ==
  \A k \in Key : \A r, s \in applied[k] : r = s

\* A committed record and its effect stand or fall together: no durable claim
\* is left half-complete, and no effect is durable without its record (the
\* docstring of claim_idempotency).
NoHalfComplete ==
  \A k \in Key :
    IF record[k] = None
    THEN applied[k] = {}
    ELSE /\ record[k].status = Completed
         /\ record[k].resource # None
         /\ applied[k] = {record[k].by}

\* All requests that have committed and used the same key sent the same command,
\* and their answer is the result of the same execution.
OneAnswerPerKey ==
  \A r, s \in Request :
    (pc[r] = "done" /\ pc[s] = "done" /\ Claims[r][1].key = Claims[s][1].key)
      => Claims[r][1].hash = Claims[s][1].hash /\ result[r] = result[s]

\* A committed record is never changed or removed, so what a key was answered
\* with once is what it is answered with for ever.
RecordsAreFinal ==
  [][\A k \in Key : record[k] # None => record'[k] = record[k]]_vars

\* The keys of r, in the order it claims them.
KeysOf(r) == [i \in DOMAIN Claims[r] |-> Claims[r][i].key]

\* The circles that clients can cause: keys claimed in crossing orders.
CrossedKeys(C) == ~CommonOrder({KeysOf(r) : r \in C})

\* Every request that starts is answered although no timeout ends a wait, unless
\* it waits for requests that claim their keys in crossing orders: the keys of
\* one order of claims never make a deadlock, and a request that is refused
\* keeps nobody waiting (get_session rolls back and closes its session).
EveryRequestEnds ==
  \A r \in Request :
    pc[r] = "select" ~> \/ pc[r] \in Terminal
                        \/ Stuck([q \in Request |-> WaitsFor(q)], r, CrossedKeys)

\* What ExactlyOnce knows of a key: what is committed for it.
Outcome ==
  [k \in Key |-> IF record[k] = None THEN None
                 ELSE [hash |-> record[k].hash, resource |-> record[k].resource]]

\* What ExactlyOnce knows of a request: its answer, once its transaction has ended.
Reply ==
  [r \in Request |-> CASE pc[r] = "done" -> result[r]
                       [] pc[r] = "failed" -> "refused"
                       [] OTHER -> None]

Abstract == INSTANCE ExactlyOnce WITH outcome <- Outcome, reply <- Reply

\* The protocol implements the indivisible service of ExactlyOnce.
ImplementsExactlyOnce == Abstract!Spec
=============================================================================
