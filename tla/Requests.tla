------------------------------ MODULE Requests ------------------------------
(***************************************************************************)
(* HTTP requests, as the modules about the services share them.  A thread  *)
(* serves a request in one transaction at READ COMMITTED (db/session.py):  *)
(* it goes from statement to statement, commits after the handler has      *)
(* returned, and rolls back when the handler raises an error.              *)
(***************************************************************************)
CONSTANT Request

VARIABLES
  pc,   \* pc[r]: the statement r executes next
  cmd   \* cmd[r]: what r was asked to do

Terminal == {"done", "failed"}
Active(r) == pc[r] \notin Terminal \cup {"idle"}

Goto(r, label) == pc' = [pc EXCEPT ![r] = label]

\* A check that fails raises an error.
Proceed(r, ok, label) == Goto(r, IF ok THEN label ELSE "rollback")
=============================================================================
