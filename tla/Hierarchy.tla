----------------------------- MODULE Hierarchy ------------------------------
(***************************************************************************)
(* What the chart of accounts promises of its hierarchy, whatever the      *)
(* requests to create and to move accounts do to each other (AccountTree). *)
(***************************************************************************)
EXTENDS Requests

VARIABLES
  created,   \* the accounts that are committed
  parent     \* parent[a]: the committed parent of a

\* A set of accounts whose parents are all in it goes round in a circle.
Circular(accounts, up) == accounts # {} /\ \A a \in accounts : up[a] \in accounts

\* Two accounts never end up as each other's parent, not even when they are
\* moved at the same time: the second move waits for the first, or both for
\* each other, because moving an account locks it and naming it as a parent
\* shares it.
NoMutualParents == \A a, b \in created : parent[a] = b => parent[b] # a

\* However creations of the same code interleave, one of them succeeds
\* ("account code already exists in this organization").
CreatedOnce ==
  \A r, s \in Request :
    (/\ pc[r] = "done" /\ pc[s] = "done"
     /\ cmd[r].op = "create" /\ cmd[s].op = "create"
     /\ cmd[r].account = cmd[s].account) => r = s

\* No account is above itself ("account hierarchy cycle is not allowed").
Acyclic == \A accounts \in SUBSET created : ~Circular(accounts, parent)
=============================================================================
