------------------------------- MODULE Waits -------------------------------
(***************************************************************************)
(* Waiting among the transactions of concurrent requests.  PostgreSQL ends *)
(* a circle of waits after deadlock_timeout, and any other wait after      *)
(* statement_timeout; the modules that use these operators do not count on *)
(* it.  They say which circles the order of the program's statements       *)
(* allows, and that a request ends by itself unless it waits for one.      *)
(*                                                                         *)
(* waits[r] is the set of the requests whose lock, or whose uncommitted    *)
(* row, request r waits for.                                               *)
(***************************************************************************)
EXTENDS Integers, FiniteSets

\* Every request of C waits for another one of C.
Loop(waits, C) == C # {} /\ \A r \in C : waits[r] \cap C # {}

\* They wait for one another in turn: no part of C is a loop by itself.
Circle(waits, C) ==
  Loop(waits, C) /\ \A D \in (SUBSET C) \ {C} : ~Loop(waits, D)

\* r waits for a request of C, perhaps by way of others.
Awaits(waits, r, C) ==
  \A S \in SUBSET DOMAIN waits :
    (r \in S /\ \A q \in S : waits[q] \subseteq S) => S \cap C # {}

\* r never ends by itself, for it is in a circle of the given kind or behind one.
Stuck(waits, r, Known(_)) ==
  \E C \in SUBSET DOMAIN waits :
    Circle(waits, C) /\ Known(C) /\ Awaits(waits, r, C)

\* The lists take what they have in common in one order.
CommonOrder(lists) ==
  LET all == UNION {{l[i] : i \in DOMAIN l} : l \in lists}
  IN \E place \in [all -> 1 .. Cardinality(all)] :
       \A l \in lists : \A i, j \in DOMAIN l : i < j => place[l[i]] < place[l[j]]
=============================================================================
