--------------------------- MODULE MCAccountTree ---------------------------
(***************************************************************************)
(* Instances of AccountTree for TLC: the account sub is below top, so that *)
(* two moves can close a circle of three with side; a third request moves  *)
(* other into the circle, and two may create extra.                        *)
(***************************************************************************)
EXTENDS AccountTree, TLC

CONSTANTS r1, r2, r3, top, sub, side, other, extra

Move(x, y) == [op |-> "move", account |-> x, parent |-> y]
New(x, y) == [op |-> "create", account |-> x, parent |-> y]

Chart == top :> None @@ sub :> top @@ side :> None @@ other :> None

\* Moves that close circles together, one that walks into a circle, one to the
\* root, and competing creations.
AllCommands ==
  {Move(side, sub), Move(top, side), Move(side, top), Move(other, side),
   Move(sub, None), New(extra, side), New(extra, None)}
=============================================================================
