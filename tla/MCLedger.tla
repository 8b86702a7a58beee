------------------------------ MODULE MCLedger ------------------------------
(***************************************************************************)
(* Instances of Ledger for TLC: three requests that run, on five days of   *)
(* which three have a period, or on one day when only accounts matter.     *)
(***************************************************************************)
EXTENDS Ledger, TLC

CONSTANTS r1, r2, r3, r4, cash, sales

P(first, last) == [first |-> first, last |-> last]

Post(date, source, reversalOf) ==
  [op |-> "post", date |-> date, accounts |-> {cash}, source |-> source,
   reversalOf |-> reversalOf]
Reverse(e) == [op |-> "reverse", entry |-> e]
Create(p) == [op |-> "createPeriod", period |-> p]
Close(p) == [op |-> "lockPeriod", period |-> p]
Update(field, value) ==
  [op |-> "updateAccount", account |-> cash, field |-> field, value |-> value]

OneDay == 1 .. 1
FiveDays == 1 .. 5
FirstDay == {P(1, 1)}
TwoPeriods == {P(1, 2), P(3, 3)}

\* Nothing posted, or r1's entry on the second day.
Empty == [e \in {} |-> None]
OneEntry ==
  r1 :> [period |-> P(1, 2), date |-> 2, accounts |-> {sales}, source |-> None,
         reversalOf |-> None]

SourceOfReversal == [type |-> "journal_reversal", id |-> r1]

\* Changes of the account's flags against postings and reversals; a posting by
\* hand may use the source of a reversal.
AccountCommands ==
  {Update("is_control", TRUE), Update("is_active", FALSE)}
    \cup {Reverse(e) : e \in Entry}
    \cup {Post(1, SourceOfReversal, None)}

\* Those, and periods that are created and locked while they are posted to; the
\* source may be used in two periods, whose locks keep nobody apart.
AllCommands ==
  AccountCommands
    \cup {Post(4, None, None), Post(4, SourceOfReversal, None)}
    \cup {Close(P(1, 2)), Close(P(3, 3)), Create(P(4, 4)), Create(P(4, 5))}

\* The requests that run are interchangeable, and a permutation of them keeps the
\* kind of every command: so r2, r3 and r4 may be named by their kinds' order.
Kind(c) ==
  CASE c.op = "updateAccount" -> 1
    [] c.op = "post"          -> 2
    [] c.op = "reverse"       -> 3
    [] c.op = "createPeriod"  -> 4
    [] c.op = "lockPeriod"    -> 5

NamedByKind ==
  \A pair \in {<<r2, r3>>, <<r3, r4>>, <<r2, r4>>} :
    LET c == cmd'[pair[1]]
        d == cmd'[pair[2]]
    IN  c # None /\ d # None => Kind(c) <= Kind(d)
=============================================================================
