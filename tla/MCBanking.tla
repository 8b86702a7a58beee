----------------------------- MODULE MCBanking -----------------------------
(***************************************************************************)
(* An instance of Banking for TLC: two transactions are there, two more    *)
(* are imported by overlapping batches, and two payments are reconciled,   *)
(* one of which is a draft at first.                                       *)
(***************************************************************************)
EXTENDS Banking, TLC

CONSTANTS r1, r2, r3, savings, cash, bank, sales, t1, t2, t3, t4, p1, p2, b0, b1, b2

Open(code, ledger) == [op |-> "createAccount", code |-> code, ledger |-> ledger]
Bring(reference, ids) == [op |-> "import", reference |-> reference, ids |-> ids]
Pair(x, y) == [op |-> "reconcile", transaction |-> x, payment |-> y]
Post(x) == [op |-> "postPayment", payment |-> x]

OldBatch == b0 :> <<t1, t2>>

\* p1 is what t1, t2 and t3 paid, p2 is what t1 paid.
Pairs == {<<t1, p1>>, <<t2, p1>>, <<t3, p1>>, <<t1, p2>>}

\* New ids twice in one order and in both orders, a repeated id, an old id, a reference in use; and
\* reconciliations of old and new transactions; and a code for two ledger
\* accounts, and for one that is no asset.
AllCommands ==
  {Bring(b1, <<t3, t4>>), Bring(b2, <<t3, t4>>), Bring(b2, <<t4, t3>>), Bring(b2, <<t3, t3>>),
   Bring(b1, <<t4>>), Bring(b2, <<t3, t1>>)}
    \cup {Pair(t1, p1), Pair(t2, p1), Pair(t3, p1), Pair(t1, p2), Pair(t2, p2)}
    \cup {Post(p2)} \cup {Open(savings, x) : x \in LedgerCode}
=============================================================================
