---------------------------- MODULE MCSettlement ----------------------------
(***************************************************************************)
(* Instances of Settlement for TLC: two posted documents of 2 and 1 cents, *)
(* a new one of 1 cent, and payments that together ask for more than is    *)
(* outstanding.                                                            *)
(***************************************************************************)
EXTENDS Settlement, TLC

CONSTANTS r1, r2, r3, r4, r5

Totals == 1 :> 2 @@ 2 :> 1 @@ 3 :> 1

\* The order of the documents in a payload.
Ascending == 1 :> 1 @@ 2 :> 2 @@ 3 :> 3
Descending == 1 :> 3 @@ 2 :> 2 @@ 3 :> 1

Parts(first, second, third) == 1 :> first @@ 2 :> second @@ 3 :> third

Pay(amount, parts, unapplied, order) ==
  [op |-> "createPayment", amount |-> amount, allocations |-> parts,
   unapplied |-> unapplied, order |-> order]

Create(d) == [op |-> "createDocument", document |-> d]
Post(d) == [op |-> "postDocument", document |-> d]
Settle(p) == [op |-> "postPayment", payment |-> p]
ReverseEntry(source) == [op |-> "reverse", entry |-> source]
EnterByHand(control, source) ==
  [op |-> "postEntry", control |-> control, entry |-> source]

Draft(amount, parts, unapplied) ==
  [status |-> "draft", amount |-> amount, allocations |-> parts, unapplied |-> unapplied]

\* Valid drafts that together ask for more than both documents have left, with
\* money to spare that goes elsewhere, or stays on the control account.
TwoDrafts ==
  r1 :> Draft(4, Parts(2, 1, 0), "other") @@ r2 :> Draft(3, Parts(1, 1, 0), "control")

\* Payments that list the documents in either order, one of them for too much, and
\* one for the new document.
Payments ==
  {Pay(2, Parts(1, 1, 0), "none", Descending), Pay(1, Parts(1, 1, 0), "other", Ascending),
   Pay(1, Parts(0, 0, 1), "none", Ascending)}

\* Clients post to the control account by hand, once naming the entry of a
\* document as the one reversed, and reverse entries of every kind.
Entries ==
  {EnterByHand(2, None), EnterByHand(-2, DocumentRow(1))}
    \cup {ReverseEntry(source) : source \in
            {DocumentRow(1), PaymentOf(r1), ByHand(r3), Reversal(DocumentRow(1))}}

\* The drafts are posted while another payment locks the documents in the
\* opposite order, a third document is created, posted and paid for, and the
\* ledger's entries are reversed.
AllCommands ==
  {Create(3), Post(3)} \cup {Settle(p) : p \in Payment} \cup Payments \cup Entries
=============================================================================
