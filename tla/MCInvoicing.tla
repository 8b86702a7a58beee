---------------------------- MODULE MCInvoicing ----------------------------
(***************************************************************************)
(* An instance of Invoicing for TLC: one tax rate and one partner to start *)
(* with, documents whose lines round up, down and to nothing, and one with *)
(* a long number.                                                          *)
(***************************************************************************)
EXTENDS Invoicing, TLC

CONSTANTS vat, acme, other, n1, n2

ThreeDays == 1 .. 3

Characters == n1 :> 10 @@ n2 :> 90

Standard(first, last) ==
  [type |-> "vat", code |-> vat, rate |-> 700, first |-> first, last |-> last]

OldRate == {Standard(1, 1)}
OldPartner == acme :> "both"

AddRate(x) == [op |-> "createRate", rule |-> x]
AddPartner(p, type) == [op |-> "createPartner", partner |-> p, type |-> type]
Update(p) == [op |-> "updatePartner", partner |-> p]
Archive(p) == [op |-> "archivePartner", partner |-> p]
Draw(d, p, day, lines) ==
  [op |-> "createDocument", document |-> d, partner |-> p, issued |-> day, lines |-> lines]
Post(d) == [op |-> "postDocument", document |-> d]
Pay(type, p) == [op |-> "postPayment", type |-> type, partner |-> p]

Sold(quantity, price, rate) == [quantity |-> quantity, price |-> price, rate |-> rate]

Invoice(n) == <<"sales_invoice", n>>
Bill(n) == <<"vendor_bill", n>>

\* 1.5 pieces for 0.33, which makes 0.495 and rounds up, with a tax of 0.035
\* that does too; a line that rounds to nothing; and both on one invoice.
Half == Sold(1500, 33, 700)
Nothing == Sold(499, 1, 700)

AllCommands ==
  {AddRate(Standard(2, 3)), AddRate(Standard(3, None))}
    \cup {AddPartner(other, "vendor"), Update(acme), Archive(acme)}
    \cup {Draw(Invoice(n1), acme, 1, <<Half, Nothing>>),
          Draw(Invoice(n1), acme, 3, <<Half, Sold(1, 499, 0)>>),
          Draw(Bill(n1), acme, 1, <<Nothing, Nothing>>),
          Draw(Bill(n2), other, 1, <<Half>>)}
    \cup {Post(Invoice(n1)), Post(Bill(n1)), Post(Bill(n2))}
    \cup {Pay("sales_invoice", acme)}
=============================================================================
