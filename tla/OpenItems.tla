------------------------------ MODULE OpenItems ------------------------------
(***************************************************************************)
(* What the services for documents and payments promise a bookkeeper: a    *)
(* list of open items, in which every operation is one indivisible step.   *)
(* Posting a document opens an item of its total; posting a payment        *)
(* reduces the items that it allocates to, each by no more than is open at *)
(* that moment; a payment is drafted only if it could be posted right now. *)
(* Whatever changes an item changes the balance of the control account by  *)
(* the same amount, in the same step.                                      *)
(*                                                                         *)
(* Clients post to the control account by hand as well, and may say that   *)
(* what they post reverses an entry.  The ledger itself reverses an entry  *)
(* only if none has done so; the balance then loses what the entry gave    *)
(* it.  The items stay as they are.                                        *)
(***************************************************************************)
EXTENDS Integers, FiniteSetsExt

CONSTANTS
  Document,   \* documents
  Payment,    \* payments
  Total,      \* Total[d]: the total of document d, in cents
  Posted0,    \* documents that have been posted before
  Drafts0,    \* a function: payments drafted before
  None        \* absence of a value

VARIABLES
  document,   \* document[d]: "none", "draft" or "posted"
  payment,    \* payment[p]: the payment p, or None
  open,       \* open[d]: what is open of document d, 0 before it is posted
  reversed,   \* what the reversed entries are of
  manual,     \* the entries that clients posted by hand
  balance     \* the balance of the control account of the documents

vars == <<document, payment, open, reversed, manual, balance>>

Paid(row) == SumFunctionOnSet(row.allocations, Document)

\* What is left on the control account without being allocated.
Rest(row) == IF row.unapplied = "control" THEN row.amount - Paid(row) ELSE 0

Init ==
  /\ document = [d \in Document |-> IF d \in Posted0 THEN "posted" ELSE "none"]
  /\ payment = [p \in Payment |-> IF p \in DOMAIN Drafts0 THEN Drafts0[p] ELSE None]
  /\ open = [d \in Document |-> IF d \in Posted0 THEN Total[d] ELSE 0]
  /\ reversed = {} /\ manual = {}
  /\ balance = SumFunctionOnSet(Total, Posted0)

\* The items allow the payment, and the payment what it allocates.
Payable(row) ==
  /\ \A d \in Document :
       row.allocations[d] > 0 => document[d] = "posted" /\ row.allocations[d] <= open[d]
  /\ Paid(row) = row.amount \/ (Paid(row) < row.amount /\ row.unapplied # "none")

Create(d) ==
  /\ document[d] = "none"
  /\ document' = [document EXCEPT ![d] = "draft"]
  /\ UNCHANGED <<payment, open, reversed, manual, balance>>

Post(d) ==
  /\ document[d] = "draft"
  /\ document' = [document EXCEPT ![d] = "posted"]
  /\ open' = [open EXCEPT ![d] = Total[d]]
  /\ balance' = balance + Total[d]
  /\ UNCHANGED <<payment, reversed, manual>>

Draft(p) ==
  LET row == payment'[p]
  IN /\ payment[p] = None /\ row # None
     /\ payment' = [payment EXCEPT ![p] = row]
     /\ row.status = "draft" /\ Payable(row)
     /\ UNCHANGED <<document, open, reversed, manual, balance>>

Settle(p) ==
  LET row == payment[p]
  IN /\ row # None
     /\ row.status = "draft" /\ Payable(row)
     /\ payment' = [payment EXCEPT ![p].status = "posted"]
     /\ open' = [d \in Document |-> open[d] - row.allocations[d]]
     /\ balance' = balance - (Paid(row) + Rest(row))
     /\ UNCHANGED <<document, reversed, manual>>

\* The entry of source is reversed; effect is what it gave the balance.
Reverse(source, effect) ==
  /\ source \notin reversed
  /\ reversed' = reversed \cup {source}
  /\ balance' = balance - effect
  /\ UNCHANGED <<document, payment, open, manual>>

ReverseDocument(d) == document[d] = "posted" /\ Reverse(<<"document", d>>, Total[d])

ReversePayment(p) ==
  /\ payment[p] # None
  /\ payment[p].status = "posted"
  /\ Reverse(<<"payment", p>>, -(Paid(payment[p]) + Rest(payment[p])))

\* Entries that name one they reverse are not reversed in their turn.
ReverseManual(e) == e.reverses = None /\ Reverse(e.source, e.control)

Book(e) ==
  /\ manual' = manual \cup {e}
  /\ reversed' = reversed \cup ({e.reverses} \ {None})
  /\ balance' = balance + e.control
  /\ UNCHANGED <<document, payment, open>>

Next ==
  \/ \E d \in Document : Create(d) \/ Post(d) \/ ReverseDocument(d)
  \/ \E p \in Payment : Draft(p) \/ Settle(p) \/ ReversePayment(p)
  \/ \E e \in manual : ReverseManual(e)
  \/ \E e \in manual' \ manual : Book(e)

Spec == Init /\ [][Next]_vars
=============================================================================
