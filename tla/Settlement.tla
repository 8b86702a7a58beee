----------------------------- MODULE Settlement -----------------------------
(***************************************************************************)
(* Invoices or bills and the payments that settle them                     *)
(* (app/domains/documents/service.py, app/domains/payments/service.py),    *)
(* posted to the ledger by requests that run concurrently.  One document   *)
(* type and the payment type that settles it are modelled; the other pair  *)
(* differs in the side of the ledger lines only.                           *)
(*                                                                         *)
(* A request is one transaction; an action is one statement that locks a   *)
(* document or a payment (SELECT ... FOR UPDATE), with the checks that the *)
(* code makes on the row while it holds the lock.  A document's            *)
(* outstanding balance is its total less what posted payments allocate to  *)
(* it; it is read after the document's lock is taken, and again when the   *)
(* payment is posted, because drafts do not reserve anything.              *)
(*                                                                         *)
(* The ledger keeps the entries, each with what posted it and its effect   *)
(* on the control account of the documents: the entries of documents and   *)
(* payments, those of clients that post by hand (POST /journal-entries),   *)
(* to the control account too, and their reversals.  How an entry is       *)
(* posted is in Ledger; here post_journal_entry either inserts the entry   *)
(* or refuses it.  Rules on data that never changes (partner, currency,    *)
(* number in use), and entries by hand that carry the source of a document *)
(* and so stand in the way of its own, are among the reasons for which     *)
(* Refuse ends a request.                                                  *)
(***************************************************************************)
EXTENDS Requests, Waits, Integers, FiniteSetsExt

CONSTANTS
  Document,   \* documents; a number stands for the order of their ids
  Total,      \* Total[d]: the total of document d, in cents
  Commands,   \* what clients may ask for
  Posted0,    \* documents that have been posted before
  Drafts0,    \* a function: the requests served before, with their payments
  None        \* absence of a value

Payment == Request   \* the payment that r creates is called r

\* Amounts by document, 0 where nothing is allocated.
Allocation == [Document -> Nat]

\* Where the rest of a payment goes: nowhere, to some other account, or to the
\* control account of the documents, which nothing forbids.
Unapplied == {"none", "other", "control"}

\* What an entry is of: a document, a payment, what r posts by hand, or the
\* reversal of one of these by reverse_journal_entry.
DocumentRow(d) == <<"document", d>>
PaymentOf(p) == <<"payment", p>>
ByHand(r) == <<"hand", r>>
Reversal(source) == <<"reversal", source>>
Posting == {DocumentRow(d) : d \in Document} \cup {PaymentOf(p) : p \in Payment}
Hand == {ByHand(r) : r \in Request}
Source == Posting \cup Hand \cup {Reversal(source) : source \in Posting \cup Hand}

CreateDocument == [op : {"createDocument"}, document : Document]
PostDocument == [op : {"postDocument"}, document : Document]
\* order[d] is the position of document d in the payload.
CreatePayment == [op : {"createPayment"}, amount : Nat, allocations : Allocation,
                  unapplied : Unapplied, order : [Document -> Nat]]
PostPayment == [op : {"postPayment"}, payment : Payment]
\* POST /journal-entries/{id}/reverse.
Reverse == [op : {"reverse"}, entry : Source]
\* POST /journal-entries: its lines on the control account add up to control;
\* it may name an entry as the one it reverses (reversal_of_id).
PostEntry == [op : {"postEntry"}, control : Int, entry : Source \cup {None}]

Command ==
  CreateDocument \cup PostDocument \cup CreatePayment \cup PostPayment
    \cup Reverse \cup PostEntry

PaymentRow == [status : {"draft", "posted"}, amount : Nat,
               allocations : Allocation, unapplied : Unapplied]

SumOf(allocations) == SumFunctionOnSet(allocations, Document)

\* Allocations beyond the amount of the payment are let through.
Fits_Unapplied(row) == SumOf(row.allocations) = row.amount \/ row.unapplied # "none"

\* The allocations fit in the payment; a remainder needs an unapplied account.
Fits(row) ==
  LET sum == SumOf(row.allocations)
  IN sum = row.amount \/ (sum < row.amount /\ row.unapplied # "none")

ASSUME DocumentAssumption ==
  Document \subseteq Nat /\ IsFiniteSet(Document) /\ Total \in [Document -> Nat]
ASSUME CommandsAssumption == Commands \subseteq Command /\ Posted0 \subseteq Document
ASSUME DraftsAssumption ==
  \A p \in DOMAIN Drafts0 :
    /\ p \in Payment /\ Drafts0[p] \in PaymentRow /\ Drafts0[p].status = "draft"
    /\ \A d \in Document : Drafts0[p].allocations[d] > 0 => d \in Posted0
    /\ Fits(Drafts0[p])
ASSUME NoneAssumption ==
  /\ None \notin Document \cup Payment \cup Command
  /\ None \notin PaymentRow \cup Source

VARIABLES
  todo,       \* todo[r]: documents of the payment that r has yet to lock
  lock,       \* lock[x]: the request that holds the row lock of x
  document,   \* document[d]: "none", "draft" or "posted"
  payment,    \* payment[p]: the row of payment p, or None
  ledger      \* posted entries, with their effect on the control account

vars == <<pc, cmd, todo, lock, document, payment, ledger>>
rows == <<document, payment, ledger>>

\* Rows that can be locked: documents, payments, and the entries of sources.
EntryOf(source) == <<"entry", source>>
Locked == Posting \cup {EntryOf(source) : source \in Source}

Init ==
  /\ pc = [r \in Request |-> IF r \in DOMAIN Drafts0 THEN "done" ELSE "idle"]
  /\ cmd = [r \in Request |-> None]
  /\ todo = [r \in Request |-> {}]
  /\ lock = [x \in Locked |-> None]
  /\ document = [d \in Document |-> IF d \in Posted0 THEN "posted" ELSE "none"]
  /\ payment = [p \in Payment |-> IF p \in DOMAIN Drafts0 THEN Drafts0[p] ELSE None]
  /\ ledger = {[by |-> None, source |-> DocumentRow(d), reverses |-> None,
                control |-> Total[d]] : d \in Posted0}

Free(r, x) == lock[x] \in {None, r}
Acquire(r, x) == Free(r, x) /\ lock' = [lock EXCEPT ![x] = r]

AllocatedBy(allocations) == {d \in Document : allocations[d] > 0}

Entered(source) == \E e \in ledger : e.source = source

\* The sources whose entry some entry names as the one it reverses.
Reversed == {source \in Source : \E e \in ledger : e.reverses = source}

\* The entry of source reverses none, and none reverses it.
Reversible(source) ==
  source \notin Reversed /\ \A e \in ledger : e.source = source => e.reverses = None

\* A client names only what it has seen committed.
Known(c) ==
  CASE c.op = "postDocument" -> document[c.document] # "none"
    [] c.op = "postPayment"  -> payment[c.payment] # None
    [] c.op = "reverse"      -> Entered(c.entry)
    [] c.op = "postEntry"    -> c.entry = None \/ Entered(c.entry)
    [] OTHER                 -> TRUE

Begin(r) ==
  /\ pc[r] = "idle"
  /\ \E c \in Commands :
       /\ Known(c)
       /\ cmd' = [cmd EXCEPT ![r] = c]
       /\ todo' = [todo EXCEPT ![r] = IF c.op = "createPayment"
                                      THEN AllocatedBy(c.allocations) ELSE {}]
       /\ Goto(r, CASE c.op = "createDocument" -> "create"
                    [] c.op = "postDocument"   -> "document"
                    [] c.op = "createPayment"  -> "allocate"
                    [] c.op = "postPayment"    -> "payment"
                    [] c.op = "reverse"        -> "entry"
                    [] c.op = "postEntry"      ->
                         IF c.entry = None THEN "commit" ELSE "named")
  /\ UNCHANGED <<lock, rows>>

\* create_document: the number must be new; the unique index makes a second
\* insertion wait for the first.
InsertDocument(r) ==
  /\ pc[r] = "create"
  /\ Acquire(r, DocumentRow(cmd[r].document))
  /\ Proceed(r, document[cmd[r].document] = "none", "commit")
  /\ UNCHANGED <<cmd, todo, rows>>

\* post_document: the document is locked and must be a draft.
LockDocument(r) ==
  /\ pc[r] = "document"
  /\ Acquire(r, DocumentRow(cmd[r].document))
  /\ Proceed(r, document[cmd[r].document] = "draft", "commit")
  /\ UNCHANGED <<cmd, todo, rows>>

\* post_payment: the payment is locked, must be a draft, and its persisted
\* allocations are checked again.
LockPayment(r) ==
  LET p == cmd[r].payment
  IN /\ pc[r] = "payment"
     /\ Acquire(r, PaymentOf(p))
     /\ Proceed(r, payment[p].status = "draft", "allocate")
     /\ todo' = [todo EXCEPT ![r] = AllocatedBy(payment[p].allocations)]
     /\ UNCHANGED <<cmd, rows>>

\* What is being allocated: by the payload, or by the persisted payment.
Allocations(r) ==
  IF cmd[r].op = "createPayment" THEN cmd[r].allocations
  ELSE payment[cmd[r].payment].allocations

\* Postings take the documents in any order.
Before_AnyOrder(r, d, e) ==
  IF cmd[r].op = "createPayment" THEN cmd[r].order[d] <= cmd[r].order[e] ELSE TRUE

\* create_payment takes the documents in the order of the payload,
\* post_payment in the order of their ids.
Before(r, d, e) ==
  IF cmd[r].op = "createPayment" THEN cmd[r].order[d] <= cmd[r].order[e] ELSE d <= e

NextDocuments(r) == {d \in todo[r] : \A e \in todo[r] : Before(r, d, e)}

PostedPayments == {p \in Payment : payment[p] # None /\ payment[p].status = "posted"}

AllocatedIn(payments, d) ==
  SumFunctionOnSet([p \in payments |-> payment[p].allocations[d]], payments)

\* Drafts count too.
Allocated_CountsDrafts(d) == AllocatedIn({p \in Payment : payment[p] # None}, d)

\* _posted_allocated.
Allocated(d) == AllocatedIn(PostedPayments, d)

Outstanding(d) == Total[d] - Allocated(d)

\* The documents are read without a lock.
Allocate_Unlocked(r) ==
  \E d \in NextDocuments(r) :
    /\ pc[r] = "allocate"
    /\ todo' = [todo EXCEPT ![r] = @ \ {d}]
    /\ Proceed(r, document[d] = "posted" /\ Allocations(r)[d] <= Outstanding(d), "allocate")
    /\ UNCHANGED <<cmd, lock, rows>>

\* create_payment reads the documents without a lock, as nothing is posted yet.
Allocate_PostingOnly(r) ==
  \E d \in NextDocuments(r) :
    /\ pc[r] = "allocate"
    /\ IF cmd[r].op = "postPayment" THEN Acquire(r, DocumentRow(d)) ELSE UNCHANGED lock
    /\ todo' = [todo EXCEPT ![r] = @ \ {d}]
    /\ Proceed(r, document[d] = "posted" /\ Allocations(r)[d] <= Outstanding(d), "allocate")
    /\ UNCHANGED <<cmd, rows>>

\* One turn of the loop of _validate_allocations or
\* _validate_persisted_allocations.
Allocate(r) ==
  \E d \in NextDocuments(r) :
    /\ pc[r] = "allocate"
    /\ Acquire(r, DocumentRow(d))
    /\ todo' = [todo EXCEPT ![r] = @ \ {d}]
    /\ Proceed(r, document[d] = "posted" /\ Allocations(r)[d] <= Outstanding(d), "allocate")
    /\ UNCHANGED <<cmd, rows>>

\* After the loop.
CheckAmount(r) ==
  /\ pc[r] = "allocate" /\ todo[r] = {}
  /\ Proceed(r, Fits(IF cmd[r].op = "createPayment" THEN cmd[r]
                     ELSE payment[cmd[r].payment]), "commit")
  /\ UNCHANGED <<cmd, todo, lock, rows>>

\* Reversals can be reversed.
LockEntry_OfReversal(r) ==
  /\ pc[r] = "entry"
  /\ Acquire(r, EntryOf(cmd[r].entry))
  /\ Proceed(r, cmd[r].entry \notin Reversed, "commit")
  /\ UNCHANGED <<cmd, todo, rows>>

\* reverse_journal_entry: the entry is locked; it must not be a reversal, nor
\* have been reversed.
LockEntry(r) ==
  /\ pc[r] = "entry"
  /\ Acquire(r, EntryOf(cmd[r].entry))
  /\ Proceed(r, Reversible(cmd[r].entry), "commit")
  /\ UNCHANGED <<cmd, todo, rows>>

\* post_journal_entry locks the entry that a client names as the one reversed.
LockNamed(r) ==
  /\ pc[r] = "named"
  /\ Acquire(r, EntryOf(cmd[r].entry))
  /\ Goto(r, "commit")
  /\ UNCHANGED <<cmd, todo, rows>>

Finish(r, label) ==
  /\ lock' = [x \in Locked |-> IF lock[x] = r THEN None ELSE lock[x]]
  /\ Goto(r, label)
  /\ UNCHANGED <<cmd, todo>>

\* post_journal_entry, in the same transaction: one entry per source.
Enter(r, source, reverses, control) ==
  /\ ~Entered(source)
  /\ ledger' = ledger \cup {[by |-> r, source |-> source, reverses |-> reverses,
                            control |-> control]}

CommitDocument(r) ==
  /\ cmd[r].op = "createDocument"
  /\ document' = [document EXCEPT ![cmd[r].document] = "draft"]
  /\ UNCHANGED <<payment, ledger>>

CommitPostedDocument(r) ==
  LET d == cmd[r].document
  IN /\ cmd[r].op = "postDocument"
     /\ document' = [document EXCEPT ![d] = "posted"]
     /\ Enter(r, DocumentRow(d), None, Total[d])
     /\ UNCHANGED payment

CommitPayment(r) ==
  /\ cmd[r].op = "createPayment"
  /\ payment' = [payment EXCEPT ![r] =
                   [status |-> "draft", amount |-> cmd[r].amount,
                    allocations |-> cmd[r].allocations, unapplied |-> cmd[r].unapplied]]
  /\ UNCHANGED <<document, ledger>>

\* The remainder always goes to the control account.
ControlEffect_WholeAmount(p) == -payment[p].amount

\* What is left of a payment, if it goes to the control account.
OnAccount(row) ==
  IF row.unapplied = "control" THEN row.amount - SumOf(row.allocations) ELSE 0

\* _posting_command: the lines of a payment on the documents' control account.
ControlEffect(p) == -(SumOf(payment[p].allocations) + OnAccount(payment[p]))

CommitPostedPayment(r) ==
  LET p == cmd[r].payment
  IN /\ cmd[r].op = "postPayment"
     /\ payment' = [payment EXCEPT ![p].status = "posted"]
     /\ Enter(r, PaymentOf(p), None, ControlEffect(p))
     /\ UNCHANGED document

\* reverse_journal_entry knows nothing of documents and payments.
CommitReversal(r) ==
  \E e \in ledger :
    /\ cmd[r].op = "reverse"
    /\ e.source = cmd[r].entry
    /\ Enter(r, Reversal(e.source), e.source, -e.control)
    /\ UNCHANGED <<document, payment>>

\* Nor does a client that posts by hand have to.
CommitEntry(r) ==
  /\ cmd[r].op = "postEntry"
  /\ Enter(r, ByHand(r), cmd[r].entry, cmd[r].control)
  /\ UNCHANGED <<document, payment>>

Commit(r) ==
  /\ pc[r] = "commit"
  /\ \/ CommitDocument(r) \/ CommitPostedDocument(r)
     \/ CommitPayment(r) \/ CommitPostedPayment(r)
     \/ CommitReversal(r) \/ CommitEntry(r)
  /\ Finish(r, "done")

Undo(r) == Finish(r, "failed") /\ UNCHANGED rows

Rollback(r) == pc[r] = "rollback" /\ Undo(r)

\* A rule on other data refuses the command (the ledger's rules are among
\* them), the worker dies, or the commit fails.
Refuse(r) == Active(r) /\ Undo(r)

\* The rows that r is about to lock.
Wanted(r) ==
  CASE pc[r] \in {"create", "document"} -> {DocumentRow(cmd[r].document)}
    [] pc[r] = "payment"               -> {PaymentOf(cmd[r].payment)}
    [] pc[r] \in {"entry", "named"}    -> {EntryOf(cmd[r].entry)}
    [] pc[r] = "allocate"              -> {DocumentRow(d) : d \in NextDocuments(r)}
    [] OTHER                           -> {}

WaitsFor(r) == {lock[x] : x \in Wanted(r)} \ {None, r}

Waiting(r) == WaitsFor(r) # {}

\* The deadlock detector and statement_timeout end a wait.
Timeout(r) == Waiting(r) /\ Undo(r)

Step(r) ==
  \/ InsertDocument(r) \/ LockDocument(r) \/ LockPayment(r) \/ Allocate(r)
  \/ CheckAmount(r) \/ LockEntry(r) \/ LockNamed(r) \/ Commit(r) \/ Rollback(r)

Next == \E r \in Request : Begin(r) \/ Step(r) \/ Refuse(r) \/ Timeout(r)

Spec == Init /\ [][Next]_vars

\* Threads keep executing the requests they serve.
Fairness == \A r \in Request : WF_vars(Step(r))

FairSpec == Spec /\ Fairness
-----------------------------------------------------------------------------
\* However drafts and postings of payments interleave, no document is settled
\* for more than its total ("allocation exceeds outstanding document balance").
NeverOverAllocated == \A d \in Document : Allocated(d) <= Total[d]

\* Money is allocated only to documents that are posted, and a posted payment
\* covers what it allocates.
AllocationsAreCovered ==
  /\ \A d \in Document : Allocated(d) > 0 => document[d] = "posted"
  /\ \A p \in PostedPayments : SumOf(payment[p].allocations) <= payment[p].amount

EntriesOf(source) == {e \in ledger : e.source = source}

\* The ledger's part of a posted document or payment: one entry, of the amount.
EnteredOnce(source, control) ==
  \E e \in EntriesOf(source) : e.control = control /\ EntriesOf(source) = {e}

\* A document or a payment is posted exactly when the ledger has the entry that
\* it posted, one entry, for the amount posted (docs/ARCHITECTURE.md, invariant
\* 4), whatever clients post by hand.
PostedIffEntered ==
  /\ \A d \in Document :
       IF document[d] = "posted" THEN EnteredOnce(DocumentRow(d), Total[d])
       ELSE ~Entered(DocumentRow(d))
  /\ \A p \in Payment :
       IF p \in PostedPayments
       THEN EnteredOnce(PaymentOf(p),
                        -(SumOf(payment[p].allocations) + OnAccount(payment[p])))
       ELSE ~Entered(PaymentOf(p))

PostedDocuments == {d \in Document : document[d] = "posted"}

Receivable ==
  SumFunctionOnSet([d \in PostedDocuments |-> Outstanding(d)], PostedDocuments)

\* What posted payments have left on the control account and not allocated.
Unallocated ==
  SumFunctionOnSet([p \in PostedPayments |-> OnAccount(payment[p])], PostedPayments)

\* The balance of the control account as entries make it.
Balance(entries) == SumFunctionOnSet([e \in entries |-> e.control], entries)

\* The entries that documents and payments posted add up to the open balance of
\* the documents, less what payments left there unallocated, at any time and
\* whatever competes for the documents.
LedgerExplainsReceivable ==
  Balance({e \in ledger : e.source \in Posting}) = Receivable - Unallocated

HandEntries == {e \in ledger : e.source \in Hand}

\* The entries that reverse_journal_entry may reverse and has reversed.
ReversedEntries == {e \in ledger : e.reverses = None /\ Entered(Reversal(e.source))}

\* The control account differs from the open balance of the documents by what
\* payments left there unallocated, by what clients posted to it by hand, and by
\* the reversed entries, each taken off once: reverse_journal_entry undoes no
\* reversal, and nothing twice, and no entry that competes with a reversal loses
\* its effect.  This is what is true of "reports can be reproduced from the
\* ledger" (README.md:62): the document of a reversed entry stays posted and open.
DriftIsExplained ==
  Balance(ledger)
    = Receivable - Unallocated + Balance(HandEntries) - Balance(ReversedEntries)

Items ==
  INSTANCE OpenItems WITH
    open <- [d \in Document |-> IF document[d] = "posted" THEN Outstanding(d) ELSE 0],
    reversed <- Reversed, manual <- HandEntries, balance <- Balance(ledger)

\* Requests that lock documents, payments and entries one after the other keep
\* the list of open items as if each was served in one step: what was open when
\* it was checked is open when the transaction commits, and what was not reversed
\* is not reversed by another entry meanwhile.
ImplementsOpenItems == Items!Spec

\* Payments lock one another out in a circle only when one of them is created
\* with its documents listed against the order of their ids.
ListedBackwards(C) ==
  \E r \in C : /\ cmd[r].op = "createPayment"
              /\ \E d, e \in AllocatedBy(cmd[r].allocations) :
                   d < e /\ cmd[r].order[e] < cmd[r].order[d]

\* Every request that starts ends by itself, whatever it locks, unless it is
\* caught in such a circle: post_payment takes documents in one order.
EveryRequestEnds ==
  \A r \in Request :
    Active(r) ~> \/ pc[r] \in Terminal
                 \/ Stuck([q \in Request |-> WaitsFor(q)], r, ListedBackwards)
=============================================================================
