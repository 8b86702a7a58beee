------------------------- MODULE SettlementProofs --------------------------
(***************************************************************************)
(* Money is safe for every set of requests, documents, payments and        *)
(* amounts: no document is settled for more than its total, the ledger has *)
(* the entry of every document and payment that is posted and of no other, *)
(* these entries add up to what is outstanding, and entries by hand and    *)
(* reversals account for the rest of the control account.                  *)
(*                                                                         *)
(* A payment that is being posted has locked every document that it has    *)
(* checked.  Whoever posts another payment for such a document has to lock *)
(* it too, so what r has found outstanding stays so (Settles, Drafts).     *)
(*                                                                         *)
(* For the same reason a commit is one step of the list of open items that *)
(* OpenItems specifies (Refinement).                                       *)
(***************************************************************************)
EXTENDS Settlement, SumTheorems, TLAPS

Label == {"idle", "create", "document", "payment", "allocate", "entry", "named", "commit",
          "rollback", "done", "failed"}

LedgerEntry ==
  [by : Request \cup {None}, source : Source, reverses : Source \cup {None}, control : Int]

TypeOK ==
  /\ pc \in [Request -> Label]
  /\ cmd \in [Request -> Command \cup {None}]
  /\ todo \in [Request -> SUBSET Document]
  /\ lock \in [Locked -> Request \cup {None}]
  /\ document \in [Document -> {"none", "draft", "posted"}]
  /\ payment \in [Payment -> PaymentRow \cup {None}]
  /\ ledger \subseteq LedgerEntry

\* There are finitely many rows, so that they can be added up.
Finite == IsFiniteSet(PostedPayments) /\ IsFiniteSet(ledger)

\* Nothing has two entries, and what an entry reverses has been entered; the
\* reversal of something reverses just that.
Linked ==
  /\ \A e, f \in ledger : e.source = f.source => e = f
  /\ \A e \in ledger :
       /\ e.reverses # None => Entered(e.reverses)
       /\ \A s \in Source : e.source = Reversal(s) => e.reverses = s

\* A payment is there when the request that creates it has committed.
PaymentsAreDone == \A p \in Payment : payment[p] # None => pc[p] = "done"

Holds(r, x) == lock[x] = r
Committing(r, op) == pc[r] = "commit" /\ cmd[r].op = op

\* The statement that r executes is one of its command.
RightCommand(r) ==
  /\ Active(r) => cmd[r] \in Command
  /\ pc[r] = "create" => cmd[r].op = "createDocument"
  /\ pc[r] = "document" => cmd[r].op = "postDocument"
  /\ pc[r] = "payment" => cmd[r].op = "postPayment"
  /\ pc[r] = "allocate" => cmd[r].op \in {"createPayment", "postPayment"}
  /\ pc[r] = "entry" => cmd[r].op = "reverse"
  /\ pc[r] = "named" => cmd[r].op = "postEntry" /\ cmd[r].entry # None

Creates(r) ==
  Committing(r, "createDocument") =>
    Holds(r, DocumentRow(cmd[r].document)) /\ document[cmd[r].document] = "none"

Posts(r) ==
  Committing(r, "postDocument") =>
    Holds(r, DocumentRow(cmd[r].document)) /\ document[cmd[r].document] = "draft"

\* d is locked, posted, and has enough outstanding for the allocation.
Covered(r, d, allocations) ==
  /\ Holds(r, DocumentRow(d))
  /\ document[d] = "posted"
  /\ allocations[d] <= Outstanding(d)

Settles(r) ==
  LET p == cmd[r].payment
  IN /\ Active(r) /\ cmd[r].op = "postPayment" => payment[p] # None
     /\ pc[r] \in {"allocate", "commit"} /\ cmd[r].op = "postPayment" =>
          /\ Holds(r, PaymentOf(p))
          /\ payment[p].status = "draft"
          /\ \A d \in Document :
               payment[p].allocations[d] > 0 =>
                 d \in todo[r] \/ Covered(r, d, payment[p].allocations)
     /\ Committing(r, "postPayment") => todo[r] = {} /\ Fits(payment[p])

Drafts(r) ==
  /\ pc[r] \in {"allocate", "commit"} /\ cmd[r].op = "createPayment" =>
       \A d \in Document :
         cmd[r].allocations[d] > 0 => d \in todo[r] \/ Covered(r, d, cmd[r].allocations)
  /\ Committing(r, "createPayment") => todo[r] = {} /\ Fits(cmd[r])

Reverses(r) ==
  /\ Active(r) /\ cmd[r].op \in {"reverse", "postEntry"} =>
       cmd[r].entry = None \/ Entered(cmd[r].entry)
  /\ Committing(r, "reverse") =>
       Holds(r, EntryOf(cmd[r].entry)) /\ Reversible(cmd[r].entry)
  /\ Committing(r, "postEntry") =>
       cmd[r].entry = None \/ Holds(r, EntryOf(cmd[r].entry))

Ready(r) ==
  /\ RightCommand(r)
  /\ Creates(r)
  /\ Posts(r)
  /\ Settles(r)
  /\ Drafts(r)
  /\ Reverses(r)

IInv ==
  /\ TypeOK
  /\ Finite
  /\ PaymentsAreDone
  /\ NeverOverAllocated
  /\ AllocationsAreCovered
  /\ PostedIffEntered
  /\ Linked
  /\ LedgerExplainsReceivable
  /\ DriftIsExplained
  /\ \A r \in Request : Ready(r)

-----------------------------------------------------------------------------
(* Types.                                                                  *)

\* What the commands carry.
LEMMA FieldType ==
  ASSUME NEW c \in Command
  PROVE  /\ c.op = "createDocument" => c.document \in Document
         /\ c.op = "postDocument" => c.document \in Document
         /\ c.op = "createPayment" => /\ c.amount \in Nat /\ c.allocations \in Allocation
                                      /\ c.unapplied \in Unapplied
         /\ c.op = "postPayment" => c.payment \in Payment
         /\ c.op = "reverse" => c.entry \in Source
         /\ c.op = "postEntry" => c.entry \in Source \cup {None} /\ c.control \in Int
BY DEF Command, CreateDocument, PostDocument, CreatePayment, PostPayment, Reverse, PostEntry

LEMMA RowType ==
  /\ \A d \in Document : DocumentRow(d) \in Posting /\ DocumentRow(d) \in Locked
  /\ \A p \in Payment : PaymentOf(p) \in Posting /\ PaymentOf(p) \in Locked
  /\ \A s \in Source : EntryOf(s) \in Locked
  /\ \A d \in Document, e \in Document : DocumentRow(d) = DocumentRow(e) => d = e
  /\ \A d \in Document, p \in Payment : DocumentRow(d) # PaymentOf(p)
  /\ \A p \in Payment, q \in Payment : PaymentOf(p) = PaymentOf(q) => p = q
  /\ \A s \in Posting : (\E d \in Document : s = DocumentRow(d))
                         \/ (\E p \in Payment : s = PaymentOf(p))
BY DEF Posting, Locked, DocumentRow, PaymentOf

\* An entry is of a document or payment, by hand, or a reversal.
LEMMA SourceType ==
  /\ Posting \subseteq Source /\ Hand \subseteq Source
  /\ \A s \in Posting \cup Hand : Reversal(s) \in Source
  /\ \A s \in Posting : s \notin Hand
  /\ \A s \in Source : Reversal(s) \notin Posting \cup Hand
  /\ \A s, t \in Source : Reversal(s) = Reversal(t) => s = t
  /\ \A r \in Request : ByHand(r) \in Hand
  /\ None \notin Source
  /\ \A s \in Source : s \in Posting \cup Hand \/ \E t \in Source : s = Reversal(t)
BY NoneAssumption DEF Source, Posting, Hand, DocumentRow, PaymentOf, ByHand, Reversal

\* None is not a command, nor a payment; it is no request either.
LEMMA NoneIsNothing == None \notin Request /\ None \notin Command /\ None \notin PaymentRow
BY NoneAssumption DEF Payment

-----------------------------------------------------------------------------
(* Sums over the rows.                                                     *)

LEMMA SumOfType ==
  ASSUME NEW a \in Allocation
  PROVE  SumOf(a) \in Nat
<1>1. \A d \in Document : a[d] \in Nat
  BY DEF Allocation
<1> QED
  BY <1>1, DocumentAssumption, SumNat DEF SumOf

LEMMA OnAccountType ==
  ASSUME NEW row \in PaymentRow
  PROVE  OnAccount(row) \in Int
<1>1. SumOf(row.allocations) \in Nat /\ row.amount \in Nat
  BY SumOfType DEF PaymentRow
<1> QED
  BY <1>1 DEF OnAccount

\* What the entry of a payment does to the balance.
Effect(p) == -(SumOf(payment[p].allocations) + OnAccount(payment[p]))

\* A posted payment is a row.
LEMMA PostedRow ==
  ASSUME TypeOK
  PROVE  \A p \in PostedPayments : /\ p \in Payment /\ payment[p] \in PaymentRow
                                   /\ payment[p].allocations \in Allocation
                                   /\ \A d \in Document : payment[p].allocations[d] \in Nat
BY DEF TypeOK, PostedPayments, PaymentRow, Allocation

LEMMA EffectType ==
  ASSUME TypeOK
  PROVE  \A p \in PostedPayments : Effect(p) \in Int
<1>1. \A p \in PostedPayments :
        SumOf(payment[p].allocations) \in Nat /\ OnAccount(payment[p]) \in Int
  BY PostedRow, SumOfType, OnAccountType
<1> QED
  BY <1>1 DEF Effect

\* The ledger has the entries of payments.
LEMMA EnteredEffects ==
  ASSUME PostedIffEntered
  PROVE  \A p \in Payment : IF p \in PostedPayments THEN EnteredOnce(PaymentOf(p), Effect(p))
                            ELSE ~Entered(PaymentOf(p))
BY DEF PostedIffEntered, Effect

LEMMA AllocatedType ==
  ASSUME TypeOK, Finite, NEW d \in Document
  PROVE  Allocated(d) \in Nat /\ Outstanding(d) \in Int /\ Total[d] \in Nat
<1> DEFINE f == [p \in PostedPayments |-> payment[p].allocations[d]]
<1>1. \A p \in PostedPayments : f[p] \in Nat
  BY PostedRow
<1>2. SumFunctionOnSet(f, PostedPayments) \in Nat
  <2> HIDE DEF f
  <2> QED
    BY <1>1, SumNat DEF Finite
<1>3. Allocated(d) \in Nat
  BY <1>2 DEF Allocated, AllocatedIn
<1>4. Total[d] \in Nat
  BY DocumentAssumption
<1> QED
  BY <1>3, <1>4 DEF Outstanding

\* Balances do not depend on the domain of the function that is added up.
Control == [e \in LedgerEntry |-> e.control]

LEMMA BalanceIs ==
  ASSUME NEW entries \in SUBSET LedgerEntry, IsFiniteSet(entries)
  PROVE  Balance(entries) = SumFunctionOnSet(Control, entries)
<1> DEFINE f == [e \in entries |-> e.control]
<1>1. \A e \in entries : f[e] \in Int /\ Control[e] = f[e]
  BY DEF LedgerEntry, Control
<1>2. SumFunctionOnSet(f, entries) = SumFunctionOnSet(Control, entries)
  <2> HIDE DEF f
  <2> QED
    BY <1>1, SumEqual
<1> QED
  BY <1>2 DEF Balance

\* A new entry adds its effect to the balance.
LEMMA BalanceGrows ==
  ASSUME NEW entries \in SUBSET LedgerEntry, IsFiniteSet(entries),
         NEW e \in LedgerEntry, e \notin entries
  PROVE  /\ IsFiniteSet(entries \cup {e})
         /\ Balance(entries \cup {e}) = Balance(entries) + e.control
         /\ Balance(entries) \in Int
<1> DEFINE more == entries \cup {e}
<1>1. \A x \in more : Control[x] \in Int
  BY DEF LedgerEntry, Control
<1>2. /\ IsFiniteSet(more)
      /\ SumFunctionOnSet(Control, more) = Control[e] + SumFunctionOnSet(Control, entries)
  BY <1>1, SumAdd
<1>3. SumFunctionOnSet(Control, entries) \in Int
  BY <1>1, SumInt
<1>4. more \in SUBSET LedgerEntry
  OBVIOUS
<1>5. Control[e] = e.control /\ e.control \in Int
  BY DEF LedgerEntry, Control
<1>6. Balance(more) = SumFunctionOnSet(Control, more)
  <2> HIDE DEF more
  <2> QED
    BY <1>2, <1>4, BalanceIs
<1>7. Balance(entries) = SumFunctionOnSet(Control, entries)
  BY BalanceIs
<1> QED
  BY <1>2, <1>3, <1>5, <1>6, <1>7

-----------------------------------------------------------------------------
(* The initial states.                                                     *)

\* The entry of a document that was posted before.
OpeningEntry(d) ==
  [by |-> None, source |-> DocumentRow(d), reverses |-> None, control |-> Total[d]]

\* It is an entry of the ledger.
LEMMA OpeningType == \A d \in Posted0 : OpeningEntry(d) \in LedgerEntry
<1> SUFFICES ASSUME NEW d \in Posted0 PROVE OpeningEntry(d) \in LedgerEntry
  OBVIOUS
<1>1. d \in Document /\ Total[d] \in Int
  BY CommandsAssumption, DocumentAssumption
<1>2. DocumentRow(d) \in Source
  BY <1>1, RowType, SourceType
<1> QED
  BY <1>1, <1>2 DEF LedgerEntry, OpeningEntry

\* The initial rows and locks have their types.
LEMMA InitTypeOK == Init => TypeOK
<1> SUFFICES ASSUME Init PROVE TypeOK
  OBVIOUS
<1> USE DEF Init
<1>1. pc \in [Request -> Label] /\ cmd \in [Request -> Command \cup {None}]
  BY DEF Label
<1>2. todo \in [Request -> SUBSET Document] /\ lock \in [Locked -> Request \cup {None}]
  OBVIOUS
<1>3. document \in [Document -> {"none", "draft", "posted"}]
  OBVIOUS
<1>4. payment \in [Payment -> PaymentRow \cup {None}]
  BY DraftsAssumption
<1>5. ledger \subseteq LedgerEntry
  <2>1. \A d \in Posted0 : OpeningEntry(d) \in LedgerEntry
    BY OpeningType
  <2>2. ledger = {OpeningEntry(d) : d \in Posted0}
    BY DEF OpeningEntry
  <2> QED
    BY <2>1, <2>2
<1> QED
  BY <1>1, <1>2, <1>3, <1>4, <1>5 DEF TypeOK

\* Nothing is allocated yet.
LEMMA InitAllocated ==
  ASSUME Init
  PROVE  PostedPayments = {} /\ \A d \in Document : Allocated(d) = 0 /\ Outstanding(d) = Total[d]
<1>1. PostedPayments = {}
  BY DraftsAssumption DEF Init, PostedPayments
<1>2. \A d \in Document : Allocated(d) = 0
  BY <1>1, SumEmpty DEF Allocated, AllocatedIn
<1>3. \A d \in Document : Outstanding(d) = Total[d]
  BY <1>2, DocumentAssumption DEF Outstanding
<1> QED
  BY <1>1, <1>2, <1>3

\* The ledger opens with the totals of what has been posted.
LEMMA InitLedger ==
  ASSUME Init
  PROVE  /\ IsFiniteSet(ledger) /\ Linked /\ LedgerExplainsReceivable /\ DriftIsExplained
         /\ Reversed = {} /\ HandEntries = {}
         /\ Balance(ledger) = SumFunctionOnSet(Total, Posted0)
<1> DEFINE f == [d \in PostedDocuments |-> Outstanding(d)]
           g == [d \in Document |-> OpeningEntry(d)]
<1>1. PostedDocuments = Posted0 /\ Posted0 \subseteq Document
  BY CommandsAssumption DEF Init, PostedDocuments
<1>2. ledger = {g[d] : d \in Posted0}
  BY <1>1 DEF Init, OpeningEntry
<1>3. \A d \in Document : /\ g[d] \in LedgerEntry /\ g[d].reverses = None
                          /\ g[d].source = DocumentRow(d) /\ g[d].control = Total[d]
  BY DocumentAssumption, RowType, SourceType DEF LedgerEntry, OpeningEntry
<1>4. \A d \in Posted0 : f[d] \in Int /\ Control[g[d]] = f[d]
  BY <1>1, <1>3, InitAllocated, DocumentAssumption DEF Control
<1>5. \A d, e \in Posted0 : g[d].source = g[e].source => d = e
  BY <1>1, <1>3, RowType
<1>6. IsFiniteSet(Posted0)
  BY <1>1, DocumentAssumption, FS_Subset
<1> HIDE DEF g
<1>7. ledger \in SUBSET LedgerEntry
      /\ \A e \in ledger : e.reverses = None /\ e.source \in Posting
  BY <1>1, <1>2, <1>3, RowType
<1>8. /\ IsFiniteSet({g[d] : d \in Posted0})
      /\ SumFunctionOnSet(Control, {g[d] : d \in Posted0}) = SumFunctionOnSet(f, Posted0)
  <2>1. \A d \in Posted0 : f[d] \in Int /\ Control[g[d]] = f[d]
    BY <1>4
  <2>2. \A d, e \in Posted0 : g[d] = g[e] => d = e
    BY <1>5
  <2> HIDE DEF f
  <2> QED
    BY <1>6, <2>1, <2>2, SumImage
<1>9. Balance(ledger) = SumFunctionOnSet(Control, ledger)
  BY <1>2, <1>7, <1>8, BalanceIs
<1>10. Receivable = SumFunctionOnSet(f, Posted0)
  BY <1>1 DEF Receivable
<1>11. Unallocated = 0
  BY InitAllocated, SumEmpty DEF Unallocated
<1>12. Receivable \in Int
  <2>1. \A d \in Posted0 : f[d] \in Int
    BY <1>1, InitAllocated, DocumentAssumption
  <2> HIDE DEF f
  <2> QED
    BY <1>6, <1>10, <2>1, SumInt
<1>13. LedgerExplainsReceivable
  <2>1. {e \in ledger : e.source \in Posting} = ledger
    BY <1>7
  <2>2. Balance(ledger) = Receivable
    BY <1>2, <1>8, <1>9, <1>10
  <2>3. Receivable - Unallocated = Receivable
    BY <1>11, <1>12
  <2> QED
    BY <2>1, <2>2, <2>3 DEF LedgerExplainsReceivable
<1>14. Reversed = {} /\ ReversedEntries = {} /\ HandEntries = {}
  <2>1. Reversed = {}
    BY <1>7, SourceType DEF Reversed
  <2>2. HandEntries = {}
    BY <1>7, SourceType DEF HandEntries
  <2>3. ReversedEntries = {}
    BY <1>7, SourceType DEF ReversedEntries, Entered
  <2> QED
    BY <2>1, <2>2, <2>3
<1>15. DriftIsExplained
  <2>1. Balance({}) = 0
    BY SumEmpty DEF Balance
  <2> QED
    BY <1>2, <1>8, <1>9, <1>10, <1>11, <1>12, <1>14, <2>1 DEF DriftIsExplained
<1>16. SumFunctionOnSet(f, Posted0) = SumFunctionOnSet(Total, Posted0)
  <2>1. \A d \in Posted0 : f[d] \in Int /\ Total[d] = f[d]
    BY <1>1, InitAllocated, DocumentAssumption
  <2> HIDE DEF f
  <2> QED
    BY <1>6, <2>1, SumEqual
<1>17. Linked
  <2>1. \A e, x \in ledger : e.source = x.source => e = x
    BY <1>2, <1>5
  <2>2. \A e \in ledger, s \in Source : e.source # Reversal(s)
    BY <1>7, SourceType
  <2> QED
    BY <1>7, <2>1, <2>2 DEF Linked
<1> QED
  BY <1>2, <1>8, <1>9, <1>13, <1>14, <1>15, <1>16, <1>17

LEMMA InitPosted ==
  ASSUME Init
  PROVE  PostedIffEntered
<1>1. PostedPayments = {}
  BY InitAllocated
<1>2. ledger = {OpeningEntry(d) : d \in Posted0} /\ Posted0 \subseteq Document
  BY CommandsAssumption DEF Init, OpeningEntry
<1>3. \A d \in Document : OpeningEntry(d).source = DocumentRow(d)
                          /\ OpeningEntry(d).control = Total[d]
  BY DEF OpeningEntry
<1>4. ASSUME NEW d \in Posted0
      PROVE  EnteredOnce(DocumentRow(d), Total[d])
  <2>1. OpeningEntry(d) \in EntriesOf(DocumentRow(d))
    BY <1>2, <1>3 DEF EntriesOf
  <2>2. \A e \in EntriesOf(DocumentRow(d)) : e = OpeningEntry(d)
    BY <1>2, <1>3, RowType DEF EntriesOf
  <2> QED
    BY <1>2, <1>3, <2>1, <2>2 DEF EnteredOnce
<1>5. \A d \in Document \ Posted0 : ~Entered(DocumentRow(d))
  BY <1>2, <1>3, RowType DEF Entered
<1>6. \A p \in Payment : ~Entered(PaymentOf(p))
  <2>1. ASSUME NEW p \in Payment, NEW e \in ledger, e.source = PaymentOf(p)
        PROVE  FALSE
    <3>1. PICK d \in Posted0 : e = OpeningEntry(d)
      BY <1>2, <2>1
    <3>2. e.source = DocumentRow(d) /\ d \in Document
      BY <1>2, <1>3, <3>1
    <3> QED
      BY <2>1, <3>2, RowType
  <2> QED
    BY <2>1 DEF Entered
<1>7. \A d \in Document : document[d] = "posted" <=> d \in Posted0
  BY DEF Init
<1> QED
  BY <1>1, <1>4, <1>5, <1>6, <1>7 DEF PostedIffEntered

LEMMA InitIInv == Init => IInv
<1> SUFFICES ASSUME Init PROVE IInv
  OBVIOUS
<1>1. TypeOK
  BY InitTypeOK
<1>2. Finite
  BY InitAllocated, InitLedger, FS_EmptySet DEF Finite
<1>3. PaymentsAreDone
  BY DEF PaymentsAreDone, Init, Payment
<1>4. NeverOverAllocated
  BY InitAllocated, DocumentAssumption DEF NeverOverAllocated
<1>5. AllocationsAreCovered
  BY InitAllocated DEF AllocationsAreCovered
<1>6. \A r \in Request : Ready(r)
  <2> SUFFICES ASSUME NEW r \in Request PROVE Ready(r)
    OBVIOUS
  <2>1. pc[r] \in {"idle", "done"}
    BY DEF Init
  <2> QED
    BY <2>1 DEF Ready, RightCommand, Creates, Posts, Settles, Drafts, Reverses, Committing,
       Active, Terminal
<1> QED
  BY <1>1, <1>2, <1>3, <1>4, <1>5, <1>6, InitLedger, InitPosted DEF IInv

-----------------------------------------------------------------------------
(* What a step leaves to the other requests.                               *)

\* The step is r's: the others stay where they are, with the locks they hold.
OnlyOwn(r) ==
  \A q \in Request \ {r} :
    /\ pc'[q] = pc[q] /\ cmd'[q] = cmd[q] /\ todo'[q] = todo[q]
    /\ \A x \in Locked : Holds(q, x) => Holds(q, x)'

\* Nobody touches a row that another request has locked, and payments stay.
RespectsLocks(r) ==
  \A q \in Request \ {r} :
    /\ \A d \in Document :
         Holds(q, DocumentRow(d)) =>
           document'[d] = document[d] /\ Outstanding(d)' = Outstanding(d)
    /\ \A p \in Payment :
         payment[p] # None =>
           /\ payment'[p] # None
           /\ Holds(q, PaymentOf(p)) => payment'[p] = payment[p]
    /\ \A s \in Source :
         Entered(s) =>
           Entered(s)' /\ (Holds(q, EntryOf(s)) => (Reversible(s)' <=> Reversible(s)))

LEMMA OthersReady ==
  ASSUME TypeOK, NEW r \in Request, OnlyOwn(r), RespectsLocks(r),
         NEW q \in Request \ {r}, Ready(q)
  PROVE  Ready(q)'
<1>1. pc'[q] = pc[q] /\ cmd'[q] = cmd[q] /\ todo'[q] = todo[q]
  BY DEF OnlyOwn
<1>2. \A d \in Document :
        Holds(q, DocumentRow(d)) =>
          /\ Holds(q, DocumentRow(d))' /\ document'[d] = document[d]
          /\ Outstanding(d)' = Outstanding(d)
  BY RowType DEF OnlyOwn, RespectsLocks
<1>3. \A p \in Payment :
        payment[p] # None =>
          /\ payment'[p] # None
          /\ Holds(q, PaymentOf(p)) =>
               Holds(q, PaymentOf(p))' /\ payment'[p] = payment[p]
  BY RowType DEF OnlyOwn, RespectsLocks
<1>4. Active(q) => cmd[q] \in Command
  BY DEF Ready, RightCommand
<1>5. Active(q)' <=> Active(q)
  BY <1>1 DEF Active, Terminal
<1>6. RightCommand(q)'
  BY <1>1, <1>5 DEF Ready, RightCommand
<1>7. Committing(q, "createDocument") => cmd[q].document \in Document
  BY <1>4, FieldType DEF Committing, Active, Terminal
<1>8. Creates(q)'
  BY <1>1, <1>2, <1>7 DEF Ready, Creates, Committing
<1>9. Committing(q, "postDocument") => cmd[q].document \in Document
  BY <1>4, FieldType DEF Committing, Active, Terminal
<1>10. Posts(q)'
  BY <1>1, <1>2, <1>9 DEF Ready, Posts, Committing
<1>11. Settles(q)'
  <2> DEFINE p == cmd[q].payment
  <2>1. CASE ~(Active(q) /\ cmd[q].op = "postPayment")
    BY <1>1, <2>1 DEF Settles, Active, Terminal, Committing
  <2>2. CASE Active(q) /\ cmd[q].op = "postPayment"
    <3>1. p \in Payment /\ payment[p] # None /\ payment'[p] # None
      BY <1>3, <1>4, <2>2, FieldType DEF Ready, Settles
    <3>2. CASE pc[q] \notin {"allocate", "commit"}
      BY <1>1, <3>1, <3>2 DEF Settles, Active, Terminal, Committing
    <3>3. CASE pc[q] \in {"allocate", "commit"}
      <4>1. /\ Holds(q, PaymentOf(p))
            /\ payment[p].status = "draft"
            /\ \A d \in Document :
                 payment[p].allocations[d] > 0 =>
                   d \in todo[q] \/ Covered(q, d, payment[p].allocations)
            /\ Committing(q, "postPayment") => todo[q] = {} /\ Fits(payment[p])
        BY <2>2, <3>3 DEF Ready, Settles
      <4>2. Holds(q, PaymentOf(p))' /\ payment'[p] = payment[p]
        BY <1>1, <1>3, <3>1, <4>1
      <4>3. PICK a : a = payment[p].allocations
        OBVIOUS
      <4>4. \A d \in Document : Covered(q, d, a) => Covered(q, d, a)'
        BY <1>2 DEF Covered
      <4> QED
        BY <1>1, <3>1, <4>1, <4>2, <4>3, <4>4 DEF Settles, Committing
    <3> QED
      BY <3>2, <3>3
  <2> QED
    BY <2>1, <2>2
<1>12. Drafts(q)'
  <2>1. PICK a : a = cmd[q].allocations
    OBVIOUS
  <2>2. \A d \in Document : Covered(q, d, a) => Covered(q, d, a)'
    BY <1>2 DEF Covered
  <2> QED
    BY <1>1, <2>1, <2>2 DEF Ready, Drafts, Committing
<1>13. Reverses(q)'
  <2>1. CASE ~(Active(q) /\ cmd[q].op \in {"reverse", "postEntry"})
    BY <1>1, <1>5, <2>1 DEF Reverses, Committing, Active, Terminal
  <2>2. CASE Active(q) /\ cmd[q].op \in {"reverse", "postEntry"} /\ cmd[q].entry = None
    <3>1. cmd[q].op = "postEntry"
      BY <1>4, <2>2, FieldType, SourceType
    <3> QED
      BY <1>1, <2>2, <3>1 DEF Reverses, Committing
  <2>3. CASE Active(q) /\ cmd[q].op \in {"reverse", "postEntry"} /\ cmd[q].entry # None
    <3>0. PICK s : s = cmd[q].entry
      OBVIOUS
    <3>1. s \in Source /\ EntryOf(s) \in Locked /\ Entered(s)
      BY <1>4, <2>3, <3>0, FieldType, RowType DEF Ready, Reverses
    <3>2. /\ Entered(s)'
          /\ Holds(q, EntryOf(s)) =>
               Holds(q, EntryOf(s))' /\ (Reversible(s)' <=> Reversible(s))
      BY <3>1 DEF OnlyOwn, RespectsLocks
    <3> QED
      BY <1>1, <2>3, <3>0, <3>2 DEF Ready, Reverses, Committing
  <2> QED
    BY <2>1, <2>2, <2>3
<1> QED
  BY <1>6, <1>8, <1>10, <1>11, <1>12, <1>13 DEF Ready

\* What holds of the rows.
Sound ==
  /\ Finite
  /\ NeverOverAllocated
  /\ AllocationsAreCovered
  /\ PostedIffEntered
  /\ Linked
  /\ LedgerExplainsReceivable
  /\ DriftIsExplained

\* What is read off the ledger stays with it.
LEMMA SameLedger ==
  ASSUME ledger' = ledger
  PROVE  /\ Reversed' = Reversed /\ HandEntries' = HandEntries
         /\ \A s \in Source : (Reversible(s)' <=> Reversible(s)) /\ (Entered(s)' <=> Entered(s))
         /\ Linked' <=> Linked
         /\ Balance(ledger)' = Balance(ledger)
         /\ Balance(HandEntries)' = Balance(HandEntries)
         /\ Balance(ReversedEntries)' = Balance(ReversedEntries)
<1>1. Reversed' = Reversed /\ HandEntries' = HandEntries
  BY DEF Reversed, HandEntries
<1>2. ReversedEntries' = ReversedEntries
  BY DEF ReversedEntries, Entered
<1>3. \A s \in Source : (Reversible(s)' <=> Reversible(s)) /\ (Entered(s)' <=> Entered(s))
  BY <1>1 DEF Reversible, Entered
<1>4. Linked' <=> Linked
  BY DEF Linked, Entered
<1> QED
  BY <1>1, <1>2, <1>3, <1>4 DEF Balance

LEMMA SameRows ==
  ASSUME IInv, UNCHANGED rows
  PROVE  /\ Sound'
         /\ \A s \in Source : (Reversible(s)' <=> Reversible(s)) /\ (Entered(s)' <=> Entered(s))
         /\ \A d \in Document : Outstanding(d)' = Outstanding(d)
<1>1. document' = document /\ payment' = payment /\ ledger' = ledger
  BY DEF rows
<1>2. PostedPayments' = PostedPayments
  BY <1>1 DEF PostedPayments
<1>3. \A d \in Document : Allocated(d)' = Allocated(d) /\ Outstanding(d)' = Outstanding(d)
  BY <1>1, <1>2 DEF Allocated, AllocatedIn, Outstanding
<1>4. Finite' /\ NeverOverAllocated'
  BY <1>1, <1>2, <1>3 DEF IInv, Finite, NeverOverAllocated
<1>5. AllocationsAreCovered'
  BY <1>1, <1>2, <1>3 DEF IInv, AllocationsAreCovered
<1>6. PostedIffEntered'
  BY <1>1, <1>2 DEF IInv, PostedIffEntered, EnteredOnce, EntriesOf, Entered
<1>7. LedgerExplainsReceivable' /\ DriftIsExplained' /\ Linked'
  <2>1. PostedDocuments' = PostedDocuments
    BY <1>1 DEF PostedDocuments
  <2>2. Receivable' = Receivable /\ Unallocated' = Unallocated
    BY <1>1, <1>2, <2>1 DEF Receivable, Unallocated, Outstanding, Allocated, AllocatedIn
  <2> QED
    BY <1>1, <2>2, SameLedger DEF IInv, LedgerExplainsReceivable, DriftIsExplained, Balance
<1> QED
  BY <1>1, <1>3, <1>4, <1>5, <1>6, <1>7, SameLedger DEF Sound

\* A step that changes no row and leaves its request ready keeps the invariant.
LEMMA PlainStep ==
  ASSUME IInv, NEW r \in Request, UNCHANGED rows, TypeOK', OnlyOwn(r), Ready(r)',
         pc[r] # "done" \/ pc'[r] = "done"
  PROVE  IInv'
<1>1. Sound'
  BY SameRows
<1>2. PaymentsAreDone'
  BY DEF IInv, PaymentsAreDone, OnlyOwn, Payment, rows
<1>3. RespectsLocks(r)
  BY SameRows DEF RespectsLocks, rows
<1>4. \A q \in Request : Ready(q)'
  BY <1>3, OthersReady DEF IInv
<1> QED
  BY <1>1, <1>2, <1>4 DEF IInv, Sound

LEMMA StutterStep ==
  ASSUME IInv, UNCHANGED vars
  PROVE  IInv'
<1>1. /\ UNCHANGED rows
      /\ pc' = pc /\ cmd' = cmd /\ todo' = todo /\ lock' = lock
  BY DEF vars, rows
<1>2. TypeOK' /\ PaymentsAreDone'
  BY DEF vars, IInv, TypeOK, PaymentsAreDone
<1>3. ASSUME NEW r \in Request
      PROVE  Ready(r)'
  <2>1. Ready(r)
    BY DEF IInv
  <2>2. RightCommand(r)' /\ Creates(r)' /\ Posts(r)'
    BY <2>1 DEF vars, Ready, RightCommand, Creates, Posts, Committing, Active, Holds
  <2>3. PICK a : a = payment[cmd[r].payment].allocations
    OBVIOUS
  <2>4. \A d \in Document : Covered(r, d, a)' <=> Covered(r, d, a)
    BY <1>1, SameRows DEF Covered, Holds, rows
  <2>5. Settles(r)'
    BY <1>1, <2>1, <2>3, <2>4 DEF rows, Ready, Settles, Committing, Active, Holds
  <2>6. PICK b : b = cmd[r].allocations
    OBVIOUS
  <2>7. \A d \in Document : Covered(r, d, b)' <=> Covered(r, d, b)
    BY <1>1, SameRows DEF Covered, Holds, rows
  <2>8. Drafts(r)'
    BY <1>1, <2>1, <2>6, <2>7 DEF Ready, Drafts, Committing
  <2>9. Reverses(r)'
    <3>1. \A s : (Reversible(s)' <=> Reversible(s)) /\ (Entered(s)' <=> Entered(s))
      BY <1>1 DEF rows, Reversible, Reversed, Entered
    <3> QED
      BY <1>1, <2>1, <3>1 DEF Ready, Reverses, Committing, Active, Holds
  <2> QED
    BY <2>2, <2>5, <2>8, <2>9 DEF Ready
<1> QED
  BY <1>1, <1>2, <1>3, SameRows DEF IInv, Sound

\* A request that takes a free lock takes it from nobody.
LEMMA TakeLock ==
  ASSUME TypeOK, NEW r \in Request, NEW x \in Locked, Acquire(r, x)
  PROVE  /\ lock' \in [Locked -> Request \cup {None}]
         /\ Holds(r, x)'
         /\ \A q \in Request, y \in Locked : Holds(q, y) => Holds(q, y)'
BY NoneIsNothing DEF TypeOK, Acquire, Free, Holds

\* A request that ends gives up its own locks only.
LEMMA FinishStep ==
  ASSUME TypeOK, NEW r \in Request, NEW label \in Terminal, Finish(r, label)
  PROVE  /\ pc' \in [Request -> Label] /\ pc'[r] = label
         /\ lock' \in [Locked -> Request \cup {None}]
         /\ OnlyOwn(r)
         /\ Ready(r)'
<1>1. /\ pc' = [pc EXCEPT ![r] = label] /\ cmd' = cmd /\ todo' = todo
      /\ lock' = [x \in Locked |-> IF lock[x] = r THEN None ELSE lock[x]]
  BY DEF Finish, Goto
<1>2. pc' \in [Request -> Label] /\ pc'[r] = label /\ label \in {"done", "failed"}
  BY <1>1 DEF TypeOK, Label, Terminal
<1>3. OnlyOwn(r) /\ lock' \in [Locked -> Request \cup {None}]
  BY <1>1 DEF TypeOK, OnlyOwn, Holds
<1>4. Ready(r)'
  BY <1>2 DEF Ready, RightCommand, Creates, Posts, Settles, Drafts, Reverses, Committing,
     Active, Terminal
<1> QED
  BY <1>2, <1>3, <1>4

-----------------------------------------------------------------------------
(* Steps that change no row.                                               *)

\* What the type invariant says of one request.
LEMMA OwnType ==
  ASSUME IInv, NEW r \in Request
  PROVE  /\ TypeOK /\ Ready(r) /\ pc[r] \in Label
         /\ Active(r) => cmd[r] \in Command
BY DEF IInv, TypeOK, Ready, RightCommand

LEMMA BeginStep ==
  ASSUME IInv, NEW r \in Request, Begin(r)
  PROVE  IInv'
<1>1. PICK c \in Commands :
        /\ Known(c)
        /\ cmd' = [cmd EXCEPT ![r] = c]
        /\ todo' = [todo EXCEPT ![r] = IF c.op = "createPayment"
                                       THEN AllocatedBy(c.allocations) ELSE {}]
        /\ Goto(r, CASE c.op = "createDocument" -> "create"
                     [] c.op = "postDocument"   -> "document"
                     [] c.op = "createPayment"  -> "allocate"
                     [] c.op = "postPayment"    -> "payment"
                     [] c.op = "reverse"        -> "entry"
                     [] c.op = "postEntry"      ->
                          IF c.entry = None THEN "commit" ELSE "named")
  BY DEF Begin
<1>2. pc[r] = "idle" /\ UNCHANGED <<lock, rows>> /\ c \in Command /\ TypeOK
  BY CommandsAssumption DEF Begin, IInv
<1>3. c.op \in {"createDocument", "postDocument", "createPayment", "postPayment", "reverse",
                "postEntry"}
  BY <1>2 DEF Command, CreateDocument, PostDocument, CreatePayment, PostPayment, Reverse,
     PostEntry
<1>4. /\ pc'[r] \in {"create", "document", "allocate", "payment", "entry", "named", "commit"}
      /\ cmd'[r] = c
      /\ pc'[r] = "create" <=> c.op = "createDocument"
      /\ pc'[r] = "document" <=> c.op = "postDocument"
      /\ pc'[r] = "allocate" <=> c.op = "createPayment"
      /\ pc'[r] = "payment" <=> c.op = "postPayment"
      /\ pc'[r] = "entry" <=> c.op = "reverse"
      /\ pc'[r] = "named" <=> c.op = "postEntry" /\ c.entry # None
      /\ pc'[r] = "commit" <=> c.op = "postEntry" /\ c.entry = None
  BY <1>1, <1>2, <1>3 DEF Goto, TypeOK
<1>5. TypeOK'
  <2>1. pc' \in [Request -> Label]
    BY <1>1, <1>2, <1>3 DEF Goto, TypeOK, Label
  <2>2. cmd' \in [Request -> Command \cup {None}]
    BY <1>1, <1>2 DEF TypeOK
  <2>3. todo' \in [Request -> SUBSET Document]
    <3>1. AllocatedBy(c.allocations) \in SUBSET Document
      BY DEF AllocatedBy
    <3> QED
      BY <1>1, <1>2, <3>1 DEF TypeOK
  <2> QED
    BY <1>2, <2>1, <2>2, <2>3 DEF TypeOK, rows
<1>6. OnlyOwn(r)
  BY <1>1, <1>2 DEF OnlyOwn, Goto, TypeOK, Holds
<1>7. Ready(r)'
  <2>1. RightCommand(r)'
    BY <1>2, <1>4 DEF RightCommand, Active
  <2>2. Creates(r)' /\ Posts(r)'
    BY <1>4 DEF Creates, Posts, Committing
  <2>3. Settles(r)'
    <3>1. c.op = "postPayment" => payment'[c.payment] # None
      BY <1>1, <1>2 DEF Known, rows
    <3> QED
      BY <1>4, <3>1 DEF Settles, Committing
  <2>4. Drafts(r)' /\ Reverses(r)'
    <3>1. c.op = "createPayment" => todo'[r] = AllocatedBy(c.allocations)
      BY <1>1, <1>2 DEF TypeOK
    <3>2. c.op \in {"reverse", "postEntry"} => c.entry = None \/ Entered(c.entry)'
      BY <1>1, <1>2 DEF Known, Entered, rows
    <3> QED
      BY <1>4, <3>1, <3>2 DEF Drafts, Reverses, Committing, AllocatedBy
  <2> QED
    BY <2>1, <2>2, <2>3, <2>4 DEF Ready
<1> QED
  BY <1>2, <1>5, <1>6, <1>7, PlainStep

\* The insertion, or the lock of a draft: the row is as the commit expects it.
LEMMA DocumentStep ==
  ASSUME IInv, NEW r \in Request, InsertDocument(r) \/ LockDocument(r)
  PROVE  IInv'
<1>0. PICK d : d = cmd[r].document
  OBVIOUS
<1>1. /\ pc[r] \in {"create", "document"}
      /\ Acquire(r, DocumentRow(d))
      /\ pc' = [pc EXCEPT ![r] = IF \/ pc[r] = "create" /\ document[d] = "none"
                                    \/ pc[r] = "document" /\ document[d] = "draft"
                                 THEN "commit" ELSE "rollback"]
      /\ UNCHANGED <<cmd, todo, rows>>
  BY <1>0 DEF InsertDocument, LockDocument, Proceed, Goto
<1>2. TypeOK /\ Ready(r) /\ cmd[r] \in Command
  BY <1>1, OwnType DEF Active, Terminal
<1>3. /\ d \in Document
      /\ pc[r] = "create" => cmd[r].op = "createDocument"
      /\ pc[r] = "document" => cmd[r].op = "postDocument"
  BY <1>0, <1>1, <1>2, FieldType DEF Ready, RightCommand
<1>4. /\ lock' \in [Locked -> Request \cup {None}]
      /\ Holds(r, DocumentRow(d))'
      /\ \A q \in Request, y \in Locked : Holds(q, y) => Holds(q, y)'
  BY <1>1, <1>2, <1>3, RowType, TakeLock
<1>5. TypeOK'
  BY <1>1, <1>2, <1>4 DEF TypeOK, Label, rows
<1>6. OnlyOwn(r)
  BY <1>1, <1>2, <1>4 DEF OnlyOwn, TypeOK
<1>7. Ready(r)'
  <2>1. /\ pc'[r] \in {"commit", "rollback"} /\ cmd' = cmd /\ document' = document
        /\ pc'[r] = "commit" => \/ cmd[r].op = "createDocument" /\ document[d] = "none"
                                \/ cmd[r].op = "postDocument" /\ document[d] = "draft"
    BY <1>1, <1>2, <1>3 DEF TypeOK, rows
  <2>2. RightCommand(r)'
    BY <1>2, <2>1 DEF RightCommand
  <2>3. Creates(r)' /\ Posts(r)'
    BY <1>0, <1>4, <2>1 DEF Creates, Posts, Committing, Holds
  <2>4. Settles(r)' /\ Drafts(r)' /\ Reverses(r)'
    BY <1>0, <1>1, <1>3, <2>1 DEF Settles, Drafts, Reverses, Committing
  <2> QED
    BY <2>2, <2>3, <2>4 DEF Ready
<1>8. pc[r] # "done"
  BY <1>1
<1> QED
  BY <1>1, <1>5, <1>6, <1>7, <1>8, PlainStep

\* The payment is a draft, and what it allocates is still to be locked.
LEMMA LockPaymentStep ==
  ASSUME IInv, NEW r \in Request, LockPayment(r)
  PROVE  IInv'
<1>0. PICK p : p = cmd[r].payment
  OBVIOUS
<1>1. /\ pc[r] = "payment"
      /\ Acquire(r, PaymentOf(p))
      /\ pc' = [pc EXCEPT ![r] = IF payment[p].status = "draft"
                                 THEN "allocate" ELSE "rollback"]
      /\ todo' = [todo EXCEPT ![r] = AllocatedBy(payment[p].allocations)]
      /\ UNCHANGED <<cmd, rows>>
  BY <1>0 DEF LockPayment, Proceed, Goto
<1>2. TypeOK /\ Ready(r) /\ cmd[r] \in Command
  BY <1>1, OwnType DEF Active, Terminal
<1>3. cmd[r].op = "postPayment" /\ p \in Payment /\ payment[p] # None
  BY <1>0, <1>1, <1>2, FieldType DEF Ready, RightCommand, Settles, Active, Terminal
<1>4. /\ lock' \in [Locked -> Request \cup {None}]
      /\ Holds(r, PaymentOf(p))'
      /\ \A q \in Request, y \in Locked : Holds(q, y) => Holds(q, y)'
  BY <1>1, <1>2, <1>3, RowType, TakeLock
<1>5. TypeOK'
  <2>1. AllocatedBy(payment[p].allocations) \in SUBSET Document
    BY DEF AllocatedBy
  <2> QED
    BY <1>1, <1>2, <1>4, <2>1 DEF TypeOK, Label, rows
<1>6. OnlyOwn(r)
  BY <1>1, <1>2, <1>4 DEF OnlyOwn, TypeOK
<1>7. Ready(r)'
  <2>1. /\ pc'[r] \in {"allocate", "rollback"} /\ cmd' = cmd /\ payment' = payment
        /\ pc'[r] = "allocate" => payment[p].status = "draft"
        /\ todo'[r] = AllocatedBy(payment[p].allocations)
    BY <1>1, <1>2 DEF TypeOK, rows
  <2>2. RightCommand(r)'
    BY <1>2, <1>3, <2>1 DEF RightCommand
  <2>3. Creates(r)' /\ Posts(r)'
    BY <2>1 DEF Creates, Posts, Committing
  <2>4. Settles(r)'
    BY <1>0, <1>3, <1>4, <2>1 DEF Settles, Committing, AllocatedBy, Holds
  <2>5. Drafts(r)' /\ Reverses(r)'
    BY <1>3, <2>1 DEF Drafts, Reverses, Committing
  <2> QED
    BY <2>2, <2>3, <2>4, <2>5 DEF Ready
<1> QED
  BY <1>1, <1>5, <1>6, <1>7, PlainStep

\* One more document of the payment is locked and has enough outstanding.
LEMMA AllocateStep ==
  ASSUME IInv, NEW r \in Request, Allocate(r)
  PROVE  IInv'
<1>1. PICK d \in NextDocuments(r) :
        /\ pc[r] = "allocate"
        /\ Acquire(r, DocumentRow(d))
        /\ todo' = [todo EXCEPT ![r] = @ \ {d}]
        /\ pc' = [pc EXCEPT ![r] = IF document[d] = "posted"
                                      /\ Allocations(r)[d] <= Outstanding(d)
                                   THEN "allocate" ELSE "rollback"]
        /\ UNCHANGED <<cmd, rows>>
  BY DEF Allocate, Proceed, Goto
<1>2. TypeOK /\ Ready(r) /\ cmd[r] \in Command
  BY <1>1, OwnType DEF Active, Terminal
<1>3. d \in Document /\ cmd[r].op \in {"createPayment", "postPayment"}
  BY <1>1, <1>2 DEF NextDocuments, TypeOK, Ready, RightCommand
<1>4. /\ lock' \in [Locked -> Request \cup {None}]
      /\ Holds(r, DocumentRow(d))'
      /\ \A q \in Request, y \in Locked : Holds(q, y) => Holds(q, y)'
  BY <1>1, <1>2, <1>3, RowType, TakeLock
<1>5. TypeOK'
  BY <1>1, <1>2, <1>4 DEF TypeOK, Label, rows
<1>6. OnlyOwn(r)
  BY <1>1, <1>2, <1>4 DEF OnlyOwn, TypeOK
<1>7. Ready(r)'
  <2>1. /\ pc'[r] \in {"allocate", "rollback"} /\ cmd' = cmd
        /\ payment' = payment /\ document' = document
        /\ pc'[r] = "allocate" =>
             document[d] = "posted" /\ Allocations(r)[d] <= Outstanding(d)
        /\ todo'[r] = todo[r] \ {d}
    BY <1>1, <1>2 DEF TypeOK, rows
  <2>2. RightCommand(r)'
    BY <1>2, <1>3, <2>1 DEF RightCommand
  <2>3. Creates(r)' /\ Posts(r)'
    BY <2>1 DEF Creates, Posts, Committing
  <2>4. Settles(r)'
    <3>1. CASE cmd[r].op # "postPayment"
      BY <2>1, <3>1 DEF Settles, Committing
    <3>2. CASE cmd[r].op = "postPayment"
      <4>0. PICK p, a : p = cmd[r].payment /\ a = payment[p].allocations
        OBVIOUS
      <4>1. /\ p \in Payment /\ payment[p] # None
            /\ Holds(r, PaymentOf(p)) /\ payment[p].status = "draft"
            /\ \A e \in Document : a[e] > 0 => e \in todo[r] \/ Covered(r, e, a)
        BY <1>1, <1>2, <3>2, <4>0, FieldType DEF Ready, Settles, Active, Terminal
      <4>2. Allocations(r) = a
        BY <3>2, <4>0 DEF Allocations
      <4>3. \A e \in Document : Outstanding(e)' = Outstanding(e)
        BY <2>1 DEF Outstanding, Allocated, AllocatedIn, PostedPayments
      <4>4. \A e \in Document : Covered(r, e, a) => Covered(r, e, a)'
        BY <1>4, <2>1, <4>3, RowType DEF Covered
      <4>5. pc'[r] = "allocate" => Covered(r, d, a)'
        BY <1>4, <2>1, <4>2, <4>3, <1>3 DEF Covered
      <4>6. Holds(r, PaymentOf(p))'
        BY <1>4, <4>1, RowType
      <4>7. pc'[r] = "allocate" =>
              \A e \in Document : a[e] > 0 => e \in todo'[r] \/ Covered(r, e, a)'
        BY <2>1, <4>1, <4>4, <4>5
      <4>8. p = cmd'[r].payment /\ a = payment'[p].allocations
        BY <2>1, <4>0
      <4> QED
        BY <2>1, <4>1, <4>6, <4>7, <4>8 DEF Settles, Committing
    <3> QED
      BY <3>1, <3>2
  <2>5. Drafts(r)'
    <3>1. CASE cmd[r].op # "createPayment"
      BY <2>1, <3>1 DEF Drafts, Committing
    <3>2. CASE cmd[r].op = "createPayment"
      <4>0. PICK a : a = cmd[r].allocations
        OBVIOUS
      <4>1. \A e \in Document : a[e] > 0 => e \in todo[r] \/ Covered(r, e, a)
        BY <1>1, <1>2, <3>2, <4>0 DEF Ready, Drafts
      <4>2. \A e \in Document : Outstanding(e)' = Outstanding(e)
        BY <2>1 DEF Outstanding, Allocated, AllocatedIn, PostedPayments
      <4>3. \A e \in Document : Covered(r, e, a) => Covered(r, e, a)'
        BY <1>4, <2>1, <4>2, RowType DEF Covered
      <4>4. pc'[r] = "allocate" => Covered(r, d, a)'
        BY <1>3, <1>4, <2>1, <3>2, <4>0, <4>2 DEF Covered, Allocations
      <4>5. pc'[r] = "allocate" =>
              \A e \in Document : a[e] > 0 => e \in todo'[r] \/ Covered(r, e, a)'
        BY <2>1, <4>1, <4>3, <4>4
      <4>6. a = cmd'[r].allocations
        BY <2>1, <4>0
      <4> QED
        BY <2>1, <4>5, <4>6 DEF Drafts, Committing
    <3> QED
      BY <3>1, <3>2
  <2>6. Reverses(r)'
    BY <1>3, <2>1 DEF Reverses, Committing
  <2> QED
    BY <2>2, <2>3, <2>4, <2>5, <2>6 DEF Ready
<1> QED
  BY <1>1, <1>5, <1>6, <1>7, PlainStep

\* Every document of the payment is locked; the payment is large enough.
LEMMA CheckAmountStep ==
  ASSUME IInv, NEW r \in Request, CheckAmount(r)
  PROVE  IInv'
<1>1. /\ pc[r] = "allocate" /\ todo[r] = {}
      /\ pc' = [pc EXCEPT ![r] = IF Fits(IF cmd[r].op = "createPayment" THEN cmd[r]
                                         ELSE payment[cmd[r].payment])
                                 THEN "commit" ELSE "rollback"]
      /\ UNCHANGED <<cmd, todo, lock, rows>>
  BY DEF CheckAmount, Proceed, Goto
<1>2. TypeOK /\ Ready(r) /\ cmd[r] \in Command
  BY <1>1, OwnType DEF Active, Terminal
<1>3. cmd[r].op \in {"createPayment", "postPayment"}
  BY <1>1, <1>2 DEF Ready, RightCommand
<1>4. TypeOK'
  BY <1>1, <1>2 DEF TypeOK, Label, rows
<1>5. OnlyOwn(r)
  BY <1>1, <1>2 DEF OnlyOwn, TypeOK, Holds
<1>6. Ready(r)'
  <2>1. /\ pc'[r] \in {"commit", "rollback"} /\ cmd' = cmd /\ todo' = todo /\ lock' = lock
        /\ payment' = payment /\ document' = document
        /\ pc'[r] = "commit" /\ cmd[r].op = "postPayment" => Fits(payment[cmd[r].payment])
        /\ pc'[r] = "commit" /\ cmd[r].op = "createPayment" => Fits(cmd[r])
    BY <1>1, <1>2, <1>3 DEF TypeOK, rows
  <2>2. RightCommand(r)'
    BY <1>2, <2>1 DEF RightCommand
  <2>3. Creates(r)' /\ Posts(r)'
    BY <1>3, <2>1 DEF Creates, Posts, Committing
  <2>4. Settles(r)'
    <3>1. CASE cmd[r].op # "postPayment"
      BY <2>1, <3>1 DEF Settles, Committing
    <3>2. CASE cmd[r].op = "postPayment"
      <4>0. PICK p, a : p = cmd[r].payment /\ a = payment[p].allocations
        OBVIOUS
      <4>1. /\ payment[p] # None
            /\ Holds(r, PaymentOf(p)) /\ payment[p].status = "draft"
            /\ \A e \in Document : a[e] > 0 => e \in todo[r] \/ Covered(r, e, a)
        BY <1>1, <1>2, <3>2, <4>0 DEF Ready, Settles, Active, Terminal
      <4>2. \A e \in Document : Covered(r, e, a) => Covered(r, e, a)'
        BY <2>1 DEF Covered, Holds, Outstanding, Allocated, AllocatedIn, PostedPayments
      <4>3. Holds(r, PaymentOf(p))'
        BY <2>1, <4>1 DEF Holds
      <4>4. p = cmd'[r].payment /\ a = payment'[p].allocations
        BY <2>1, <4>0
      <4> QED
        BY <1>1, <2>1, <3>2, <4>0, <4>1, <4>2, <4>3, <4>4 DEF Settles, Committing, Fits
    <3> QED
      BY <3>1, <3>2
  <2>5. Drafts(r)'
    <3>1. PICK a : a = cmd[r].allocations
      OBVIOUS
    <3>2. \A e \in Document : Covered(r, e, a) => Covered(r, e, a)'
      BY <2>1 DEF Covered, Holds, Outstanding, Allocated, AllocatedIn, PostedPayments
    <3>3. cmd[r].op = "createPayment" =>
            \A e \in Document : a[e] > 0 => e \in todo[r] \/ Covered(r, e, a)
      BY <1>1, <1>2, <3>1 DEF Ready, Drafts
    <3>4. a = cmd'[r].allocations
      BY <2>1, <3>1
    <3> QED
      BY <1>1, <2>1, <3>2, <3>3, <3>4 DEF Drafts, Committing, Fits
  <2>6. Reverses(r)'
    BY <1>3, <2>1 DEF Reverses, Committing
  <2> QED
    BY <2>2, <2>3, <2>4, <2>5, <2>6 DEF Ready
<1> QED
  BY <1>1, <1>4, <1>5, <1>6, PlainStep

LEMMA LockEntryStep ==
  ASSUME IInv, NEW r \in Request, LockEntry(r) \/ LockNamed(r)
  PROVE  IInv'
<1>0. PICK s : s = cmd[r].entry
  OBVIOUS
<1>1. /\ pc[r] \in {"entry", "named"}
      /\ Acquire(r, EntryOf(s))
      /\ pc' = [pc EXCEPT ![r] = IF pc[r] = "named" \/ Reversible(s) THEN "commit"
                                 ELSE "rollback"]
      /\ UNCHANGED <<cmd, todo, rows>>
  BY <1>0 DEF LockEntry, LockNamed, Proceed, Goto
<1>2. TypeOK /\ Ready(r) /\ cmd[r] \in Command
  BY <1>1, OwnType DEF Active, Terminal
<1>3. /\ s \in Source /\ Entered(s)
      /\ pc[r] = "entry" => cmd[r].op = "reverse"
      /\ pc[r] = "named" => cmd[r].op = "postEntry"
  <2>1. CASE pc[r] = "entry"
    <3>1. cmd[r].op = "reverse" /\ s \in Source /\ s # None
      BY <1>0, <1>2, <2>1, FieldType, SourceType DEF Ready, RightCommand
    <3> QED
      BY <1>0, <1>2, <2>1, <3>1 DEF Ready, Reverses, Active, Terminal
  <2>2. CASE pc[r] = "named"
    <3>1. cmd[r].op = "postEntry" /\ s # None
      BY <1>0, <1>2, <2>2 DEF Ready, RightCommand
    <3> QED
      BY <1>0, <1>2, <2>2, <3>1, FieldType DEF Ready, Reverses, Active, Terminal
  <2> QED
    BY <1>1, <2>1, <2>2
<1>4. /\ lock' \in [Locked -> Request \cup {None}]
      /\ Holds(r, EntryOf(s))'
      /\ \A q \in Request, y \in Locked : Holds(q, y) => Holds(q, y)'
  BY <1>1, <1>2, <1>3, RowType, TakeLock
<1>5. TypeOK'
  BY <1>1, <1>2, <1>4 DEF TypeOK, Label, rows
<1>6. OnlyOwn(r)
  BY <1>1, <1>2, <1>4 DEF OnlyOwn, TypeOK
<1>7. Ready(r)'
  <2>1. /\ pc'[r] \in {"commit", "rollback"} /\ cmd' = cmd
        /\ pc'[r] = "commit" /\ cmd[r].op = "reverse" => Reversible(s)
    BY <1>1, <1>2, <1>3 DEF TypeOK
  <2>2. (Reversible(s)' <=> Reversible(s)) /\ Entered(s)'
    BY <1>1, <1>3, SameRows
  <2>3. Reverses(r)'
    BY <1>0, <1>4, <2>1, <2>2 DEF Reverses, Committing, Holds
  <2>4. cmd[r].op \in {"reverse", "postEntry"}
    BY <1>1, <1>3
  <2>5. RightCommand(r)' /\ Creates(r)' /\ Posts(r)' /\ Settles(r)' /\ Drafts(r)'
    BY <1>2, <2>1, <2>4 DEF RightCommand, Creates, Posts, Settles, Drafts, Committing
  <2> QED
    BY <2>3, <2>5 DEF Ready
<1> QED
  BY <1>1, <1>5, <1>6, <1>7, PlainStep

\* A request that fails leaves the rows as they were.
LEMMA UndoStep ==
  ASSUME IInv, NEW r \in Request, Active(r), Undo(r)
  PROVE  IInv'
<1>1. TypeOK /\ UNCHANGED rows /\ Finish(r, "failed") /\ "failed" \in Terminal
  BY DEF IInv, Undo, Terminal
<1>2. /\ pc' \in [Request -> Label] /\ lock' \in [Locked -> Request \cup {None}]
      /\ OnlyOwn(r) /\ Ready(r)'
  BY <1>1, FinishStep
<1>3. TypeOK'
  BY <1>1, <1>2 DEF TypeOK, Finish, rows
<1> QED
  BY <1>1, <1>2, <1>3, PlainStep DEF Active, Terminal

-----------------------------------------------------------------------------
(* Commits.                                                                *)

LEMMA CommitKeeps ==
  ASSUME IInv, NEW r \in Request, pc[r] = "commit", Finish(r, "done"),
         document' \in [Document -> {"none", "draft", "posted"}],
         payment' \in [Payment -> PaymentRow \cup {None}],
         ledger' \subseteq LedgerEntry,
         \A p \in Payment : payment'[p] # None => payment[p] # None \/ p = r,
         RespectsLocks(r), Sound'
  PROVE  IInv'
<1>1. TypeOK /\ "done" \in Terminal
  BY DEF IInv, Terminal
<1>2. /\ pc' \in [Request -> Label] /\ pc'[r] = "done"
      /\ lock' \in [Locked -> Request \cup {None}]
      /\ OnlyOwn(r) /\ Ready(r)'
  BY <1>1, FinishStep
<1>3. TypeOK'
  BY <1>1, <1>2 DEF TypeOK, Finish
<1>4. PaymentsAreDone'
  BY <1>2 DEF IInv, PaymentsAreDone, OnlyOwn, Payment
<1>5. \A q \in Request : Ready(q)'
  BY <1>1, <1>2, OthersReady DEF IInv
<1> QED
  BY <1>3, <1>4, <1>5 DEF IInv, Sound

\* The sums that the balance is made of are integers.
LEMMA SumTypes ==
  ASSUME TypeOK, Finite
  PROVE  Receivable \in Int /\ Unallocated \in Int
<1>1. PICK documents, f : /\ documents = PostedDocuments
                          /\ f = [d \in documents |-> Outstanding(d)]
  OBVIOUS
<1>2. documents \subseteq Document /\ IsFiniteSet(documents)
  BY <1>1, DocumentAssumption, FS_Subset DEF PostedDocuments
<1>3. \A d \in documents : f[d] \in Int
  BY <1>1, <1>2, AllocatedType
<1>4. PICK payments, g : /\ payments = PostedPayments
                         /\ g = [p \in payments |-> OnAccount(payment[p])]
  OBVIOUS
<1>5. \A p \in payments : g[p] \in Int
  BY <1>4, PostedRow, OnAccountType
<1>6. Receivable = SumFunctionOnSet(f, documents) /\ Unallocated = SumFunctionOnSet(g, payments)
  BY <1>1, <1>4 DEF Receivable, Unallocated
<1> QED
  BY <1>2, <1>3, <1>4, <1>5, <1>6, SumInt DEF Finite

LEMMA BalanceType ==
  ASSUME IInv, NEW entries \in SUBSET ledger
  PROVE  entries \in SUBSET LedgerEntry /\ IsFiniteSet(entries) /\ Balance(entries) \in Int
<1>1. entries \in SUBSET LedgerEntry /\ IsFiniteSet(entries)
  BY FS_Subset DEF IInv, TypeOK, Finite
<1>2. Balance(entries) = SumFunctionOnSet(Control, entries)
  BY <1>1, BalanceIs
<1>3. \A e \in entries : Control[e] \in Int
  BY <1>1 DEF LedgerEntry, Control
<1> QED
  BY <1>1, <1>2, <1>3, SumInt

\* The entries of some kind, which e is of or not.
LEMMA PartGrows ==
  ASSUME IInv, NEW e \in LedgerEntry, e \notin ledger, ledger' = ledger \cup {e}, NEW kind
  PROVE  LET part == {x \in ledger : x.source \in kind}
         IN /\ Balance(part) \in Int
            /\ Balance({x \in ledger' : x.source \in kind})
                 = IF e.source \in kind THEN Balance(part) + e.control ELSE Balance(part)
<1>1. PICK part : part = {x \in ledger : x.source \in kind}
  OBVIOUS
<1>2. part \in SUBSET LedgerEntry /\ IsFiniteSet(part) /\ Balance(part) \in Int
  BY <1>1, BalanceType
<1>3. CASE e.source \in kind
  <2>1. {x \in ledger' : x.source \in kind} = part \cup {e} /\ e \notin part
    BY <1>1, <1>3
  <2> QED
    BY <1>1, <1>2, <1>3, <2>1, BalanceGrows
<1>4. CASE e.source \notin kind
  <2>1. {x \in ledger' : x.source \in kind} = part
    BY <1>1, <1>4
  <2> QED
    BY <1>1, <1>2, <1>4, <2>1
<1> QED
  BY <1>3, <1>4

\* A new entry is the only one of its source, and adds to the balance; so far
\* nothing has been reversed by it, nor has it been reversed.
LEMMA EntryStep ==
  ASSUME IInv, NEW e \in LedgerEntry, ~Entered(e.source), ledger' = ledger \cup {e},
         e.reverses # None => Entered(e.reverses),
         \A s \in Source : e.source = Reversal(s) => e.reverses = s
  PROVE  /\ ledger' \subseteq LedgerEntry /\ IsFiniteSet(ledger') /\ Linked'
         /\ EnteredOnce(e.source, e.control)'
         /\ \A s \in Source \ {e.source} :
              /\ Entered(s)' <=> Entered(s)
              /\ \A c \in Int : EnteredOnce(s, c)' <=> EnteredOnce(s, c)
         /\ Reversed' = Reversed \cup ({e.reverses} \ {None})
         /\ \A s \in Source :
              Entered(s) =>
                Entered(s)' /\ (s # e.reverses => (Reversible(s)' <=> Reversible(s)))
         /\ Balance(ledger)' = Balance(ledger) + e.control
         /\ Balance(ledger) \in Int
<1>1. e \notin ledger /\ ledger \subseteq LedgerEntry /\ IsFiniteSet(ledger)
  BY DEF Entered, IInv, TypeOK, Finite
<1>2. ledger' \subseteq LedgerEntry /\ IsFiniteSet(ledger')
  BY <1>1, FS_AddElement
<1>3. EnteredOnce(e.source, e.control)'
  <2>1. \A x \in ledger' : x \in EntriesOf(e.source)' <=> x = e
    BY DEF EntriesOf, Entered
  <2>2. EntriesOf(e.source)' = {e}
    BY <2>1 DEF EntriesOf
  <2> QED
    BY <2>2 DEF EnteredOnce
<1>4. ASSUME NEW s \in Source \ {e.source}
      PROVE  /\ Entered(s)' <=> Entered(s)
             /\ \A c \in Int : EnteredOnce(s, c)' <=> EnteredOnce(s, c)
  <2>1. EntriesOf(s)' = EntriesOf(s)
    BY DEF EntriesOf
  <2>2. Entered(s)' <=> Entered(s)
    BY DEF Entered
  <2> QED
    BY <2>1, <2>2 DEF EnteredOnce
<1>5. Linked'
  <2>1. \A x \in ledger : x.source # e.source
    BY DEF Entered
  <2>2. \A s : Entered(s) => Entered(s)'
    BY DEF Entered
  <2> QED
    BY <2>1, <2>2 DEF IInv, Linked
<1>6. Reversed' = Reversed \cup ({e.reverses} \ {None})
  <2>1. e.reverses \in Source \cup {None} /\ None \notin Source
    BY SourceType DEF LedgerEntry
  <2> QED
    BY <2>1 DEF Reversed
<1>7. ASSUME NEW s \in Source, Entered(s)
      PROVE  Entered(s)' /\ (s # e.reverses => (Reversible(s)' <=> Reversible(s)))
  <2>1. s # e.source
    BY <1>7
  <2>2. Entered(s)'
    BY <1>4, <1>7, <2>1
  <2>3. ASSUME s # e.reverses
        PROVE  s \in Reversed' <=> s \in Reversed
    BY <1>6, <2>3
  <2>4. (\A x \in ledger' : x.source = s => x.reverses = None)
          <=> (\A x \in ledger : x.source = s => x.reverses = None)
    BY <2>1
  <2> QED
    BY <2>2, <2>3, <2>4 DEF Reversible
<1>8. /\ Balance(ledger \cup {e}) = Balance(ledger) + e.control
      /\ Balance(ledger) \in Int
  BY <1>1, BalanceGrows
<1>9. Balance(ledger)' = Balance(ledger \cup {e})
  BY DEF Balance
<1> QED
  BY <1>2, <1>3, <1>4, <1>5, <1>6, <1>7, <1>8, <1>9

\* An entry of a document or payment, or by hand, is the reversal of nothing.
LEMMA PostingStep ==
  ASSUME IInv, NEW e \in LedgerEntry, e.source \in Posting \cup Hand, ~Entered(e.source),
         ledger' = ledger \cup {e}, e.reverses # None => Entered(e.reverses)
  PROVE  /\ \A s \in Source : e.source # Reversal(s)
         /\ Balance({x \in ledger : x.source \in Posting})'
              = IF e.source \in Posting
                THEN Balance({x \in ledger : x.source \in Posting}) + e.control
                ELSE Balance({x \in ledger : x.source \in Posting})
         /\ Balance(HandEntries)'
              = IF e.source \in Hand THEN Balance(HandEntries) + e.control
                ELSE Balance(HandEntries)
         /\ HandEntries' = IF e.source \in Hand THEN HandEntries \cup {e} ELSE HandEntries
         /\ Balance(ReversedEntries)' = Balance(ReversedEntries)
<1>1. \A s \in Source : e.source # Reversal(s)
  BY SourceType
<1>2. e \notin ledger
  BY DEF Entered
<1>3. Balance({x \in ledger : x.source \in Posting})'
        = IF e.source \in Posting
          THEN Balance({x \in ledger : x.source \in Posting}) + e.control
          ELSE Balance({x \in ledger : x.source \in Posting})
  <2>1. Balance({x \in ledger' : x.source \in Posting})
          = IF e.source \in Posting
            THEN Balance({x \in ledger : x.source \in Posting}) + e.control
            ELSE Balance({x \in ledger : x.source \in Posting})
    BY <1>2, PartGrows
  <2> QED
    BY <2>1 DEF Balance
<1>4. Balance(HandEntries)'
        = IF e.source \in Hand THEN Balance(HandEntries) + e.control ELSE Balance(HandEntries)
  <2>1. Balance({x \in ledger' : x.source \in Hand})
          = IF e.source \in Hand
            THEN Balance({x \in ledger : x.source \in Hand}) + e.control
            ELSE Balance({x \in ledger : x.source \in Hand})
    BY <1>2, PartGrows
  <2> QED
    BY <2>1 DEF Balance, HandEntries
<1>5. HandEntries' = IF e.source \in Hand THEN HandEntries \cup {e} ELSE HandEntries
  BY DEF HandEntries
<1>6. ReversedEntries' = ReversedEntries
  <2>1. \A x \in ledger' : x.source \in Source
    BY DEF IInv, TypeOK, LedgerEntry
  <2>2. \A x \in ledger' : Entered(Reversal(x.source))' <=> Entered(Reversal(x.source))
    BY <1>1, <2>1 DEF Entered
  <2>3. ~Entered(Reversal(e.source))
    BY SourceType, <2>1 DEF IInv, Linked, Entered
  <2> QED
    BY <2>2, <2>3 DEF ReversedEntries
<1> QED
  BY <1>1, <1>3, <1>4, <1>5, <1>6 DEF Balance

\* The first row of a document.
LEMMA CommitDocumentStep ==
  ASSUME IInv, NEW r \in Request, pc[r] = "commit", Finish(r, "done"), CommitDocument(r)
  PROVE  IInv'
<1>0. PICK d : d = cmd[r].document
  OBVIOUS
<1>1. /\ document' = [document EXCEPT ![d] = "draft"]
      /\ payment' = payment /\ ledger' = ledger
  BY <1>0 DEF CommitDocument
<1>2. TypeOK /\ Ready(r) /\ cmd[r] \in Command
  BY OwnType DEF Active, Terminal
<1>3. d \in Document /\ Holds(r, DocumentRow(d)) /\ document[d] = "none"
  BY <1>0, <1>2, FieldType DEF CommitDocument, Ready, Creates, Committing
<1>4. /\ document' \in [Document -> {"none", "draft", "posted"}]
      /\ document'[d] = "draft"
      /\ \A x \in Document \ {d} : document'[x] = document[x]
  BY <1>1, <1>2, <1>3 DEF TypeOK
<1>5. \A x \in Document : Allocated(x)' = Allocated(x) /\ Outstanding(x)' = Outstanding(x)
  BY <1>1 DEF Outstanding, Allocated, AllocatedIn, PostedPayments
<1>6. PostedPayments' = PostedPayments /\ PostedDocuments' = PostedDocuments
  BY <1>1, <1>3, <1>4 DEF PostedPayments, PostedDocuments
<1>7. Sound'
  <2>1. Finite' /\ NeverOverAllocated'
    BY <1>1, <1>5, <1>6 DEF IInv, Finite, NeverOverAllocated
  <2>2. AllocationsAreCovered'
    BY <1>1, <1>3, <1>4, <1>5, <1>6 DEF IInv, AllocationsAreCovered
  <2>3. PostedIffEntered'
    BY <1>1, <1>3, <1>4, <1>6 DEF IInv, PostedIffEntered, EnteredOnce, EntriesOf, Entered
  <2>4. Receivable' = Receivable /\ Unallocated' = Unallocated
    BY <1>1, <1>6 DEF Receivable, Unallocated, Outstanding, Allocated, AllocatedIn
  <2>5. LedgerExplainsReceivable' /\ DriftIsExplained' /\ Linked'
    BY <1>1, <2>4, SameLedger DEF IInv, LedgerExplainsReceivable, DriftIsExplained, Balance
  <2> QED
    BY <2>1, <2>2, <2>3, <2>5 DEF Sound
<1>8. RespectsLocks(r)
  BY <1>1, <1>3, <1>4, <1>5, SameLedger DEF RespectsLocks, Holds
<1> QED
  BY <1>1, <1>2, <1>4, <1>7, <1>8, CommitKeeps DEF TypeOK

\* A posted document is outstanding in full, and the ledger has its total.
LEMMA CommitPostedDocumentStep ==
  ASSUME IInv, NEW r \in Request, pc[r] = "commit", Finish(r, "done"),
         CommitPostedDocument(r)
  PROVE  IInv'
<1>0. PICK d, e : /\ d = cmd[r].document
                  /\ e = [by |-> r, source |-> DocumentRow(d), reverses |-> None,
                          control |-> Total[d]]
  OBVIOUS
<1>1. /\ document' = [document EXCEPT ![d] = "posted"]
      /\ payment' = payment
      /\ ~Entered(DocumentRow(d))
      /\ ledger' = ledger \cup {e}
  BY <1>0 DEF CommitPostedDocument, Enter
<1>2. TypeOK /\ Ready(r) /\ cmd[r] \in Command
  BY OwnType DEF Active, Terminal
<1>3. d \in Document /\ Holds(r, DocumentRow(d)) /\ document[d] = "draft"
  BY <1>0, <1>2, FieldType DEF CommitPostedDocument, Ready, Posts, Committing
<1>4. /\ document' \in [Document -> {"none", "draft", "posted"}]
      /\ document'[d] = "posted"
      /\ \A x \in Document \ {d} : document'[x] = document[x]
  BY <1>1, <1>2, <1>3 DEF TypeOK
<1>5. \A x \in Document : Allocated(x)' = Allocated(x) /\ Outstanding(x)' = Outstanding(x)
  BY <1>1 DEF Outstanding, Allocated, AllocatedIn, PostedPayments
<1>6. PostedPayments' = PostedPayments /\ PostedDocuments' = PostedDocuments \cup {d}
  BY <1>1, <1>3, <1>4 DEF PostedPayments, PostedDocuments
<1>7. /\ e \in LedgerEntry /\ e.source = DocumentRow(d) /\ e.reverses = None
      /\ e.control = Total[d] /\ e.source \in Posting /\ e.source \notin Hand
  <2>1. DocumentRow(d) \in Posting /\ Total[d] \in Int
    BY <1>3, RowType, DocumentAssumption
  <2>2. DocumentRow(d) \in Source /\ DocumentRow(d) \notin Hand
    BY <2>1, SourceType
  <2> QED
    BY <1>0, <2>1, <2>2 DEF LedgerEntry
<1>8. /\ ledger' \subseteq LedgerEntry /\ IsFiniteSet(ledger') /\ Linked'
      /\ EnteredOnce(DocumentRow(d), Total[d])'
      /\ \A s \in Source \ {DocumentRow(d)} :
           /\ Entered(s)' <=> Entered(s)
           /\ \A c \in Int : EnteredOnce(s, c)' <=> EnteredOnce(s, c)
      /\ \A s \in Source :
           Entered(s) => Entered(s)' /\ (Reversible(s)' <=> Reversible(s))
      /\ Balance(ledger)' = Balance(ledger) + Total[d] /\ Balance(ledger) \in Int
      /\ Balance({x \in ledger : x.source \in Posting})'
           = Balance({x \in ledger : x.source \in Posting}) + Total[d]
      /\ Balance(HandEntries)' = Balance(HandEntries)
      /\ Balance(ReversedEntries)' = Balance(ReversedEntries)
  <2>1. \A s \in Source : e.source # Reversal(s) /\ s # e.reverses
    BY <1>1, <1>7, SourceType
  <2> QED
    BY <1>1, <1>7, <2>1, EntryStep, PostingStep
<1>9. Outstanding(d) = Total[d]
  <2>1. ~(Allocated(d) > 0)
    BY <1>3 DEF IInv, AllocationsAreCovered
  <2> QED
    BY <1>2, <1>3, <2>1, AllocatedType DEF Outstanding, IInv
<1>10. Receivable' = Receivable + Total[d]
  <2> DEFINE f == [x \in Document |-> Outstanding(x)]
             g == [x \in PostedDocuments |-> Outstanding(x)]
             h == [x \in PostedDocuments \cup {d} |-> Outstanding(x)]
  <2>1. /\ PostedDocuments \in SUBSET Document /\ d \notin PostedDocuments
        /\ PostedDocuments \cup {d} \in SUBSET Document
        /\ IsFiniteSet(PostedDocuments) /\ IsFiniteSet(PostedDocuments \cup {d})
    BY <1>3, DocumentAssumption, FS_Subset DEF PostedDocuments
  <2>2. \A x \in Document : f[x] = Outstanding(x) /\ f[x] \in Int
    BY <1>2, AllocatedType DEF IInv
  <2>3. /\ \A x \in PostedDocuments : f[x] \in Int /\ g[x] = f[x]
        /\ \A x \in PostedDocuments \cup {d} : f[x] \in Int /\ h[x] = f[x]
    BY <2>1, <2>2
  <2>4. Receivable = SumFunctionOnSet(g, PostedDocuments)
    BY DEF Receivable
  <2>5. Receivable' = SumFunctionOnSet(h, PostedDocuments \cup {d})
    <3>1. [x \in PostedDocuments |-> Outstanding(x)]' = h
      BY <1>3, <1>5, <1>6, <2>1
    <3> HIDE DEF h
    <3> QED
      BY <1>6, <3>1 DEF Receivable
  <2> HIDE DEF f, g, h
  <2>6. SumFunctionOnSet(f, PostedDocuments) = SumFunctionOnSet(g, PostedDocuments)
    BY <2>1, <2>3, SumEqual
  <2>7. SumFunctionOnSet(f, PostedDocuments \cup {d})
          = SumFunctionOnSet(h, PostedDocuments \cup {d})
    BY <2>1, <2>3, SumEqual
  <2>8. SumFunctionOnSet(f, PostedDocuments \cup {d})
          = f[d] + SumFunctionOnSet(f, PostedDocuments)
    BY <2>1, <2>3, SumAdd
  <2>9. SumFunctionOnSet(f, PostedDocuments) \in Int
    BY <2>1, <2>3, SumInt
  <2> QED
    BY <1>3, <1>9, <2>2, <2>4, <2>5, <2>6, <2>7, <2>8, <2>9
<1>11. Sound'
  <2>1. Finite' /\ NeverOverAllocated'
    BY <1>5, <1>6, <1>8 DEF IInv, Finite, NeverOverAllocated
  <2>2. AllocationsAreCovered'
    BY <1>1, <1>4, <1>5, <1>6 DEF IInv, AllocationsAreCovered
  <2>3. PostedIffEntered'
    <3>1. \A x \in Document \ {d} :
            IF document'[x] = "posted" THEN EnteredOnce(DocumentRow(x), Total[x])'
            ELSE ~Entered(DocumentRow(x))'
      BY <1>3, <1>4, <1>8, RowType, SourceType, DocumentAssumption DEF IInv, PostedIffEntered
    <3>2. \A p \in Payment :
            IF p \in PostedPayments'
            THEN EnteredOnce(PaymentOf(p), Effect(p))'
            ELSE ~Entered(PaymentOf(p))'
      <4>1. \A p \in PostedPayments : Effect(p) \in Int /\ Effect(p)' = Effect(p)
        BY <1>1, <1>2, EffectType DEF Effect
      <4>2. \A p \in Payment : PaymentOf(p) \in Source \ {DocumentRow(d)}
        BY <1>3, RowType, SourceType
      <4> QED
        BY <1>6, <1>8, <4>1, <4>2, EnteredEffects DEF IInv
    <3> QED
      BY <1>4, <1>8, <3>1, <3>2 DEF PostedIffEntered, Effect
  <2>4. LedgerExplainsReceivable' /\ DriftIsExplained'
    <3>1. Unallocated' = Unallocated
      BY <1>1, <1>6 DEF Unallocated
    <3>2. /\ Receivable \in Int /\ Unallocated \in Int /\ Total[d] \in Int
          /\ Balance(HandEntries) \in Int /\ Balance(ReversedEntries) \in Int
      BY <1>2, <1>3, SumTypes, BalanceType, DocumentAssumption
      DEF IInv, HandEntries, ReversedEntries
    <3> QED
      BY <1>8, <1>10, <3>1, <3>2 DEF IInv, LedgerExplainsReceivable, DriftIsExplained
  <2> QED
    BY <1>8, <2>1, <2>2, <2>3, <2>4 DEF Sound
<1>12. RespectsLocks(r)
  BY <1>1, <1>3, <1>4, <1>5, <1>8 DEF RespectsLocks, Holds
<1> QED
  BY <1>1, <1>2, <1>4, <1>8, <1>11, <1>12, CommitKeeps DEF TypeOK

\* A draft payment allocates nothing yet; its row is new.
LEMMA CommitPaymentStep ==
  ASSUME IInv, NEW r \in Request, pc[r] = "commit", Finish(r, "done"), CommitPayment(r)
  PROVE  IInv'
<1>0. PICK row : row = [status |-> "draft", amount |-> cmd[r].amount,
                        allocations |-> cmd[r].allocations, unapplied |-> cmd[r].unapplied]
  OBVIOUS
<1>1. /\ payment' = [payment EXCEPT ![r] = row]
      /\ document' = document /\ ledger' = ledger
  BY <1>0 DEF CommitPayment
<1>2. TypeOK /\ Ready(r) /\ cmd[r] \in Command
  BY OwnType DEF Active, Terminal
<1>3. row \in PaymentRow /\ row.status = "draft"
  BY <1>0, <1>2, FieldType DEF CommitPayment, PaymentRow
<1>4. r \in Payment /\ payment[r] = None
  BY DEF IInv, PaymentsAreDone, Payment
<1>5. /\ payment' \in [Payment -> PaymentRow \cup {None}]
      /\ payment'[r] = row
      /\ \A p \in Payment \ {r} : payment'[p] = payment[p]
  BY <1>1, <1>2, <1>3, <1>4 DEF TypeOK
<1>6. /\ PostedPayments' = PostedPayments
      /\ \A p \in PostedPayments : p # r /\ payment'[p] = payment[p]
  BY <1>3, <1>4, <1>5 DEF PostedPayments
<1>7. \A d \in Document : Allocated(d)' = Allocated(d) /\ Outstanding(d)' = Outstanding(d)
  <2> SUFFICES ASSUME NEW d \in Document PROVE Allocated(d)' = Allocated(d)
    BY DEF Outstanding
  <2>1. [p \in PostedPayments' |-> payment'[p].allocations[d]]
          = [p \in PostedPayments |-> payment[p].allocations[d]]
    BY <1>6
  <2> QED
    BY <1>6, <2>1 DEF Allocated, AllocatedIn
<1>8. Sound'
  <2>1. Finite' /\ NeverOverAllocated'
    BY <1>1, <1>6, <1>7 DEF IInv, Finite, NeverOverAllocated
  <2>2. AllocationsAreCovered'
    BY <1>1, <1>6, <1>7 DEF IInv, AllocationsAreCovered
  <2>3. PostedIffEntered'
    BY <1>1, <1>6 DEF IInv, PostedIffEntered, EnteredOnce, EntriesOf, Entered
  <2>4. LedgerExplainsReceivable' /\ DriftIsExplained' /\ Linked'
    <3>1. PostedDocuments' = PostedDocuments /\ PostedDocuments \subseteq Document
      BY <1>1 DEF PostedDocuments
    <3>2. [d \in PostedDocuments |-> Outstanding(d)]' = [d \in PostedDocuments |-> Outstanding(d)]
      BY <1>7, <3>1
    <3>3. Receivable' = Receivable
      BY <3>1, <3>2 DEF Receivable
    <3>4. Unallocated' = Unallocated
      <4>1. [p \in PostedPayments |-> OnAccount(payment[p])]'
              = [p \in PostedPayments |-> OnAccount(payment[p])]
        BY <1>6 DEF OnAccount, SumOf
      <4> QED
        BY <1>6, <4>1 DEF Unallocated
    <3> QED
      BY <1>1, <3>3, <3>4, SameLedger DEF IInv, LedgerExplainsReceivable, DriftIsExplained, Balance
  <2> QED
    BY <2>1, <2>2, <2>3, <2>4 DEF Sound
<1>9. RespectsLocks(r)
  BY <1>1, <1>3, <1>4, <1>5, <1>7, SameLedger DEF RespectsLocks
<1> QED
  BY <1>1, <1>2, <1>4, <1>5, <1>8, <1>9, CommitKeeps DEF TypeOK

\* What is allocated to a document grows by the allocation of the payment that is posted.
LEMMA AllocatedGrows ==
  ASSUME TypeOK, Finite, NEW p \in Payment, payment[p] # None, p \notin PostedPayments,
         payment' = [payment EXCEPT ![p].status = "posted"]
  PROVE  /\ payment' \in [Payment -> PaymentRow \cup {None}]
         /\ \A q \in Payment \ {p} : payment'[q] = payment[q]
         /\ payment'[p] # None
         /\ payment'[p].allocations = payment[p].allocations
         /\ payment'[p].amount = payment[p].amount
         /\ payment'[p].unapplied = payment[p].unapplied
         /\ PostedPayments' = PostedPayments \cup {p}
         /\ IsFiniteSet(PostedPayments')
         /\ \A d \in Document : Allocated(d)' = Allocated(d) + payment[p].allocations[d]
<1>1. PICK row : row = [payment[p] EXCEPT !.status = "posted"]
  OBVIOUS
<1>2. payment[p] \in PaymentRow
  BY DEF TypeOK
<1>3. /\ row \in PaymentRow /\ row.status = "posted"
      /\ row.allocations = payment[p].allocations /\ row.amount = payment[p].amount
      /\ row.unapplied = payment[p].unapplied
  BY <1>1, <1>2 DEF PaymentRow
<1>4. payment' = [payment EXCEPT ![p] = row]
  BY <1>1
<1>5. /\ payment' \in [Payment -> PaymentRow \cup {None}]
      /\ payment'[p] = row
      /\ \A q \in Payment \ {p} : payment'[q] = payment[q]
  BY <1>3, <1>4 DEF TypeOK
<1>6. PostedPayments' = PostedPayments \cup {p} /\ row # None
  BY <1>3, <1>5, NoneIsNothing DEF PostedPayments
<1>7. IsFiniteSet(PostedPayments')
  BY <1>6, FS_AddElement DEF Finite
<1>8. ASSUME NEW d \in Document
      PROVE  Allocated(d)' = Allocated(d) + payment[p].allocations[d]
  <2>1. PICK posted, f, g, h :
          /\ posted = PostedPayments
          /\ f = [q \in Payment |-> payment[q].allocations[d]]
          /\ g = [q \in posted |-> payment[q].allocations[d]]
          /\ h = [q \in posted \cup {p} |-> payment'[q].allocations[d]]
    OBVIOUS
  <2>2. /\ IsFiniteSet(posted) /\ p \notin posted /\ posted \subseteq Payment
        /\ IsFiniteSet(posted \cup {p})
    BY <1>6, <1>7, <2>1 DEF Finite, PostedPayments
  <2>3. \A q \in posted \cup {p} : f[q] \in Int /\ f[q] = payment[q].allocations[d]
    <3>1. \A q \in posted \cup {p} : q \in Payment /\ payment[q] \in PaymentRow
      BY <1>2, <2>1, PostedRow
    <3>2. \A q \in posted \cup {p} : payment[q].allocations \in [Document -> Nat]
      BY <3>1 DEF PaymentRow, Allocation
    <3> QED
      BY <2>1, <3>1, <3>2
  <2>4. \A q \in posted : g[q] = f[q]
    BY <2>1, <2>3
  <2>5. \A q \in posted \cup {p} : h[q] = f[q]
    BY <1>3, <1>5, <2>1, <2>2, <2>3
  <2>6. Allocated(d) = SumFunctionOnSet(g, posted)
    BY <2>1 DEF Allocated, AllocatedIn
  <2>7. Allocated(d)' = SumFunctionOnSet(h, posted \cup {p})
    BY <1>6, <2>1 DEF Allocated, AllocatedIn
  <2>8. SumFunctionOnSet(f, posted) = SumFunctionOnSet(g, posted)
    BY <2>2, <2>3, <2>4, SumEqual
  <2>9. SumFunctionOnSet(f, posted \cup {p}) = SumFunctionOnSet(h, posted \cup {p})
    BY <2>2, <2>3, <2>5, SumEqual
  <2>10. SumFunctionOnSet(f, posted \cup {p}) = f[p] + SumFunctionOnSet(f, posted)
    BY <2>2, <2>3, SumAdd
  <2>11. SumFunctionOnSet(f, posted) \in Int
    BY <2>2, <2>3, SumInt
  <2> QED
    BY <2>3, <2>6, <2>7, <2>8, <2>9, <2>10, <2>11
<1> QED
  BY <1>3, <1>5, <1>6, <1>7, <1>8

\* What payments leave on the control account grows by what this one leaves.
LEMMA UnallocatedGrows ==
  ASSUME TypeOK, Finite, NEW p \in Payment, payment[p] # None, p \notin PostedPayments,
         payment' = [payment EXCEPT ![p].status = "posted"]
  PROVE  /\ Unallocated' = Unallocated + OnAccount(payment[p])
         /\ \A q \in Payment : payment[q] # None => OnAccount(payment[q])' = OnAccount(payment[q])
<1>1. /\ PostedPayments' = PostedPayments \cup {p}
      /\ \A q \in Payment \ {p} : payment'[q] = payment[q]
      /\ payment'[p].allocations = payment[p].allocations
      /\ payment'[p].amount = payment[p].amount
      /\ payment'[p].unapplied = payment[p].unapplied
  BY AllocatedGrows
<1>2. \A q \in Payment : OnAccount(payment[q])' = OnAccount(payment[q])
  BY <1>1 DEF OnAccount, SumOf
<1>3. PICK posted, f, g, h :
        /\ posted = PostedPayments
        /\ f = [q \in Payment |-> OnAccount(payment[q])]
        /\ g = [q \in posted |-> OnAccount(payment[q])]
        /\ h = [q \in posted \cup {p} |-> OnAccount(payment[q])']
  OBVIOUS
<1>4. IsFiniteSet(posted) /\ p \notin posted /\ posted \subseteq Payment
  BY <1>3 DEF Finite, PostedPayments
<1>5. \A q \in posted \cup {p} : q \in Payment /\ payment[q] \in PaymentRow
  BY <1>3, PostedRow DEF TypeOK
<1>6. \A q \in posted \cup {p} : f[q] \in Int /\ h[q] = f[q]
  BY <1>2, <1>3, <1>5, OnAccountType
<1>7. \A q \in posted : g[q] = f[q]
  BY <1>3, <1>4
<1>8. /\ IsFiniteSet(posted \cup {p})
      /\ SumFunctionOnSet(f, posted \cup {p}) = f[p] + SumFunctionOnSet(f, posted)
  BY <1>4, <1>6, SumAdd
<1>9. SumFunctionOnSet(f, posted) = SumFunctionOnSet(g, posted)
  BY <1>4, <1>6, <1>7, SumEqual
<1>10. SumFunctionOnSet(f, posted \cup {p}) = SumFunctionOnSet(h, posted \cup {p})
  BY <1>6, <1>8, SumEqual
<1>11. SumFunctionOnSet(f, posted) \in Int
  BY <1>4, <1>6, SumInt
<1>12. Unallocated = SumFunctionOnSet(g, posted)
  BY <1>3 DEF Unallocated
<1>13. Unallocated' = SumFunctionOnSet(h, posted \cup {p})
  BY <1>1, <1>3 DEF Unallocated
<1>14. f[p] = OnAccount(payment[p]) /\ f[p] \in Int
  BY <1>3, <1>6
<1>15. Unallocated' = Unallocated + OnAccount(payment[p])
  BY <1>8, <1>9, <1>10, <1>11, <1>12, <1>13, <1>14
<1> QED
  BY <1>2, <1>15

\* Only posted documents are allocated to: the open balance falls by the allocations.
LEMMA ReceivableFalls ==
  ASSUME TypeOK, Finite, TypeOK', Finite', document' = document, NEW a \in Allocation,
         \A d \in Document : a[d] > 0 => document[d] = "posted",
         \A d \in Document : Outstanding(d)' = Outstanding(d) - a[d]
  PROVE  /\ Receivable' = Receivable - SumOf(a)
         /\ Receivable \in Int
<1>1. PICK posted, f, g :
        /\ posted = PostedDocuments
        /\ f = [d \in posted |-> Outstanding(d)]
        /\ g = [d \in posted |-> Outstanding(d)']
  OBVIOUS
<1>2. posted \in SUBSET Document /\ IsFiniteSet(posted) /\ PostedDocuments' = posted
  BY <1>1, DocumentAssumption, FS_Subset DEF PostedDocuments
<1>3. Receivable = SumFunctionOnSet(f, posted) /\ Receivable' = SumFunctionOnSet(g, posted)
  BY <1>1, <1>2 DEF Receivable
<1>4. \A d \in posted : f[d] \in Int /\ a[d] \in Int /\ g[d] = f[d] - a[d]
  BY <1>1, <1>2, AllocatedType DEF Allocation
<1>5. SumFunctionOnSet(g, posted) = SumFunctionOnSet(f, posted) - SumFunctionOnSet(a, posted)
  BY <1>2, <1>4, SumDifference
<1>6. /\ \A d \in Document : a[d] \in Int
      /\ \A d \in Document \ posted : a[d] = 0
  <2>1. \A d \in Document : a[d] \in Nat
    BY DEF Allocation
  <2>2. \A d \in Document \ posted : ~(a[d] > 0)
    BY <1>1 DEF PostedDocuments
  <2> QED
    BY <2>1, <2>2
<1>7. SumFunctionOnSet(a, Document) = SumFunctionOnSet(a, posted)
  BY <1>2, <1>6, DocumentAssumption, SumZeros
<1>8. SumFunctionOnSet(f, posted) \in Int
  BY <1>2, <1>4, SumInt
<1> QED
  BY <1>3, <1>5, <1>7, <1>8 DEF SumOf

\* The payment has locked and checked whatever it allocates, so that posting it
\* settles nothing beyond its total, and the balance falls by what is settled.
LEMMA CommitPostedPaymentStep ==
  ASSUME IInv, NEW r \in Request, pc[r] = "commit", Finish(r, "done"),
         CommitPostedPayment(r)
  PROVE  IInv'
<1>0. PICK p, a, c, e : /\ p = cmd[r].payment
                        /\ a = payment[p].allocations
                        /\ c = Effect(p)
                        /\ e = [by |-> r, source |-> PaymentOf(p), reverses |-> None,
                                control |-> c]
  OBVIOUS
<1>1. /\ payment' = [payment EXCEPT ![p].status = "posted"]
      /\ document' = document
      /\ ~Entered(PaymentOf(p))
      /\ ledger' = ledger \cup {e}
  BY <1>0 DEF CommitPostedPayment, Enter, ControlEffect, Effect
<1>2. TypeOK /\ Finite /\ Ready(r) /\ cmd[r] \in Command /\ cmd[r].op = "postPayment"
  BY OwnType DEF Active, Terminal, IInv, CommitPostedPayment
<1>3. /\ p \in Payment /\ payment[p] # None
      /\ Holds(r, PaymentOf(p)) /\ payment[p].status = "draft"
      /\ \A d \in Document : a[d] > 0 => Covered(r, d, a)
      /\ Fits(payment[p])
  BY <1>0, <1>2, FieldType DEF Ready, Settles, Committing, Active, Terminal
<1>4. /\ payment[p] \in PaymentRow /\ a \in Allocation /\ payment[p].amount \in Nat
      /\ SumOf(a) \in Nat /\ OnAccount(payment[p]) \in Int
      /\ c \in Int /\ c = -(SumOf(a) + OnAccount(payment[p]))
      /\ \A d \in Document : a[d] \in Nat
      /\ p \notin PostedPayments
  <2>1. payment[p] \in PaymentRow /\ p \notin PostedPayments
    BY <1>2, <1>3 DEF TypeOK, PostedPayments
  <2>2. a \in Allocation /\ payment[p].amount \in Nat
    BY <1>0, <2>1 DEF PaymentRow
  <2> QED
    BY <1>0, <2>1, <2>2, SumOfType, OnAccountType DEF Allocation, Effect
<1>5. /\ payment' \in [Payment -> PaymentRow \cup {None}]
      /\ \A q \in Payment \ {p} : payment'[q] = payment[q]
      /\ payment'[p] # None
      /\ payment'[p].allocations = a
      /\ payment'[p].amount = payment[p].amount
      /\ payment'[p].unapplied = payment[p].unapplied
      /\ PostedPayments' = PostedPayments \cup {p}
      /\ IsFiniteSet(PostedPayments')
      /\ \A d \in Document : Allocated(d)' = Allocated(d) + a[d]
  <2>1. /\ TypeOK /\ Finite /\ p \in Payment /\ payment[p] # None /\ p \notin PostedPayments
        /\ payment' = [payment EXCEPT ![p].status = "posted"]
        /\ a = payment[p].allocations
    BY <1>0, <1>1, <1>2, <1>3, <1>4
  <2>2. /\ payment' \in [Payment -> PaymentRow \cup {None}]
        /\ \A q \in Payment \ {p} : payment'[q] = payment[q]
        /\ payment'[p] # None
        /\ payment'[p].allocations = payment[p].allocations
        /\ payment'[p].amount = payment[p].amount
        /\ payment'[p].unapplied = payment[p].unapplied
        /\ PostedPayments' = PostedPayments \cup {p}
        /\ IsFiniteSet(PostedPayments')
        /\ \A d \in Document : Allocated(d)' = Allocated(d) + payment[p].allocations[d]
    BY <2>1, AllocatedGrows
  <2> QED
    BY <2>1, <2>2
<1>6. /\ e \in LedgerEntry /\ e.source = PaymentOf(p) /\ e.reverses = None
      /\ e.control = c /\ e.source \in Posting /\ e.source \notin Hand
  BY <1>0, <1>3, <1>4, RowType, SourceType DEF LedgerEntry
<1>7. /\ ledger' \subseteq LedgerEntry /\ IsFiniteSet(ledger') /\ Linked'
      /\ EnteredOnce(PaymentOf(p), c)'
      /\ \A s \in Source \ {PaymentOf(p)} :
           /\ Entered(s)' <=> Entered(s)
           /\ \A n \in Int : EnteredOnce(s, n)' <=> EnteredOnce(s, n)
      /\ \A s \in Source :
           Entered(s) => Entered(s)' /\ (Reversible(s)' <=> Reversible(s))
      /\ Balance(ledger)' = Balance(ledger) + c /\ Balance(ledger) \in Int
      /\ Balance({x \in ledger : x.source \in Posting})'
           = Balance({x \in ledger : x.source \in Posting}) + c
      /\ Balance(HandEntries)' = Balance(HandEntries)
      /\ Balance(ReversedEntries)' = Balance(ReversedEntries)
  <2>1. \A s \in Source : e.source # Reversal(s) /\ s # e.reverses
    BY <1>1, <1>6, SourceType
  <2> QED
    BY <1>1, <1>6, <2>1, EntryStep, PostingStep
<1>8. \A d \in Document :
        /\ Allocated(d) \in Nat /\ Total[d] \in Nat
        /\ Outstanding(d) = Total[d] - Allocated(d)
        /\ Outstanding(d)' = Outstanding(d) - a[d]
  BY <1>2, <1>4, <1>5, AllocatedType DEF Outstanding
<1>9. \A d \in Document : a[d] > 0 => document[d] = "posted" /\ a[d] <= Outstanding(d)
  BY <1>3 DEF Covered
<1>10. Sound'
  <2>1. Finite'
    BY <1>5, <1>7 DEF Finite
  <2>2. NeverOverAllocated'
    <3> SUFFICES ASSUME NEW d \in Document PROVE Allocated(d)' <= Total[d]
      BY DEF NeverOverAllocated
    <3>1. CASE a[d] > 0
      BY <1>4, <1>5, <1>8, <1>9, <3>1
    <3>2. CASE ~(a[d] > 0)
      <4>1. a[d] = 0 /\ Allocated(d) <= Total[d]
        BY <1>4, <3>2 DEF IInv, NeverOverAllocated
      <4> QED
        BY <1>5, <1>8, <4>1
    <3> QED
      BY <3>1, <3>2
  <2>3. AllocationsAreCovered'
    <3>1. \A d \in Document : Allocated(d)' > 0 => document'[d] = "posted"
      <4> SUFFICES ASSUME NEW d \in Document, Allocated(d)' > 0 PROVE document[d] = "posted"
        BY <1>1
      <4>1. a[d] > 0 \/ Allocated(d) > 0
        <5>1. a[d] \in Nat /\ Allocated(d) \in Nat /\ Allocated(d)' = Allocated(d) + a[d]
          BY <1>4, <1>5, <1>8
        <5> QED
          BY <5>1
      <4> QED
        BY <1>9, <4>1 DEF IInv, AllocationsAreCovered
    <3>2. SumOf(a) <= payment[p].amount
      <4>1. SumOf(a) \in Nat /\ payment[p].amount \in Nat
        BY <1>4
      <4>2. SumOf(a) = payment[p].amount \/ SumOf(a) < payment[p].amount
        BY <1>0, <1>3 DEF Fits
      <4> QED
        BY <4>1, <4>2
    <3>3. \A q \in PostedPayments : q \in Payment \ {p}
      BY <1>4 DEF PostedPayments
    <3>4. \A q \in PostedPayments' : SumOf(payment'[q].allocations) <= payment'[q].amount
      BY <1>5, <3>2, <3>3 DEF IInv, AllocationsAreCovered
    <3>5. \A q \in PostedPayments' : (SumOf(payment[q].allocations) <= payment[q].amount)'
      BY <3>4 DEF SumOf
    <3> QED
      BY <3>1, <3>5 DEF AllocationsAreCovered
  <2>4. PostedIffEntered'
    <3>1. \A x \in Document :
            IF document'[x] = "posted" THEN EnteredOnce(DocumentRow(x), Total[x])'
            ELSE ~Entered(DocumentRow(x))'
      <4>1. \A x \in Document : DocumentRow(x) \in Source \ {PaymentOf(p)}
        BY <1>3, RowType, SourceType
      <4> QED
        BY <1>1, <1>7, <1>8, <4>1 DEF IInv, PostedIffEntered
    <3>2. \A q \in Payment \ {p} :
            IF q \in PostedPayments'
            THEN EnteredOnce(PaymentOf(q), Effect(q))'
            ELSE ~Entered(PaymentOf(q))'
      <4>1. ASSUME NEW q \in Payment \ {p}
            PROVE  IF q \in PostedPayments'
                   THEN EnteredOnce(PaymentOf(q), Effect(q))'
                   ELSE ~Entered(PaymentOf(q))'
        <5>1. PaymentOf(q) \in Source \ {PaymentOf(p)}
          BY <1>3, RowType, SourceType
        <5>2. q \in PostedPayments' <=> q \in PostedPayments
          BY <1>5
        <5>3. CASE q \notin PostedPayments
          BY <1>7, <5>1, <5>2, <5>3 DEF IInv, PostedIffEntered
        <5>4. CASE q \in PostedPayments
          <6>1. Effect(q) \in Int /\ Effect(q)' = Effect(q)
            BY <1>2, <1>5, <5>4, EffectType DEF Effect, SumOf, OnAccount
          <6>2. EnteredOnce(PaymentOf(q), Effect(q))
            BY <5>4, EnteredEffects DEF IInv
          <6>3. EnteredOnce(PaymentOf(q), Effect(q))'
            BY <1>7, <5>1, <6>1, <6>2
          <6> QED
            BY <5>2, <5>4, <6>3
        <5> QED
          BY <5>3, <5>4
      <4> QED
        BY <4>1
    <3>3. p \in PostedPayments' /\ EnteredOnce(PaymentOf(p), Effect(p))'
      <4>1. Effect(p)' = Effect(p)
        BY <1>0, <1>5 DEF Effect, SumOf, OnAccount
      <4> QED
        BY <1>0, <1>5, <1>7, <4>1
    <3> QED
      BY <3>1, <3>2, <3>3 DEF PostedIffEntered, Effect
  <2>5. LedgerExplainsReceivable' /\ DriftIsExplained'
    <3>1. TypeOK'
      <4>1. /\ pc' \in [Request -> Label] /\ lock' \in [Locked -> Request \cup {None}]
            /\ cmd' = cmd /\ todo' = todo
        BY <1>2, FinishStep DEF Terminal, Finish
      <4> QED
        BY <1>1, <1>2, <1>5, <1>7, <4>1 DEF TypeOK
    <3>2. Receivable' = Receivable - SumOf(a) /\ Receivable \in Int
      BY <1>1, <1>2, <1>4, <1>8, <1>9, <2>1, <3>1, ReceivableFalls
    <3>3. Unallocated' = Unallocated + OnAccount(payment[p]) /\ Unallocated \in Int
      BY <1>1, <1>2, <1>3, <1>4, UnallocatedGrows, SumTypes
    <3>4. Balance(HandEntries) \in Int /\ Balance(ReversedEntries) \in Int
      BY BalanceType DEF HandEntries, ReversedEntries
    <3> QED
      BY <1>4, <1>7, <3>2, <3>3, <3>4 DEF IInv, LedgerExplainsReceivable, DriftIsExplained
  <2> QED
    BY <1>7, <2>1, <2>2, <2>3, <2>4, <2>5 DEF Sound
<1>11. RespectsLocks(r)
  <2>1. ASSUME NEW q \in Request \ {r}, NEW d \in Document, Holds(q, DocumentRow(d))
        PROVE  document'[d] = document[d] /\ Outstanding(d)' = Outstanding(d)
    <3>1. ~(a[d] > 0)
      BY <1>3, <2>1 DEF Covered, Holds
    <3>2. a[d] = 0
      BY <1>4, <3>1
    <3> QED
      BY <1>1, <1>8, <3>2
  <2>2. ASSUME NEW q \in Request \ {r}, NEW x \in Payment, payment[x] # None
        PROVE  /\ payment'[x] # None
               /\ Holds(q, PaymentOf(x)) => payment'[x] = payment[x]
    BY <1>3, <1>5, <2>2 DEF Holds
  <2> QED
    BY <1>7, <2>1, <2>2 DEF RespectsLocks
<1>12. \A x \in Payment : payment'[x] # None => payment[x] # None \/ x = r
  BY <1>3, <1>5
<1> QED
  BY <1>1, <1>2, <1>5, <1>7, <1>10, <1>11, <1>12, CommitKeeps DEF TypeOK

\* A reversal takes back what the one entry of its source has given the balance.
LEMMA ReversalStep ==
  ASSUME IInv, NEW r \in Request, Committing(r, "reverse"), CommitReversal(r)
  PROVE  \E e \in ledger, back \in LedgerEntry :
           /\ e \in LedgerEntry /\ e.source = cmd[r].entry /\ e.reverses = None
           /\ e.source \in Posting \cup Hand /\ e.source \notin Reversed
           /\ Holds(r, EntryOf(e.source))
           /\ back.source = Reversal(e.source) /\ back.reverses = e.source
           /\ back.control = -e.control /\ e.control \in Int
           /\ ~Entered(back.source) /\ ledger' = ledger \cup {back}
           /\ Balance(ReversedEntries)' = Balance(ReversedEntries) + e.control
           /\ {x \in ledger' : x.source \in Posting} = {x \in ledger : x.source \in Posting}
           /\ HandEntries' = HandEntries
<1>1. PICK e \in ledger :
        /\ e.source = cmd[r].entry
        /\ Enter(r, Reversal(e.source), e.source, -e.control)
  BY DEF CommitReversal
<1>2. PICK back : back = [by |-> r, source |-> Reversal(e.source), reverses |-> e.source,
                          control |-> -e.control]
  OBVIOUS
<1>3. TypeOK /\ Finite /\ Linked
  BY DEF IInv
<1>4. e.source \in Source /\ Holds(r, EntryOf(e.source)) /\ Reversible(e.source)
  BY <1>1, OwnType, FieldType DEF Ready, Reverses, Committing, Active, Terminal
<1>5. e \in LedgerEntry /\ e.control \in Int
  BY <1>1, <1>3 DEF TypeOK, LedgerEntry
<1>6. e.reverses = None /\ e.source \notin Reversed
  BY <1>1, <1>4 DEF Reversible
<1>7. e.source \in Posting \cup Hand
  BY <1>1, <1>3, <1>4, <1>6, SourceType DEF Linked
<1>8. /\ back \in LedgerEntry /\ back.source = Reversal(e.source)
      /\ back.reverses = e.source /\ back.control = -e.control
  BY <1>2, <1>4, <1>5, <1>7, SourceType DEF LedgerEntry
<1>9. ~Entered(back.source) /\ ledger' = ledger \cup {back}
  BY <1>1, <1>2 DEF Enter
<1>10. Balance(ReversedEntries)' = Balance(ReversedEntries) + e.control
  <2>1. \A x \in ledger : x.source \in Source /\ (x.source = e.source => x = e)
    BY <1>1, <1>3 DEF Linked, TypeOK, LedgerEntry
  <2>2. \A x \in ledger :
          Entered(Reversal(x.source))' <=> Entered(Reversal(x.source)) \/ x = e
    BY <1>4, <1>8, <1>9, <2>1, SourceType DEF Entered
  <2>3. back.reverses # None
    BY <1>4, <1>8, SourceType
  <2>4. ReversedEntries' = ReversedEntries \cup {e}
    BY <1>1, <1>6, <1>9, <2>2, <2>3 DEF ReversedEntries
  <2>5. /\ ReversedEntries \in SUBSET LedgerEntry /\ IsFiniteSet(ReversedEntries)
        /\ e \notin ReversedEntries
    BY <1>8, <1>9, BalanceType DEF ReversedEntries
  <2>6. Balance(ReversedEntries)' = Balance(ReversedEntries \cup {e})
    BY <2>4 DEF Balance
  <2> QED
    BY <1>5, <2>5, <2>6, BalanceGrows
<1>11. back.source \notin Posting /\ back.source \notin Hand
  BY <1>4, <1>8, SourceType
<1>12. /\ {x \in ledger' : x.source \in Posting} = {x \in ledger : x.source \in Posting}
       /\ HandEntries' = HandEntries
  BY <1>9, <1>11 DEF HandEntries
<1> QED
  BY <1>1, <1>4, <1>5, <1>6, <1>7, <1>8, <1>9, <1>10, <1>12

\* Entries of no document or payment: what is posted stays entered.
LEMMA OtherEntryKeeps ==
  ASSUME IInv, UNCHANGED <<document, payment>>, NEW s \in Source, s \notin Posting,
         \A t \in Source \ {s} : /\ Entered(t)' <=> Entered(t)
                                /\ \A c \in Int : EnteredOnce(t, c)' <=> EnteredOnce(t, c)
  PROVE  /\ NeverOverAllocated' /\ AllocationsAreCovered' /\ PostedIffEntered'
         /\ PostedPayments' = PostedPayments
         /\ Receivable' = Receivable /\ Unallocated' = Unallocated
         /\ \A d \in Document : Outstanding(d)' = Outstanding(d)
<1>1. /\ PostedPayments' = PostedPayments /\ PostedDocuments' = PostedDocuments
      /\ \A d \in Document : Allocated(d)' = Allocated(d) /\ Outstanding(d)' = Outstanding(d)
  BY DEF Outstanding, Allocated, AllocatedIn, PostedPayments, PostedDocuments
<1>2. NeverOverAllocated' /\ AllocationsAreCovered'
  BY <1>1 DEF IInv, NeverOverAllocated, AllocationsAreCovered
<1>3. Receivable' = Receivable /\ Unallocated' = Unallocated
  BY <1>1 DEF Receivable, Unallocated, Outstanding, Allocated, AllocatedIn
<1>4. \A t \in Posting : t \in Source \ {s}
  BY SourceType
<1>5. \A p \in PostedPayments : Effect(p) \in Int /\ Effect(p)' = Effect(p)
  BY EffectType DEF IInv, Effect
<1>6. \A d \in Document :
        IF document'[d] = "posted" THEN EnteredOnce(DocumentRow(d), Total[d])'
        ELSE ~Entered(DocumentRow(d))'
  BY <1>4, RowType, DocumentAssumption DEF IInv, PostedIffEntered
<1>7. \A p \in Payment :
        IF p \in PostedPayments' THEN EnteredOnce(PaymentOf(p), Effect(p))'
        ELSE ~Entered(PaymentOf(p))'
  BY <1>1, <1>4, <1>5, RowType, EnteredEffects DEF IInv
<1>8. PostedIffEntered'
  BY <1>6, <1>7 DEF PostedIffEntered, Effect
<1> QED
  BY <1>1, <1>2, <1>3, <1>8

LEMMA CommitReversalStep ==
  ASSUME IInv, NEW r \in Request, pc[r] = "commit", Finish(r, "done"), CommitReversal(r)
  PROVE  IInv'
<1>1. /\ Committing(r, "reverse") /\ UNCHANGED <<document, payment>>
      /\ TypeOK /\ Finite
  BY DEF CommitReversal, Committing, IInv
<1>2. PICK e \in ledger, back \in LedgerEntry :
        /\ e \in LedgerEntry /\ e.source = cmd[r].entry /\ e.reverses = None
        /\ e.source \in Posting \cup Hand /\ e.source \notin Reversed
        /\ Holds(r, EntryOf(e.source))
        /\ back.source = Reversal(e.source) /\ back.reverses = e.source
        /\ back.control = -e.control /\ e.control \in Int
        /\ ~Entered(back.source) /\ ledger' = ledger \cup {back}
        /\ Balance(ReversedEntries)' = Balance(ReversedEntries) + e.control
        /\ {x \in ledger' : x.source \in Posting} = {x \in ledger : x.source \in Posting}
        /\ HandEntries' = HandEntries
  BY <1>1, ReversalStep
<1>3. /\ back.source \in Source /\ back.source \notin Posting
      /\ Entered(e.source) /\ e.source \in Source
      /\ \A s \in Source : back.source = Reversal(s) => s = e.source
  <2>1. e.source \in Source /\ back.source \in Source
    BY <1>2 DEF LedgerEntry
  <2> QED
    BY <1>2, <2>1, SourceType DEF Entered
<1>4. /\ ledger' \subseteq LedgerEntry /\ IsFiniteSet(ledger') /\ Linked'
      /\ \A s \in Source \ {back.source} :
           /\ Entered(s)' <=> Entered(s)
           /\ \A c \in Int : EnteredOnce(s, c)' <=> EnteredOnce(s, c)
      /\ \A s \in Source :
           Entered(s) =>
             Entered(s)' /\ (s # back.reverses => (Reversible(s)' <=> Reversible(s)))
      /\ Balance(ledger)' = Balance(ledger) + back.control
      /\ Balance(ledger) \in Int
  BY <1>2, <1>3, EntryStep
<1>5. /\ NeverOverAllocated' /\ AllocationsAreCovered' /\ PostedIffEntered'
      /\ PostedPayments' = PostedPayments
      /\ Receivable' = Receivable /\ Unallocated' = Unallocated
      /\ \A d \in Document : Outstanding(d)' = Outstanding(d)
  BY <1>1, <1>3, <1>4, OtherEntryKeeps
<1>6. Finite'
  BY <1>1, <1>4, <1>5 DEF Finite
<1>7. LedgerExplainsReceivable'
  BY <1>2, <1>5 DEF IInv, LedgerExplainsReceivable, Balance
<1>8. DriftIsExplained'
  <2>1. Balance(HandEntries)' = Balance(HandEntries)
    BY <1>2 DEF Balance
  <2>2. /\ Receivable \in Int /\ Unallocated \in Int
        /\ Balance(HandEntries) \in Int /\ Balance(ReversedEntries) \in Int
    BY <1>1, SumTypes, BalanceType DEF HandEntries, ReversedEntries
  <2> QED
    BY <1>2, <1>4, <1>5, <2>1, <2>2 DEF IInv, DriftIsExplained
<1>9. Sound'
  BY <1>4, <1>5, <1>6, <1>7, <1>8 DEF Sound
<1>10. RespectsLocks(r)
  <2>1. \A q \in Request \ {r}, s \in Source :
          Entered(s) =>
            Entered(s)' /\ (Holds(q, EntryOf(s)) => (Reversible(s)' <=> Reversible(s)))
    BY <1>2, <1>4 DEF Holds
  <2> QED
    BY <1>1, <1>5, <2>1 DEF RespectsLocks
<1> QED
  BY <1>1, <1>4, <1>9, <1>10, CommitKeeps DEF TypeOK

\* What a client posts by hand: a new entry of its own, and perhaps the claim that
\* it reverses an entry, which has been there before and is locked.
LEMMA HandStep ==
  ASSUME IInv, NEW r \in Request, Committing(r, "postEntry"), CommitEntry(r)
  PROVE  \E e \in LedgerEntry :
           /\ e.source = ByHand(r) /\ e.source \in Hand /\ e.source \notin Posting
           /\ e.reverses = cmd[r].entry /\ e.control \in Int
           /\ ~Entered(e.source) /\ ledger' = ledger \cup {e}
           /\ e.reverses # None => Entered(e.reverses) /\ Holds(r, EntryOf(e.reverses))
<1>1. PICK e : e = [by |-> r, source |-> ByHand(r), reverses |-> cmd[r].entry,
                    control |-> cmd[r].control]
  OBVIOUS
<1>2. cmd[r].entry \in Source \cup {None} /\ cmd[r].control \in Int
  BY OwnType, FieldType DEF Committing, Active, Terminal
<1>3. e \in LedgerEntry /\ e.source = ByHand(r) /\ e.reverses = cmd[r].entry /\ e.control \in Int
  BY <1>1, <1>2, SourceType DEF LedgerEntry
<1>4. ~Entered(e.source) /\ ledger' = ledger \cup {e}
  BY <1>1 DEF CommitEntry, Enter
<1>5. e.reverses # None => Entered(e.reverses) /\ Holds(r, EntryOf(e.reverses))
  BY <1>3, OwnType DEF Ready, Reverses, Committing, Active, Terminal
<1> QED
  BY <1>3, <1>4, <1>5, SourceType

LEMMA CommitEntryStep ==
  ASSUME IInv, NEW r \in Request, pc[r] = "commit", Finish(r, "done"), CommitEntry(r)
  PROVE  IInv'
<1>1. /\ Committing(r, "postEntry") /\ UNCHANGED <<document, payment>>
      /\ TypeOK /\ Finite
  BY DEF CommitEntry, Committing, IInv
<1>2. PICK e \in LedgerEntry :
        /\ e.source = ByHand(r) /\ e.source \in Hand /\ e.source \notin Posting
        /\ e.reverses = cmd[r].entry /\ e.control \in Int
        /\ ~Entered(e.source) /\ ledger' = ledger \cup {e}
        /\ e.reverses # None => Entered(e.reverses) /\ Holds(r, EntryOf(e.reverses))
  BY <1>1, HandStep
<1>3. e.source \in Source /\ \A s \in Source : e.source # Reversal(s)
  BY <1>2, SourceType
<1>4. /\ ledger' \subseteq LedgerEntry /\ IsFiniteSet(ledger') /\ Linked'
      /\ \A s \in Source \ {e.source} :
           /\ Entered(s)' <=> Entered(s)
           /\ \A c \in Int : EnteredOnce(s, c)' <=> EnteredOnce(s, c)
      /\ \A s \in Source :
           Entered(s) =>
             Entered(s)' /\ (s # e.reverses => (Reversible(s)' <=> Reversible(s)))
      /\ Balance(ledger)' = Balance(ledger) + e.control
      /\ Balance(ledger) \in Int
  BY <1>2, <1>3, EntryStep
<1>5. /\ Balance({x \in ledger : x.source \in Posting})'
           = Balance({x \in ledger : x.source \in Posting})
      /\ Balance(HandEntries)' = Balance(HandEntries) + e.control
      /\ Balance(ReversedEntries)' = Balance(ReversedEntries)
  BY <1>2, PostingStep
<1>6. /\ NeverOverAllocated' /\ AllocationsAreCovered' /\ PostedIffEntered'
      /\ PostedPayments' = PostedPayments
      /\ Receivable' = Receivable /\ Unallocated' = Unallocated
      /\ \A d \in Document : Outstanding(d)' = Outstanding(d)
  BY <1>1, <1>2, <1>3, <1>4, OtherEntryKeeps
<1>7. Finite'
  BY <1>1, <1>4, <1>6 DEF Finite
<1>8. LedgerExplainsReceivable' /\ DriftIsExplained'
  <2>1. /\ Receivable \in Int /\ Unallocated \in Int
        /\ Balance(HandEntries) \in Int /\ Balance(ReversedEntries) \in Int
    BY <1>1, SumTypes, BalanceType DEF HandEntries, ReversedEntries
  <2> QED
    BY <1>2, <1>4, <1>5, <1>6, <2>1 DEF IInv, LedgerExplainsReceivable, DriftIsExplained
<1>9. Sound'
  BY <1>4, <1>6, <1>7, <1>8 DEF Sound
<1>10. RespectsLocks(r)
  <2>1. \A q \in Request \ {r}, s \in Source :
          Entered(s) =>
            Entered(s)' /\ (Holds(q, EntryOf(s)) => (Reversible(s)' <=> Reversible(s)))
    BY <1>2, <1>4, SourceType DEF Holds
  <2> QED
    BY <1>1, <1>6, <2>1 DEF RespectsLocks
<1> QED
  BY <1>1, <1>4, <1>9, <1>10, CommitKeeps DEF TypeOK

-----------------------------------------------------------------------------
(* The theorems.                                                           *)

LEMMA NextIInv == IInv /\ [Next]_vars => IInv'
<1> SUFFICES ASSUME IInv, [Next]_vars PROVE IInv'
  OBVIOUS
<1>1. CASE UNCHANGED vars
  BY <1>1, StutterStep
<1>2. CASE Next
  <2>1. PICK r \in Request : Begin(r) \/ Step(r) \/ Refuse(r) \/ Timeout(r)
    BY <1>2 DEF Next
  <2>2. CASE Begin(r)
    BY <2>2, BeginStep
  <2>3. CASE InsertDocument(r) \/ LockDocument(r)
    BY <2>3, DocumentStep
  <2>4. CASE LockPayment(r)
    BY <2>4, LockPaymentStep
  <2>5. CASE Allocate(r)
    BY <2>5, AllocateStep
  <2>6. CASE CheckAmount(r)
    BY <2>6, CheckAmountStep
  <2>7. CASE LockEntry(r) \/ LockNamed(r)
    BY <2>7, LockEntryStep
  <2>8. CASE Commit(r)
    BY <2>8, CommitDocumentStep, CommitPostedDocumentStep, CommitPaymentStep,
       CommitPostedPaymentStep, CommitReversalStep, CommitEntryStep DEF Commit
  <2>9. CASE Rollback(r) \/ Refuse(r) \/ Timeout(r)
    <3>1. Active(r) /\ Undo(r)
      BY <2>9 DEF Rollback, Refuse, Timeout, Waiting, WaitsFor, Wanted, Active, Terminal
    <3> QED
      BY <3>1, UndoStep
  <2> QED
    BY <2>1, <2>2, <2>3, <2>4, <2>5, <2>6, <2>7, <2>8, <2>9 DEF Step
<1> QED
  BY <1>1, <1>2

\* What the requests hold and have checked stays as they found it, for every
\* set of requests, documents, payments and amounts.
THEOREM Inductive == Spec => []IInv
<1>1. Init => IInv
  BY InitIInv
<1>2. IInv /\ [Next]_vars => IInv'
  BY NextIInv
<1> QED
  BY <1>1, <1>2, PTL DEF Spec

\* No document is settled for more than its total, however postings of payments
\* for the same documents interleave.
THEOREM NothingIsOverAllocated == Spec => []NeverOverAllocated
BY Inductive, PTL DEF IInv

\* Posted payments allocate to posted documents only, and no more than they pay.
THEOREM AllocationsCovered == Spec => []AllocationsAreCovered
BY Inductive, PTL DEF IInv

\* A document or payment is posted exactly when the ledger has its one entry,
\* for its amount.
THEOREM PostingsAreEntered == Spec => []PostedIffEntered
BY Inductive, PTL DEF IInv

\* The balance differs from what the documents have outstanding by what payments
\* left on account, what clients posted by hand, to this account and at any time,
\* and the entries that were reversed, each of them taken off once.
THEOREM DriftExplained == Spec => []DriftIsExplained
BY Inductive, PTL DEF IInv

\* What documents and payments have posted to their control account adds up to
\* what the documents have outstanding.
THEOREM LedgerExplains == Spec => []LedgerExplainsReceivable
BY Inductive, PTL DEF IInv

-----------------------------------------------------------------------------
(* Documents, payments and their entries implement the indivisible list of *)
(* open items of OpenItems: a commit is one of its steps, and the other    *)
(* statements of a transaction are none.                                   *)

\* The open amount of a document, as Items reads it off the rows.
Open(d) == IF document[d] = "posted" THEN Outstanding(d) ELSE 0

\* The instance has a name of its own for the sum.
LEMMA SameSum ==
  ASSUME NEW f, NEW S
  PROVE  Items!SumFunctionOnSet(f, S) = SumFunctionOnSet(f, S)
BY DEF Items!SumFunctionOnSet, Items!FoldFunctionOnSet, Items!MapThenFoldSet,
       SumFunctionOnSet, FoldFunctionOnSet, MapThenFoldSet

\* The instance sums up, and divides payments, as Settlement does.
LEMMA SamePaid ==
  ASSUME NEW row
  PROVE  Items!Paid(row) = SumOf(row.allocations) /\ Items!Rest(row) = OnAccount(row)
<1>1. Items!Paid(row) = SumOf(row.allocations)
  BY SameSum DEF Items!Paid, SumOf
<1> QED
  BY <1>1 DEF Items!Rest, OnAccount

\* An entry of a document or payment adds its effect to the balance.
LEMMA PostingImplements ==
  ASSUME IInv, NEW e \in LedgerEntry, e.source \in Posting, e.reverses = None,
         ~Entered(e.source), ledger' = ledger \cup {e}
  PROVE  /\ Reversed' = Reversed /\ HandEntries' = HandEntries
         /\ Balance(ledger)' = Balance(ledger) + e.control /\ Balance(ledger) \in Int
<1>1. e.source \notin Hand /\ \A s \in Source : e.source # Reversal(s)
  BY SourceType
<1>2. Reversed' = Reversed \cup ({e.reverses} \ {None})
      /\ Balance(ledger)' = Balance(ledger) + e.control /\ Balance(ledger) \in Int
  BY <1>1, EntryStep
<1>3. HandEntries' = HandEntries
  BY <1>1, PostingStep
<1> QED
  BY <1>2, <1>3

LEMMA CommitDocumentImplements ==
  ASSUME IInv, NEW r \in Request, pc[r] = "commit", CommitDocument(r)
  PROVE  Items!Next
<1>0. PICK d : d = cmd[r].document
  OBVIOUS
<1>1. /\ document' = [document EXCEPT ![d] = "draft"]
      /\ payment' = payment /\ ledger' = ledger
  BY <1>0 DEF CommitDocument
<1>2. TypeOK /\ Ready(r) /\ cmd[r] \in Command
  BY OwnType DEF Active, Terminal
<1>3. d \in Document /\ document[d] = "none"
  BY <1>0, <1>2, FieldType DEF CommitDocument, Ready, Creates, Committing
<1>4. \A x \in Document : Outstanding(x)' = Outstanding(x)
  BY <1>1 DEF Outstanding, Allocated, AllocatedIn, PostedPayments
<1>5. \A x \in Document : Open(x)' = Open(x)
  BY <1>1, <1>2, <1>3, <1>4 DEF Open, TypeOK
<1>6. [x \in Document |-> Open(x)]' = [x \in Document |-> Open(x)]
  BY <1>5
<1>7. Items!Create(d)
  BY <1>1, <1>3, <1>6, SameLedger DEF Items!Create, Open
<1> QED
  BY <1>3, <1>7 DEF Items!Next

LEMMA CommitPostedDocumentImplements ==
  ASSUME IInv, NEW r \in Request, pc[r] = "commit", CommitPostedDocument(r)
  PROVE  Items!Next
<1>0. PICK d, e : /\ d = cmd[r].document
                  /\ e = [by |-> r, source |-> DocumentRow(d), reverses |-> None,
                          control |-> Total[d]]
  OBVIOUS
<1>1. /\ document' = [document EXCEPT ![d] = "posted"]
      /\ payment' = payment
      /\ ~Entered(DocumentRow(d))
      /\ ledger' = ledger \cup {e}
  BY <1>0 DEF CommitPostedDocument, Enter
<1>2. TypeOK /\ Finite /\ Ready(r) /\ cmd[r] \in Command
  BY OwnType DEF Active, Terminal, IInv
<1>3. d \in Document /\ document[d] = "draft"
  BY <1>0, <1>2, FieldType DEF CommitPostedDocument, Ready, Posts, Committing
<1>4. /\ e \in LedgerEntry /\ e.source = DocumentRow(d) /\ e.reverses = None
      /\ e.control = Total[d] /\ e.source \in Posting
  <2>1. DocumentRow(d) \in Posting /\ Total[d] \in Int
    BY <1>3, RowType, DocumentAssumption
  <2>2. DocumentRow(d) \in Source
    BY <2>1, SourceType
  <2> QED
    BY <1>0, <2>1, <2>2 DEF LedgerEntry
<1>5. /\ Reversed' = Reversed /\ HandEntries' = HandEntries
      /\ Balance(ledger)' = Balance(ledger) + Total[d]
  BY <1>1, <1>4, PostingImplements
<1>6. \A x \in Document : Outstanding(x)' = Outstanding(x)
  BY <1>1 DEF Outstanding, Allocated, AllocatedIn, PostedPayments
<1>7. Outstanding(d) = Total[d]
  <2>1. ~(Allocated(d) > 0)
    BY <1>3 DEF IInv, AllocationsAreCovered
  <2> QED
    BY <1>2, <1>3, <2>1, AllocatedType DEF Outstanding
<1>8. /\ Open(d)' = Total[d]
      /\ \A x \in Document \ {d} : Open(x)' = Open(x)
  BY <1>1, <1>2, <1>3, <1>6, <1>7 DEF Open, TypeOK
<1>9. [x \in Document |-> Open(x)]' = [[x \in Document |-> Open(x)] EXCEPT ![d] = Total[d]]
  BY <1>3, <1>8
<1>10. Items!Post(d)
  BY <1>1, <1>3, <1>5, <1>9 DEF Items!Post, Open
<1> QED
  BY <1>3, <1>10 DEF Items!Next

\* What a payment has locked and checked makes it payable.
LEMMA CoveredIsPayable ==
  ASSUME NEW r \in Request, NEW row, Fits(row),
         \A d \in Document : row.allocations[d] > 0 => Covered(r, d, row.allocations)
  PROVE  Items!Payable(row)
<1>1. \A d \in Document :
        row.allocations[d] > 0 => document[d] = "posted" /\ row.allocations[d] <= Open(d)
  BY DEF Covered, Open
<1> QED
  BY <1>1, SamePaid DEF Items!Payable, Fits, Open

LEMMA CommitPaymentImplements ==
  ASSUME IInv, NEW r \in Request, pc[r] = "commit", CommitPayment(r)
  PROVE  Items!Next
<1>0. PICK row : row = [status |-> "draft", amount |-> cmd[r].amount,
                        allocations |-> cmd[r].allocations, unapplied |-> cmd[r].unapplied]
  OBVIOUS
<1>1. /\ payment' = [payment EXCEPT ![r] = row]
      /\ document' = document /\ ledger' = ledger
  BY <1>0 DEF CommitPayment
<1>2. TypeOK /\ Ready(r) /\ cmd[r] \in Command /\ cmd[r].op = "createPayment"
  BY OwnType DEF Active, Terminal, CommitPayment
<1>3. /\ row \in PaymentRow /\ row # None
      /\ row.status = "draft" /\ row.allocations = cmd[r].allocations
      /\ row.amount = cmd[r].amount /\ row.unapplied = cmd[r].unapplied
  BY <1>0, <1>2, FieldType, NoneIsNothing DEF PaymentRow
<1>4. r \in Payment /\ payment[r] = None
  BY DEF IInv, PaymentsAreDone, Payment
<1>5. payment'[r] = row /\ \A p \in Payment \ {r} : payment'[p] = payment[p]
  BY <1>1, <1>2, <1>4 DEF TypeOK
<1>6. /\ PostedPayments' = PostedPayments
      /\ \A p \in PostedPayments : p # r /\ payment'[p] = payment[p]
  BY <1>3, <1>4, <1>5 DEF PostedPayments
<1>7. \A d \in Document : Outstanding(d)' = Outstanding(d)
  <2> SUFFICES ASSUME NEW d \in Document PROVE Allocated(d)' = Allocated(d)
    BY DEF Outstanding
  <2>1. [p \in PostedPayments' |-> payment'[p].allocations[d]]
          = [p \in PostedPayments |-> payment[p].allocations[d]]
    BY <1>6
  <2> QED
    BY <1>6, <2>1 DEF Allocated, AllocatedIn
<1>8. [d \in Document |-> Open(d)]' = [d \in Document |-> Open(d)]
  BY <1>1, <1>7 DEF Open
<1>9. Items!Payable(row)
  <2>1. \A d \in Document :
          row.allocations[d] > 0 => Covered(r, d, row.allocations)
    BY <1>2, <1>3 DEF Ready, Drafts, Committing
  <2>2. Fits(row)
    BY <1>2, <1>3 DEF Ready, Drafts, Committing, Fits
  <2> QED
    BY <2>1, <2>2, CoveredIsPayable
<1>10. Items!Draft(r)
  BY <1>1, <1>3, <1>4, <1>5, <1>8, <1>9, SameLedger DEF Items!Draft, Open
<1> QED
  BY <1>4, <1>10 DEF Items!Next

LEMMA CommitPostedPaymentImplements ==
  ASSUME IInv, NEW r \in Request, pc[r] = "commit", CommitPostedPayment(r)
  PROVE  Items!Next
<1>0. PICK p, a, c, e : /\ p = cmd[r].payment
                        /\ a = payment[p].allocations
                        /\ c = Effect(p)
                        /\ e = [by |-> r, source |-> PaymentOf(p), reverses |-> None,
                                control |-> c]
  OBVIOUS
<1>1. /\ payment' = [payment EXCEPT ![p].status = "posted"]
      /\ document' = document
      /\ ~Entered(PaymentOf(p))
      /\ ledger' = ledger \cup {e}
  BY <1>0 DEF CommitPostedPayment, Enter, ControlEffect, Effect
<1>2. TypeOK /\ Finite /\ Ready(r) /\ cmd[r] \in Command /\ cmd[r].op = "postPayment"
  BY OwnType DEF Active, Terminal, IInv, CommitPostedPayment
<1>3. /\ p \in Payment /\ payment[p] # None
      /\ payment[p].status = "draft"
      /\ \A d \in Document : a[d] > 0 => Covered(r, d, a)
      /\ Fits(payment[p])
  BY <1>0, <1>2, FieldType DEF Ready, Settles, Committing, Active, Terminal
<1>4. /\ a \in Allocation /\ SumOf(a) \in Nat /\ OnAccount(payment[p]) \in Int
      /\ c = -(SumOf(a) + OnAccount(payment[p]))
      /\ \A d \in Document : a[d] \in Nat
      /\ p \notin PostedPayments
  <2>1. payment[p] \in PaymentRow /\ p \notin PostedPayments
    BY <1>2, <1>3 DEF TypeOK, PostedPayments
  <2>2. a \in Allocation
    BY <1>0, <2>1 DEF PaymentRow
  <2> QED
    BY <1>0, <2>1, <2>2, SumOfType, OnAccountType DEF Allocation, Effect
<1>5. \A d \in Document : Allocated(d)' = Allocated(d) + a[d]
  <2>1. /\ TypeOK /\ Finite /\ p \in Payment /\ payment[p] # None /\ p \notin PostedPayments
        /\ payment' = [payment EXCEPT ![p].status = "posted"]
        /\ a = payment[p].allocations
    BY <1>0, <1>1, <1>2, <1>3, <1>4
  <2>2. \A d \in Document : Allocated(d)' = Allocated(d) + payment[p].allocations[d]
    BY <2>1, AllocatedGrows
  <2> QED
    BY <2>1, <2>2
<1>6. /\ e \in LedgerEntry /\ e.source = PaymentOf(p) /\ e.reverses = None
      /\ e.control = c /\ e.source \in Posting
  <2>1. PaymentOf(p) \in Posting /\ c \in Int
    BY <1>3, <1>4, RowType
  <2>2. PaymentOf(p) \in Source
    BY <2>1, SourceType
  <2> QED
    BY <1>0, <2>1, <2>2 DEF LedgerEntry
<1>7. /\ Reversed' = Reversed /\ HandEntries' = HandEntries
      /\ Balance(ledger)' = Balance(ledger) - (SumOf(a) + OnAccount(payment[p]))
  <2>1. /\ Reversed' = Reversed /\ HandEntries' = HandEntries
        /\ Balance(ledger)' = Balance(ledger) + e.control /\ Balance(ledger) \in Int
    BY <1>1, <1>6, PostingImplements
  <2> QED
    BY <1>4, <1>6, <2>1
<1>8. \A d \in Document : Open(d)' = Open(d) - a[d]
  <2> SUFFICES ASSUME NEW d \in Document PROVE Open(d)' = Open(d) - a[d]
    OBVIOUS
  <2>1. Outstanding(d)' = Outstanding(d) - a[d]
    BY <1>2, <1>4, <1>5, AllocatedType DEF Outstanding
  <2>2. CASE document[d] = "posted"
    BY <1>1, <2>1, <2>2 DEF Open
  <2>3. CASE document[d] # "posted"
    <3>1. a[d] = 0
      BY <1>3, <1>4, <2>3 DEF Covered
    <3> QED
      BY <1>1, <2>3, <3>1 DEF Open
  <2> QED
    BY <2>2, <2>3
<1>9. [d \in Document |-> Open(d)]' = [d \in Document |-> [x \in Document |-> Open(x)][d] - a[d]]
  BY <1>8
<1>10. /\ Items!Payable(payment[p]) /\ Items!Paid(payment[p]) = SumOf(a)
       /\ Items!Rest(payment[p]) = OnAccount(payment[p])
  <2>1. \A d \in Document :
          payment[p].allocations[d] > 0 => Covered(r, d, payment[p].allocations)
    BY <1>0, <1>3
  <2> QED
    BY <1>0, <1>3, <2>1, SamePaid, CoveredIsPayable
<1>11. Items!Settle(p)
  BY <1>0, <1>1, <1>3, <1>7, <1>9, <1>10 DEF Items!Settle, Open
<1> QED
  BY <1>3, <1>11 DEF Items!Next

LEMMA CommitReversalImplements ==
  ASSUME IInv, NEW r \in Request, pc[r] = "commit", CommitReversal(r)
  PROVE  Items!Next
<1>1. Committing(r, "reverse") /\ UNCHANGED <<document, payment>> /\ PostedIffEntered
  BY DEF CommitReversal, Committing, IInv
<1>2. PICK e \in ledger, back \in LedgerEntry :
        /\ e \in LedgerEntry /\ e.reverses = None
        /\ e.source \in Posting \cup Hand /\ e.source \notin Reversed
        /\ back.source = Reversal(e.source) /\ back.reverses = e.source
        /\ back.control = -e.control /\ e.control \in Int
        /\ ~Entered(back.source) /\ ledger' = ledger \cup {back}
        /\ HandEntries' = HandEntries
  BY <1>1, ReversalStep
<1>3. e.source \in Source /\ Entered(e.source) /\ e \in EntriesOf(e.source)
  BY <1>2 DEF LedgerEntry, Entered, EntriesOf
<1>4. /\ Reversed' = Reversed \cup {e.source}
      /\ Balance(ledger)' = Balance(ledger) - e.control
  <2>1. \A s \in Source : back.source = Reversal(s) => back.reverses = s
    BY <1>2, <1>3, SourceType
  <2>2. back.reverses # None /\ Entered(back.reverses)
    BY <1>2, <1>3, SourceType
  <2>3. /\ Reversed' = Reversed \cup ({back.reverses} \ {None})
        /\ Balance(ledger)' = Balance(ledger) + back.control /\ Balance(ledger) \in Int
    BY <1>2, <2>1, <2>2, EntryStep
  <2> QED
    BY <1>2, <2>2, <2>3
<1>5. \A d \in Document : Outstanding(d)' = Outstanding(d)
  BY <1>1 DEF Outstanding, Allocated, AllocatedIn, PostedPayments
<1>6. [d \in Document |-> Open(d)]' = [d \in Document |-> Open(d)]
  BY <1>1, <1>5 DEF Open
<1>7. Items!Reverse(e.source, e.control)
  BY <1>1, <1>2, <1>4, <1>6 DEF Items!Reverse, Open
<1>8. CASE \E d \in Document : e.source = DocumentRow(d)
  <2>1. PICK d \in Document : e.source = DocumentRow(d)
    BY <1>8
  <2>2. document[d] = "posted" /\ e.control = Total[d]
    BY <1>1, <1>3, <2>1 DEF PostedIffEntered, EnteredOnce
  <2>3. Items!ReverseDocument(d)
    BY <1>7, <2>1, <2>2 DEF Items!ReverseDocument, DocumentRow
  <2> QED
    BY <2>3 DEF Items!Next
<1>9. CASE \E p \in Payment : e.source = PaymentOf(p)
  <2>1. PICK p \in Payment : e.source = PaymentOf(p)
    BY <1>9
  <2>2. p \in PostedPayments /\ e.control = Effect(p)
    BY <1>1, <1>3, <2>1, EnteredEffects DEF EnteredOnce
  <2>3. payment[p] # None /\ payment[p].status = "posted"
    BY <2>2 DEF PostedPayments
  <2>4. -(Items!Paid(payment[p]) + Items!Rest(payment[p])) = Effect(p)
    BY SamePaid DEF Effect
  <2>5. Items!ReversePayment(p)
    BY <1>7, <2>1, <2>2, <2>3, <2>4 DEF Items!ReversePayment, PaymentOf
  <2> QED
    BY <2>5 DEF Items!Next
<1>10. CASE e.source \in Hand
  <2>1. e \in HandEntries
    BY <1>10 DEF HandEntries
  <2>2. Items!ReverseManual(e)
    BY <1>2, <1>7 DEF Items!ReverseManual
  <2> QED
    BY <2>1, <2>2 DEF Items!Next
<1> QED
  BY <1>2, <1>8, <1>9, <1>10, RowType

LEMMA CommitEntryImplements ==
  ASSUME IInv, NEW r \in Request, pc[r] = "commit", CommitEntry(r)
  PROVE  Items!Next
<1>1. Committing(r, "postEntry") /\ UNCHANGED <<document, payment>>
  BY DEF CommitEntry, Committing
<1>2. PICK e \in LedgerEntry :
        /\ e.source \in Hand /\ e.source \notin Posting
        /\ ~Entered(e.source) /\ ledger' = ledger \cup {e}
        /\ e.reverses # None => Entered(e.reverses)
  BY <1>1, HandStep
<1>3. \A s \in Source : e.source # Reversal(s)
  BY <1>2, SourceType
<1>4. /\ Reversed' = Reversed \cup ({e.reverses} \ {None})
      /\ Balance(ledger)' = Balance(ledger) + e.control
  BY <1>2, <1>3, EntryStep
<1>5. HandEntries' = HandEntries \cup {e} /\ e \in HandEntries' \ HandEntries
  BY <1>2 DEF HandEntries, Entered
<1>6. \A d \in Document : Outstanding(d)' = Outstanding(d)
  BY <1>1 DEF Outstanding, Allocated, AllocatedIn, PostedPayments
<1>7. [d \in Document |-> Open(d)]' = [d \in Document |-> Open(d)]
  BY <1>1, <1>6 DEF Open
<1>8. Items!Book(e)
  BY <1>1, <1>4, <1>5, <1>7 DEF Items!Book, Open
<1> QED
  BY <1>5, <1>8 DEF Items!Next

\* Only a commit writes documents, payments or entries.
LEMMA OnlyCommitsWrite ==
  ASSUME [Next]_vars
  PROVE  UNCHANGED rows \/ \E r \in Request : Commit(r)
BY DEF Next, Step, Begin, InsertDocument, LockDocument, LockPayment, Allocate, CheckAmount,
       LockEntry, LockNamed, Rollback, Refuse, Timeout, Undo, vars, rows

\* A step that writes no row leaves the list of open items as it is.
LEMMA SameItems ==
  ASSUME IInv, UNCHANGED rows
  PROVE  UNCHANGED Items!vars
<1>1. \A d \in Document : Open(d)' = Open(d)
  BY SameRows DEF Open, rows
<1>2. [d \in Document |-> Open(d)]' = [d \in Document |-> Open(d)]
  BY <1>1
<1> QED
  BY <1>2, SameLedger DEF Items!vars, Open, rows

LEMMA InitImplements == Init => Items!Init
<1> SUFFICES ASSUME Init PROVE Items!Init
  OBVIOUS
<1>1. \A d \in Document : Open(d) = IF d \in Posted0 THEN Total[d] ELSE 0
  BY InitAllocated DEF Init, Open
<1>2. [d \in Document |-> Open(d)] = [d \in Document |-> IF d \in Posted0 THEN Total[d] ELSE 0]
  BY <1>1
<1> QED
  BY <1>2, InitLedger, SameSum DEF Init, Items!Init, Open

\* Whatever the interleaving of their statements, requests have the effect of
\* indivisible steps on the list of open items and its control account, for every
\* set of requests, documents, payments and amounts.
THEOREM Refinement == Spec => ImplementsOpenItems
<1>1. IInv /\ [Next]_vars => [Items!Next]_(Items!vars)
  <2> SUFFICES ASSUME IInv, [Next]_vars PROVE [Items!Next]_(Items!vars)
    OBVIOUS
  <2>1. CASE UNCHANGED rows
    BY <2>1, SameItems
  <2>2. CASE \E r \in Request : Commit(r)
    BY <2>2, CommitDocumentImplements, CommitPostedDocumentImplements,
       CommitPaymentImplements, CommitPostedPaymentImplements, CommitReversalImplements,
       CommitEntryImplements
    DEF Commit
  <2> QED
    BY <2>1, <2>2, OnlyCommitsWrite
<1> QED
  BY <1>1, InitImplements, Inductive, PTL DEF Spec, ImplementsOpenItems, Items!Spec
=============================================================================
