------------------------------- MODULE Reports -------------------------------
(***************************************************************************)
(* The reports and the dashboard (app/domains/reports/service.py,          *)
(* app/domains/dashboard/service.py), read while documents, payments and   *)
(* manual entries are posted.                                              *)
(*                                                                         *)
(* A report is a sequence of statements, and at READ COMMITTED each of     *)
(* them reads what is committed when it starts.  A figure depends on two   *)
(* statements at most, one after the other: `seen' keeps the state that    *)
(* each of the pair has read, and the figures are functions of it.         *)
(* Postings are the transactions of Settlement and Ledger, seen from       *)
(* outside: one step commits the document or payment and its entry.  What  *)
(* is posted is never changed; reversals are left out, because a reversed  *)
(* document stays open (DriftIsExplained in Settlement).                   *)
(*                                                                         *)
(* Accounts and documents are numbered in the order in which the reports   *)
(* list them.  The lines of an entry are netted by account.  The counts of *)
(* partners and bank transactions and the recent activity, one statement   *)
(* each on other tables, are left out.                                     *)
(***************************************************************************)
EXTENDS Integers, Sequences, FiniteSets, Functions

CONSTANTS
  Account,    \* account codes
  Type,       \* Type[a]: the type of account a
  Document,   \* documents; d.id gives the order
  Payment,    \* payments
  Entry,      \* journal entries posted by hand
  Query,      \* the reports that are asked for
  BankCode,   \* ledger accounts that bank accounts may be opened for
  MaxRows     \* MAX_REPORT_ROWS

DocumentType == {"sales_invoice", "vendor_bill"}
PaymentType == {"receipt", "disbursement"}
DocumentRow == [id : Nat, type : DocumentType, issued : Nat, total : Nat,
                control : Account, account : Account]
PaymentRow == [id : Nat, type : PaymentType, date : Nat, amount : Nat, cash : Account,
               unapplied : Account, allocated : [Document -> Nat]]
EntryRow == [id : Nat, date : Nat, lines : [Account -> Int]]
ReportKind == {"trial_balance", "profit_loss", "balance_sheet", "general_ledger",
               "cash_flow", "aged", "dashboard"}
QueryRow == [kind : ReportKind, from : Nat, to : Nat, type : DocumentType]

\* The payments that settle documents of a type (_document of the payments service).
PaymentFor(type) == IF type = "sales_invoice" THEN "receipt" ELSE "disbursement"

ASSUME ChartAssumption ==
  /\ Account \subseteq Nat
  /\ IsFiniteSet(Account)
  /\ Type \in [Account -> {"asset", "liability", "equity", "revenue", "expense"}]
ASSUME DocumentAssumption ==
  /\ Document \subseteq DocumentRow
  /\ IsFiniteSet(Document)
  /\ \A d, e \in Document : d.id = e.id => d = e
ASSUME PaymentAssumption ==
  /\ Payment \subseteq PaymentRow
  /\ \A p \in Payment :
       /\ SumFunction(p.allocated) <= p.amount
       /\ \A d \in Document : p.allocated[d] > 0 => p.type = PaymentFor(d.type)
ASSUME EntryAssumption ==
  /\ Entry \subseteq EntryRow
  /\ \A e \in Entry : SumFunction(e.lines) = 0
ASSUME QueryAssumption == Query \subseteq QueryRow
ASSUME BankCodeAssumption == \A a \in BankCode : a \in Account /\ Type[a] = "asset"
ASSUME MaxRowsAssumption == MaxRows \in Nat \ {0}

VARIABLES
  posted,     \* documents, payments and entries that are posted
  mapped,     \* ledger accounts of the active bank accounts
  query,      \* the report being read, or a record with kind "none"
  step,       \* how many of its statements have run
  seen        \* what the last one or two of them have read

vars == <<posted, mapped, query, step, seen>>

Snapshot == [posted |-> posted, mapped |-> mapped]

NoQuery == [kind |-> "none"]

Init ==
  /\ posted = {}
  /\ mapped = {}
  /\ query = NoQuery
  /\ step = 0
  /\ seen = <<>>

-----------------------------------------------------------------------------
(* The ledger: debits are positive. *)

DocumentLines(d) ==
  LET sign == IF d.type = "sales_invoice" THEN 1 ELSE -1
  IN [a \in Account |-> sign * ((IF a = d.control THEN d.total ELSE 0)
                                - (IF a = d.account THEN d.total ELSE 0))]

\* _posting_command: each allocation goes to the control account of its
\* document, the rest to the unapplied account.
PaymentLines(p) ==
  LET sign == IF p.type = "receipt" THEN 1 ELSE -1
      settled(a) == SumFunctionOnSet(p.allocated, {d \in Document : d.control = a})
      rest == p.amount - SumFunction(p.allocated)
  IN [a \in Account |-> sign * ((IF a = p.cash THEN p.amount ELSE 0) - settled(a)
                                - (IF a = p.unapplied THEN rest ELSE 0))]

\* The entry of a posting is dated by the document's issue or the payment.
Date(x) == IF x \in Document THEN x.issued ELSE x.date

LinesOf(x) ==
  IF x \in Document THEN DocumentLines(x)
  ELSE IF x \in Payment THEN PaymentLines(x) ELSE x.lines

\* What is posted in a range of dates.
Booked(s, from, to) == {x \in s.posted : from <= Date(x) /\ Date(x) <= to}

\* The rows of general_ledger.
Lines(s, from, to) == {l \in Booked(s, from, to) \X Account : LinesOf(l[1])[l[2]] # 0}

\* The limit of the query is the limit of the report.
FirstRows_Exact(rows) ==
  {x \in rows : Cardinality({y \in rows : y < x}) < MaxRows}

\* ORDER BY ... LIMIT MAX_REPORT_ROWS + 1.
FirstRows(rows) ==
  {x \in rows : Cardinality({y \in rows : y < x}) <= MaxRows}

\* _bounded_rows.
TooMany(rows) == Cardinality(rows) > MaxRows

\* trial_balance: the accounts with lines in the range, and their balances.
AccountsBooked(s, from, to) ==
  {a \in Account : \E x \in Booked(s, from, to) : LinesOf(x)[a] # 0}

TrialAccounts(s, from, to) == FirstRows(AccountsBooked(s, from, to))

Balance(s, from, to, a) ==
  SumFunctionOnSet([x \in s.posted |-> LinesOf(x)[a]], Booked(s, from, to))

BalanceOfType(s, from, to, type) ==
  SumFunctionOnSet([a \in Account |-> Balance(s, from, to, a)],
                   {a \in TrialAccounts(s, from, to) : Type[a] = type})

\* profit_loss.
NetIncome(s, from, to) ==
  -BalanceOfType(s, from, to, "revenue") - BalanceOfType(s, from, to, "expense")

\* balance_sheet: one trial balance for assets, liabilities and equity, and
\* another one, later, for the net income.
Assets(s, as_of) == BalanceOfType(s, 0, as_of, "asset")

LiabilitiesAndEquity(s1, s2, as_of) ==
  -BalanceOfType(s1, 0, as_of, "liability") - BalanceOfType(s1, 0, as_of, "equity")
    + NetIncome(s2, 0, as_of)

\* The opening balance of cash_flow: what is dated before the first day.
Opening(s, from, a) == Balance(s, 0, from - 1, a)

\* cash_flow: the lines of the mapped accounts that an earlier statement read.
CashRows(s, accounts) == FirstRows({a \in accounts : \E x \in s.posted : LinesOf(x)[a] # 0})

ClosingCash(s, accounts, from, to) ==
  SumFunctionOnSet([a \in accounts |-> Opening(s, from, a) + Balance(s, from, to, a)],
                   CashRows(s, accounts))

\* dashboard_summary.
CashPosition(s, accounts, as_of) ==
  SumFunctionOnSet([a \in accounts |-> Balance(s, 0, as_of, a)], accounts)

-----------------------------------------------------------------------------
(* The documents. *)

Settlements(s, type) == {p \in s.posted \cap Payment : p.type = PaymentFor(type)}

SettlementsUntil(s, type, as_of) == {p \in Settlements(s, type) : p.date <= as_of}

SettledBy(payments, d) == SumFunctionOnSet([p \in payments |-> p.allocated[d]], payments)

IssuedBy(s, as_of, type) ==
  {d \in s.posted \cap Document : d.type = type /\ d.issued <= as_of}

AtLeastZero(amount) == IF amount < 0 THEN 0 ELSE amount

\* Payments of any date are subtracted.
AgedOutstanding_AnyDate(s, as_of, d) ==
  AtLeastZero(d.total - SettledBy(Settlements(s, d.type), d))

\* aged_report: what is left of a document after the payments until as_of.
AgedOutstanding(s, as_of, d) ==
  AtLeastZero(d.total - SettledBy(SettlementsUntil(s, d.type, as_of), d))

\* The rows are fetched before the documents with nothing left are skipped.
AgedRows(s, as_of, type) ==
  {d \in IssuedBy(s, as_of, type) :
     d.id \in FirstRows({e.id : e \in IssuedBy(s, as_of, type)})}

AgedTotal(s, as_of, type) ==
  SumFunctionOnSet([d \in Document |-> AgedOutstanding(s, as_of, d)], AgedRows(s, as_of, type))

\* What the dashboard holds to be left of a document: payments of all dates.
Unsettled(s, d) == d.total - SettledBy(Settlements(s, d.type), d)

\* _document_position: two statements.
PositionAmount(s, as_of, type) ==
  AtLeastZero(SumFunctionOnSet([d \in Document |-> Unsettled(s, d)], IssuedBy(s, as_of, type)))

\* Settled documents are counted too.
OpenCount_All(s, as_of, type) == Cardinality(IssuedBy(s, as_of, type))

OpenCount(s, as_of, type) ==
  Cardinality({d \in IssuedBy(s, as_of, type) : Unsettled(s, d) > 0})

-----------------------------------------------------------------------------
(* What others commit. *)

PostDocument ==
  \E d \in Document \ posted : posted' = posted \cup {d}

\* post_payment holds the documents' locks: its allocations fit in what is
\* left of them.
PostPayment ==
  \E p \in Payment \ posted :
    /\ \A d \in Document : p.allocated[d] > 0 =>
         /\ d \in posted
         /\ p.allocated[d] <= d.total - SettledBy(posted \cap Payment, d)
    /\ posted' = posted \cup {p}

PostEntry ==
  \E e \in Entry \ posted : posted' = posted \cup {e}

Post == (PostDocument \/ PostPayment \/ PostEntry) /\ UNCHANGED <<mapped, query, step, seen>>

\* create_account of the banking service.
MapAccount ==
  /\ \E a \in BankCode \ mapped : mapped' = mapped \cup {a}
  /\ UNCHANGED <<posted, query, step, seen>>

-----------------------------------------------------------------------------
(* The reader. *)

\* The statements of a report.  The dashboard reads the bank accounts, the
\* cash, and the amount and the count of the documents of each type.
Statements(q) ==
  CASE q.kind = "none"          -> 0
    [] q.kind = "balance_sheet" -> 2
    [] q.kind = "cash_flow"     -> 2
    [] q.kind = "dashboard"     -> 6
    [] OTHER                    -> 1

Ask ==
  /\ query = NoQuery
  /\ query' \in Query
  /\ UNCHANGED <<posted, mapped, step, seen>>

\* The statements come in pairs.
Read ==
  /\ step < Statements(query)
  /\ step' = step + 1
  /\ seen' = IF Len(seen) = 2 THEN <<Snapshot>> ELSE Append(seen, Snapshot)
  /\ UNCHANGED <<posted, mapped, query>>

\* All statements have run.
Complete(kind) == query.kind = kind /\ step = Statements(query)

\* The rows that the reports limit; a report with too many is refused.
Refused ==
  LET from == query.from
      to == query.to
  IN CASE query.kind \in {"trial_balance", "profit_loss"} ->
            TooMany(TrialAccounts(seen[1], from, to))
       [] query.kind = "balance_sheet" ->
            \E i \in DOMAIN seen : TooMany(TrialAccounts(seen[i], 0, to))
       [] query.kind = "general_ledger" -> TooMany(Lines(seen[1], from, to))
       [] query.kind = "cash_flow" -> TooMany(CashRows(seen[2], seen[1].mapped))
       [] query.kind = "aged" -> TooMany(AgedRows(seen[1], to, query.type))
       [] OTHER -> FALSE

Next == Post \/ MapAccount \/ Ask \/ Read

Spec == Init /\ [][Next]_vars

-----------------------------------------------------------------------------
\* The statement of the reader answers in full: nothing is cut off silently.
Answered(kind) == Complete(kind) /\ ~Refused

\* A balance sheet balances but for the income of the entries that were posted
\* between its two trial balances; it is never off for another reason, such as
\* rows that were cut off by the limit (balance_sheet, _bounded_rows).
SheetDrift ==
  Answered("balance_sheet") =>
    LET late == [seen[2] EXCEPT !.posted = @ \ seen[1].posted]
    IN Assets(seen[1], query.to) - LiabilitiesAndEquity(seen[1], seen[2], query.to)
         = -NetIncome(late, 0, query.to)

\* What payments dated by then settle of documents issued later.
SettledEarly(s, as_of, type) ==
  SumFunctionOnSet([d \in Document |-> SettledBy(SettlementsUntil(s, type, as_of), d)],
                   {d \in s.posted \cap Document : d.type = type /\ d.issued > as_of})

\* Account a is the control account of all documents of the type, and nothing
\* else is booked on it.  The code takes the accounts of a document or payment
\* from its author.
ControlOf(s, type, a) ==
  /\ \A d \in s.posted \cap Document : d.account # a /\ (d.control = a <=> d.type = type)
  /\ \A p \in s.posted \cap Payment : p.cash # a /\ p.unapplied # a
  /\ \A e \in s.posted \cap Entry : e.lines[a] = 0

\* The open documents of an aged report add up to the balance of their control
\* account on the same day, but for payments that precede the issue of what
\* they settle: "reports can be reproduced from the ledger" (README.md:62).
AgedIsReceivable ==
  Answered("aged") =>
    \A a \in Account : ControlOf(seen[1], query.type, a) =>
      AgedTotal(seen[1], query.to, query.type) =
        (IF query.type = "sales_invoice" THEN 1 ELSE -1) * Balance(seen[1], 0, query.to, a)
          + SettledEarly(seen[1], query.to, query.type)

\* What payments dated later settle of documents issued by then.
SettledLater(s, as_of, type) ==
  SumFunctionOnSet(
    [d \in Document |->
       SettledBy(Settlements(s, type) \ SettlementsUntil(s, type, as_of), d)],
    IssuedBy(s, as_of, type))

\* The amount and the count of the documents of one type agree with each other
\* and with the aged report of the same state, but for payments dated after the
\* day, which only the dashboard subtracts.
PositionAgrees(type) ==
  LET as_of == query.to
      s == seen[1]
  IN s = seen[2] =>
       /\ PositionAmount(s, as_of, type) = 0 <=> OpenCount(seen[2], as_of, type) = 0
       /\ PositionAmount(s, as_of, type) =
            SumFunctionOnSet([d \in Document |-> AgedOutstanding(s, as_of, d)],
                             IssuedBy(s, as_of, type))
              - SettledLater(s, as_of, type)

CashAgrees ==
  ~TooMany(CashRows(seen[2], seen[1].mapped)) =>
  \A from \in 1..query.to :
    CashPosition(seen[2], seen[1].mapped, query.to)
      = ClosingCash(seen[2], seen[1].mapped, from, query.to)

\* The dashboard tells the same story as the reports: its cash position is what
\* the cash flow report closes with, wherever that report starts (unless it has
\* too many rows and is refused), and its
\* amounts and counts of open documents agree unless something is posted
\* between their statements (dashboard_summary, aged_report, cash_flow).
DashboardAgrees ==
  query.kind = "dashboard" =>
    /\ step = 2 => CashAgrees
    /\ step = 4 => PositionAgrees("sales_invoice")
    /\ step = 6 => PositionAgrees("vendor_bill")
=============================================================================
