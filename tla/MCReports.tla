----------------------------- MODULE MCReports ------------------------------
(***************************************************************************)
(* An instance of Reports for TLC: two invoices, a bill, the payments that *)
(* settle them, one of which is dated before an invoice that it settles,   *)
(* and an entry by hand, on three days.  All of them together have more    *)
(* accounts than a report may list.                                        *)
(***************************************************************************)
EXTENDS Reports, TLC

Cash == 1
Bank == 2
Receivable == 3
Payable == 4
Deposits == 5
Sales == 6
Rent == 7

Chart == Cash..Rent
Types ==
  Cash :> "asset" @@ Bank :> "asset" @@ Receivable :> "asset" @@ Payable :> "liability"
    @@ Deposits :> "liability" @@ Sales :> "revenue" @@ Rent :> "expense"

Invoice(number, day, amount) ==
  [id |-> number, type |-> "sales_invoice", issued |-> day, total |-> amount,
   control |-> Receivable, account |-> Sales]

First == Invoice(1, 1, 2)
Second == Invoice(2, 3, 1)
Bill == [id |-> 3, type |-> "vendor_bill", issued |-> 2, total |-> 1,
         control |-> Payable, account |-> Rent]
Documents == {First, Second, Bill}

Pay(number, of, day, sum, first, second, bill) ==
  [id |-> number, type |-> of, date |-> day, amount |-> sum, cash |-> Bank, unapplied |-> Deposits,
   allocated |-> First :> first @@ Second :> second @@ Bill :> bill]

Payments ==
  {Pay(1, "receipt", 2, 2, 1, 1, 0), Pay(2, "receipt", 3, 2, 1, 0, 0),
   Pay(3, "disbursement", 3, 1, 0, 0, 1), Pay(4, "disbursement", 1, 1, 0, 0, 0)}

\* Rent paid in cash.
Expense ==
  [id |-> 1, date |-> 2,
   lines |-> [a \in Chart |-> CASE a = Cash -> -1 [] a = Rent -> 1 [] OTHER -> 0]]
Entries == {Expense}

Report(name, first, last, of) == [kind |-> name, from |-> first, to |-> last, type |-> of]

CashCodes == {Cash, Bank}

Days == 1..3

Queries ==
  {Report("aged", 0, day, of) : day \in Days, of \in DocumentType}
    \cup {Report("balance_sheet", 0, 3, "sales_invoice"),
          Report("dashboard", 0, 2, "sales_invoice")}
    \cup {Report(name, 2, 3, "sales_invoice") :
            name \in {"trial_balance", "profit_loss", "general_ledger", "cash_flow"}}
=============================================================================
