--------------------------- MODULE ReportsProofs ----------------------------
(***************************************************************************)
(* The reports agree with each other and with the ledger, for every chart  *)
(* of accounts, all documents, payments and entries, and every row limit.  *)
(*                                                                         *)
(* Every entry balances, so the lines of any set of postings add up to     *)
(* zero over the accounts, and figures of disjoint sets of postings add up *)
(* (Sheet).  A report that is not refused has all its rows (AllRows).  The *)
(* rest is adding up one table of allocations by documents and by payments *)
(* (SumExchange), and that no document is settled beyond its total (Sound).*)
(***************************************************************************)
EXTENDS Reports, SumTheorems, TLAPS

Posting == Document \cup Payment \cup Entry

-----------------------------------------------------------------------------
(* What is posted.                                                         *)

LEMMA DocumentFields ==
  ASSUME NEW d \in Document
  PROVE  /\ d.id \in Nat /\ d.type \in DocumentType /\ d.issued \in Nat /\ d.total \in Nat
         /\ d.control \in Account /\ d.account \in Account
BY DocumentAssumption DEF DocumentRow

LEMMA PaymentFields ==
  ASSUME NEW p \in Payment
  PROVE  /\ p.type \in PaymentType /\ p.date \in Nat /\ p.amount \in Nat
         /\ p.cash \in Account /\ p.unapplied \in Account
         /\ p.allocated \in [Document -> Nat]
BY PaymentAssumption DEF PaymentRow

LEMMA EntryFields ==
  ASSUME NEW e \in Entry
  PROVE  e.date \in Nat /\ e.lines \in [Account -> Int]
BY EntryAssumption DEF EntryRow

\* Documents, payments and entries have different columns.
LEMMA DifferentRows ==
  /\ \A p \in Payment : p \notin Document
  /\ \A e \in Entry : e \notin Document /\ e \notin Payment
<1>1. \A d \in Document : DOMAIN d = {"id", "type", "issued", "total", "control", "account"}
  BY DocumentAssumption DEF DocumentRow
<1>2. \A p \in Payment :
        DOMAIN p = {"id", "type", "date", "amount", "cash", "unapplied", "allocated"}
  BY PaymentAssumption DEF PaymentRow
<1>3. \A e \in Entry : DOMAIN e = {"id", "date", "lines"}
  BY EntryAssumption DEF EntryRow
<1>4. /\ "date" \notin {"id", "type", "issued", "total", "control", "account"}
      /\ "lines" \notin {"id", "type", "date", "amount", "cash", "unapplied", "allocated"}
      /\ "lines" \in {"id", "date", "lines"} /\ "date" \in {"id", "date", "lines"}
      /\ "date" \in {"id", "type", "date", "amount", "cash", "unapplied", "allocated"}
  OBVIOUS
<1> QED
  BY <1>1, <1>2, <1>3, <1>4, Zenon

LEMMA DateType == ASSUME NEW x \in Posting PROVE Date(x) \in Nat
BY DocumentFields, PaymentFields, EntryFields DEF Posting, Date

LEMMA DocumentPosting ==
  ASSUME NEW d \in Document PROVE LinesOf(d) = DocumentLines(d) /\ Date(d) = d.issued
BY DEF LinesOf, Date

LEMMA PaymentPosting ==
  ASSUME NEW p \in Payment PROVE LinesOf(p) = PaymentLines(p) /\ Date(p) = p.date
BY DifferentRows DEF LinesOf, Date

LEMMA EntryPosting ==
  ASSUME NEW e \in Entry PROVE LinesOf(e) = e.lines /\ Date(e) = e.date
BY DifferentRows DEF LinesOf, Date

-----------------------------------------------------------------------------
(* Entries balance.                                                        *)

LEMMA Signs == \A n \in Int : 1 * n = n /\ (-1) * n = -n
OBVIOUS

\* The debit or credit of an amount on one account.
LEMMA OneAccount ==
  ASSUME NEW k \in Account, NEW n \in Int
  PROVE  SumFunctionOnSet([a \in Account |-> IF a = k THEN n ELSE 0], Account) = n
<1> DEFINE f == [a \in Account |-> IF a = k THEN n ELSE 0]
<1>1. f[k] = n /\ f[k] \in Int /\ \A a \in Account \ {k} : f[a] = 0
  OBVIOUS
<1> HIDE DEF f
<1>2. SumFunctionOnSet(f, Account) = f[k]
  BY <1>1, ChartAssumption, SumPoint
<1> QED
  BY <1>1, <1>2 DEF f

LEMMA DocumentBalances ==
  ASSUME NEW d \in Document
  PROVE  /\ \A a \in Account : DocumentLines(d)[a] \in Int
         /\ SumFunctionOnSet(DocumentLines(d), Account) = 0
<1> DEFINE f == [a \in Account |-> IF a = d.control THEN d.total ELSE 0]
           g == [a \in Account |-> IF a = d.account THEN d.total ELSE 0]
           net == [a \in Account |-> f[a] - g[a]]
           neg == [a \in Account |-> -net[a]]
<1>1. \A a \in Account : f[a] \in Int /\ g[a] \in Int /\ net[a] = f[a] - g[a]
  BY DocumentFields
<1>2. SumFunctionOnSet(f, Account) = d.total
  BY DocumentFields, OneAccount
<1>3. SumFunctionOnSet(g, Account) = d.total
  BY DocumentFields, OneAccount
<1>4. \A a \in Account : net[a] \in Int /\ neg[a] = -net[a]
  BY <1>1
<1>5. DocumentLines(d) = IF d.type = "sales_invoice" THEN net ELSE neg
  <2>1. CASE d.type = "sales_invoice"
    <3>1. \A a \in Account : 1 * (f[a] - g[a]) = net[a]
      BY <1>1, Signs
    <3> QED
      BY <2>1, <3>1 DEF DocumentLines
  <2>2. CASE d.type # "sales_invoice"
    <3>1. \A a \in Account : f[a] - g[a] \in Int /\ neg[a] = -(f[a] - g[a])
      BY <1>1
    <3>2. \A a \in Account : (-1) * (f[a] - g[a]) = neg[a]
      BY <3>1, Signs
    <3> QED
      BY <2>2, <3>2 DEF DocumentLines
  <2> QED
    BY <2>1, <2>2
<1> HIDE DEF f, g, net, neg
<1>6. SumFunctionOnSet(net, Account) = SumFunctionOnSet(f, Account) - SumFunctionOnSet(g, Account)
  BY <1>1, ChartAssumption, SumDifference
<1>7. SumFunctionOnSet(neg, Account) = 0 - SumFunctionOnSet(net, Account)
  BY <1>4, ChartAssumption, SumNegative
<1>8. d.total \in Int
  BY DocumentFields
<1>9. SumFunctionOnSet(net, Account) = 0
  BY <1>2, <1>3, <1>6, <1>8
<1>10. SumFunctionOnSet(neg, Account) = 0
  BY <1>7, <1>9
<1> QED
  BY <1>4, <1>5, <1>9, <1>10

\* What a payment settles on an account.
SettledOn(p, a) == SumFunctionOnSet(p.allocated, {d \in Document : d.control = a})

LEMMA SettledOnNat ==
  ASSUME NEW p \in Payment, NEW a PROVE SettledOn(p, a) \in Nat
<1>1. p.allocated \in [Document -> Nat]
  BY PaymentFields
<1> DEFINE D == {d \in Document : d.control = a}
<1>2. IsFiniteSet(D) /\ \A d \in D : p.allocated[d] \in Nat
  BY <1>1, DocumentAssumption, FS_Subset
<1> HIDE DEF D
<1>3. SumFunctionOnSet(p.allocated, D) \in Nat
  BY <1>2, SumNat
<1> QED
  BY <1>3 DEF SettledOn, D

\* The rest of a payment.
Rest(p) == p.amount - SumFunction(p.allocated)

LEMMA RestType ==
  ASSUME NEW p \in Payment
  PROVE  /\ SumFunction(p.allocated) = SumFunctionOnSet(p.allocated, Document)
         /\ SumFunctionOnSet(p.allocated, Document) \in Int
         /\ Rest(p) \in Int
<1>1. p.allocated \in [Document -> Nat] /\ p.amount \in Nat
  BY PaymentFields
<1>2. \A d \in Document : p.allocated[d] \in Int
  BY <1>1
<1>3. SumFunction(p.allocated) = SumFunctionOnSet(p.allocated, Document)
  BY <1>1 DEF SumFunction, SumFunctionOnSet, FoldFunction
<1>4. SumFunctionOnSet(p.allocated, Document) \in Int
  BY <1>2, DocumentAssumption, SumInt
<1> QED
  BY <1>1, <1>3, <1>4 DEF Rest

LEMMA PaymentBalances ==
  ASSUME NEW p \in Payment
  PROVE  /\ \A a \in Account : PaymentLines(p)[a] \in Int
         /\ SumFunctionOnSet(PaymentLines(p), Account) = 0
<1> DEFINE cash == [a \in Account |-> IF a = p.cash THEN p.amount ELSE 0]
           settled == [a \in Account |-> SettledOn(p, a)]
           rest == [a \in Account |-> IF a = p.unapplied THEN Rest(p) ELSE 0]
           both == [a \in Account |-> cash[a] - settled[a]]
           net == [a \in Account |-> both[a] - rest[a]]
           neg == [a \in Account |-> -net[a]]
<1>1. /\ \A a \in Account : cash[a] \in Int /\ settled[a] \in Int /\ both[a] = cash[a] - settled[a]
      /\ \A a \in Account : both[a] \in Int /\ rest[a] \in Int /\ net[a] = both[a] - rest[a]
      /\ \A a \in Account : net[a] \in Int /\ neg[a] = -net[a]
  <2>1. p.amount \in Int /\ Rest(p) \in Int /\ \A a \in Account : SettledOn(p, a) \in Int
    BY PaymentFields, RestType, SettledOnNat
  <2> QED
    BY <2>1
<1>2. SumFunctionOnSet(cash, Account) = p.amount
  BY PaymentFields, OneAccount
<1>3. SumFunctionOnSet(rest, Account) = Rest(p)
  BY PaymentFields, RestType, OneAccount
<1>4. SumFunctionOnSet(settled, Account) = SumFunctionOnSet(p.allocated, Document)
  <2> DEFINE K == [d \in Document |-> d.control]
             f == p.allocated
  <2>1. \A d \in Document : K[d] \in Account /\ f[d] \in Int
    BY DocumentFields, PaymentFields
  <2>2. \A a \in Account : {d \in Document : d.control = a} = {d \in Document : K[d] = a}
    OBVIOUS
  <2>3. \A a \in Account : settled[a] = SumFunctionOnSet(f, {d \in Document : K[d] = a})
    BY <2>2 DEF SettledOn
  <2> HIDE DEF K, f, settled
  <2>4. SumFunctionOnSet(settled, Account) = SumFunctionOnSet(f, Document)
    <3>1. ByKey(K, f, Account, Document, settled)
      BY <2>1, <2>3 DEF ByKey
    <3> QED
      BY <3>1, ChartAssumption, DocumentAssumption, SumByKey
  <2> QED
    BY <2>4 DEF f
<1>5. PaymentLines(p) = IF p.type = "receipt" THEN net ELSE neg
  <2>1. PaymentLines(p) =
          [a \in Account |->
             (IF p.type = "receipt" THEN 1 ELSE -1)
               * ((IF a = p.cash THEN p.amount ELSE 0) - SettledOn(p, a)
                  - (IF a = p.unapplied THEN Rest(p) ELSE 0))]
    BY DEF PaymentLines, SettledOn, Rest
  <2>2. \A a \in Account : net[a] = (IF a = p.cash THEN p.amount ELSE 0) - SettledOn(p, a)
                                    - (IF a = p.unapplied THEN Rest(p) ELSE 0)
    OBVIOUS
  <2>3. PaymentLines(p) =
          [a \in Account |-> (IF p.type = "receipt" THEN 1 ELSE -1) * net[a]]
    BY <2>1, <2>2
  <2>4. \A a \in Account : 1 * net[a] = net[a] /\ (-1) * net[a] = neg[a]
    BY <1>1, Signs
  <2>5. net = [a \in Account |-> net[a]] /\ neg = [a \in Account |-> neg[a]]
    OBVIOUS
  <2> HIDE DEF net, neg
  <2>6. CASE p.type = "receipt"
    BY <2>3, <2>4, <2>5, <2>6
  <2>7. CASE p.type # "receipt"
    BY <2>3, <2>4, <2>5, <2>7
  <2> QED
    BY <2>6, <2>7
<1> HIDE DEF cash, settled, rest, both, net, neg
<1>6. SumFunctionOnSet(both, Account)
        = SumFunctionOnSet(cash, Account) - SumFunctionOnSet(settled, Account)
  <2>1. \A a \in Account : cash[a] \in Int /\ settled[a] \in Int /\ both[a] = cash[a] - settled[a]
    BY <1>1
  <2>2. IsFiniteSet(Account)
    BY ChartAssumption
  <2> QED
    BY <2>1, <2>2, SumDifference
<1>7. SumFunctionOnSet(net, Account)
        = SumFunctionOnSet(both, Account) - SumFunctionOnSet(rest, Account)
  <2>1. \A a \in Account : both[a] \in Int /\ rest[a] \in Int /\ net[a] = both[a] - rest[a]
    BY <1>1
  <2>2. IsFiniteSet(Account)
    BY ChartAssumption
  <2> QED
    BY <2>1, <2>2, SumDifference
<1>8. SumFunctionOnSet(neg, Account) = 0 - SumFunctionOnSet(net, Account)
  <2>1. \A a \in Account : net[a] \in Int /\ neg[a] = -net[a]
    BY <1>1
  <2>2. IsFiniteSet(Account)
    BY ChartAssumption
  <2> QED
    BY <2>1, <2>2, SumNegative
<1>9. SumFunctionOnSet(net, Account) = 0
  <2>1. p.amount \in Int /\ SumFunctionOnSet(p.allocated, Document) \in Int
    BY PaymentFields, RestType
  <2>2. Rest(p) = p.amount - SumFunctionOnSet(p.allocated, Document)
    BY RestType DEF Rest
  <2> QED
    BY <1>2, <1>3, <1>4, <1>6, <1>7, <2>1, <2>2
<1>10. SumFunctionOnSet(neg, Account) = 0
  BY <1>8, <1>9
<1>11. \A a \in Account : net[a] \in Int /\ neg[a] \in Int
  BY <1>1
<1> QED
  BY <1>5, <1>9, <1>10, <1>11

LEMMA EntryBalances ==
  ASSUME NEW e \in Entry
  PROVE  /\ \A a \in Account : e.lines[a] \in Int
         /\ SumFunctionOnSet(e.lines, Account) = 0
<1>1. e.lines \in [Account -> Int]
  BY EntryFields
<1>2. SumFunction(e.lines) = SumFunctionOnSet(e.lines, Account)
  BY <1>1 DEF SumFunction, SumFunctionOnSet, FoldFunction
<1>3. SumFunction(e.lines) = 0
  BY EntryAssumption
<1> QED
  BY <1>1, <1>2, <1>3

\* The lines of whatever is posted are amounts, and balance.
LEMMA Balances ==
  ASSUME NEW x \in Posting
  PROVE  /\ \A a \in Account : LinesOf(x)[a] \in Int
         /\ SumFunctionOnSet(LinesOf(x), Account) = 0
<1>1. CASE x \in Document
  BY <1>1, DocumentPosting, DocumentBalances
<1>2. CASE x \in Payment
  BY <1>2, PaymentPosting, PaymentBalances
<1>3. CASE x \in Entry
  BY <1>3, EntryPosting, EntryBalances
<1> QED
  BY <1>1, <1>2, <1>3 DEF Posting

-----------------------------------------------------------------------------
(* The limit on rows.                                                      *)

\* A report that is within the limit has left no row out: of the rows left out,
\* the first one has more than MaxRows rows before it.
LEMMA AllRows ==
  ASSUME NEW rows, rows \subseteq Nat, IsFiniteSet(rows), ~TooMany(FirstRows(rows))
  PROVE  FirstRows(rows) = rows
<1> DEFINE Before(x) == {y \in rows : y < x}
           out == {x \in rows : ~(Cardinality(Before(x)) <= MaxRows)}
<1>1. FirstRows(rows) = rows \ out
  BY DEF FirstRows
<1>2. SUFFICES ASSUME out # {} PROVE FALSE
  BY <1>1
<1>3. out \in SUBSET Nat
  OBVIOUS
<1>4. PICK n \in out : \A m \in out : n <= m
  BY <1>2, <1>3, LeastNat
<1>5. Before(n) \subseteq FirstRows(rows)
  <2>1. \A y \in rows : y < n => y \notin out
    BY <1>3, <1>4
  <2> QED
    BY <1>1, <2>1
<1>6. IsFiniteSet(FirstRows(rows))
  BY <1>1, FS_Subset
<1>7. /\ Cardinality(Before(n)) <= Cardinality(FirstRows(rows))
      /\ Cardinality(Before(n)) \in Nat /\ Cardinality(FirstRows(rows)) \in Nat
  BY <1>5, <1>6, FS_Subset, FS_CardinalityType
<1>8. ~(Cardinality(FirstRows(rows)) > MaxRows) /\ ~(Cardinality(Before(n)) <= MaxRows)
  BY DEF TooMany
<1> QED
  BY <1>7, <1>8, MaxRowsAssumption

\* No more rows than the limit are all of them.
LEMMA FewRows ==
  ASSUME NEW rows, IsFiniteSet(rows), Cardinality(rows) <= MaxRows
  PROVE  FirstRows(rows) = rows
<1>1. ASSUME NEW x \in rows PROVE Cardinality({y \in rows : y < x}) <= MaxRows
  <2> DEFINE B == {y \in rows : y < x}
  <2>1. B \subseteq rows
    OBVIOUS
  <2> HIDE DEF B
  <2>2. Cardinality(B) <= Cardinality(rows) /\ Cardinality(B) \in Nat /\ Cardinality(rows) \in Nat
    BY <2>1, FS_Subset, FS_CardinalityType
  <2>3. Cardinality(B) <= MaxRows
    BY <2>2, MaxRowsAssumption
  <2> QED
    BY <2>3 DEF B
<1> QED
  BY <1>1 DEF FirstRows

-----------------------------------------------------------------------------
(* Balances.                                                               *)

\* What a statement may read.
Good(s) == s.posted \subseteq Posting /\ IsFiniteSet(s.posted)

\* The lines on an account.
LinesOn(a) == [x \in Posting |-> LinesOf(x)[a]]

LEMMA BookedSet ==
  ASSUME NEW s, Good(s), NEW from, NEW to
  PROVE  /\ Booked(s, from, to) \subseteq s.posted
         /\ Booked(s, from, to) \subseteq Posting
         /\ IsFiniteSet(Booked(s, from, to))
BY FS_Subset DEF Good, Booked

LEMMA LinesOnInt ==
  ASSUME NEW a \in Account PROVE \A x \in Posting : LinesOn(a)[x] \in Int
BY Balances DEF LinesOn

LEMMA BalanceIs ==
  ASSUME NEW s, Good(s), NEW from, NEW to, NEW a \in Account
  PROVE  /\ Balance(s, from, to, a) = SumFunctionOnSet(LinesOn(a), Booked(s, from, to))
         /\ Balance(s, from, to, a) \in Int
<1> DEFINE f == [x \in s.posted |-> LinesOf(x)[a]]
           S == Booked(s, from, to)
<1>1. IsFiniteSet(S) /\ S \subseteq s.posted /\ S \subseteq Posting
  BY BookedSet
<1>2. \A x \in S : f[x] \in Int /\ LinesOn(a)[x] = f[x]
  BY <1>1, Balances DEF LinesOn
<1>3. Balance(s, from, to, a) = SumFunctionOnSet(f, S)
  BY DEF Balance
<1> HIDE DEF f, S
<1>4. SumFunctionOnSet(f, S) = SumFunctionOnSet(LinesOn(a), S)
  BY <1>1, <1>2, SumEqual
<1>5. SumFunctionOnSet(f, S) \in Int
  BY <1>1, <1>2, SumInt
<1> QED
  BY <1>3, <1>4, <1>5 DEF S

\* The balances of a trial balance.
Trial(s, from, to) == [a \in Account |-> Balance(s, from, to, a)]

OfType(type) == {a \in Account : Type[a] = type}

LEMMA TrialInt ==
  ASSUME NEW s, Good(s), NEW from, NEW to
  PROVE  \A a \in Account : Trial(s, from, to)[a] \in Int
BY BalanceIs DEF Trial

LEMMA AccountsBookedSet ==
  ASSUME NEW s, NEW from, NEW to
  PROVE  /\ AccountsBooked(s, from, to) \subseteq Account
         /\ AccountsBooked(s, from, to) \subseteq Nat
         /\ IsFiniteSet(AccountsBooked(s, from, to))
BY ChartAssumption, FS_Subset DEF AccountsBooked

\* An account without lines is not in the trial balance, and misses nothing.
LEMMA NotBooked ==
  ASSUME NEW s, Good(s), NEW from, NEW to, NEW a \in Account, a \notin AccountsBooked(s, from, to)
  PROVE  Balance(s, from, to, a) = 0
<1> DEFINE S == Booked(s, from, to)
           f == LinesOn(a)
<1>1. IsFiniteSet(S) /\ S \subseteq Posting
  BY BookedSet
<1>2. \A x \in S : f[x] = 0
  BY <1>1 DEF AccountsBooked, LinesOn
<1> HIDE DEF S, f
<1>3. SumFunctionOnSet(f, S) = 0
  BY <1>1, <1>2, SumZero
<1> QED
  BY <1>3, BalanceIs DEF S, f

\* A trial balance with all its rows gives the balances of all accounts of a type.
LEMMA TypeTotal ==
  ASSUME NEW s, Good(s), NEW from, NEW to, NEW type,
         TrialAccounts(s, from, to) = AccountsBooked(s, from, to)
  PROVE  /\ BalanceOfType(s, from, to, type) = SumFunctionOnSet(Trial(s, from, to), OfType(type))
         /\ BalanceOfType(s, from, to, type) \in Int
<1> DEFINE f == Trial(s, from, to)
           S == OfType(type)
           T == {a \in AccountsBooked(s, from, to) : Type[a] = type}
<1>1. IsFiniteSet(S) /\ T \in SUBSET S
  BY ChartAssumption, AccountsBookedSet, FS_Subset DEF OfType
<1>2. \A a \in S : f[a] \in Int
  BY TrialInt DEF OfType
<1>3. \A a \in S \ T : f[a] = 0
  BY NotBooked DEF OfType, Trial
<1>4. BalanceOfType(s, from, to, type) = SumFunctionOnSet(f, T)
  BY DEF BalanceOfType, Trial
<1> HIDE DEF f, S, T
<1>5. SumFunctionOnSet(f, S) = SumFunctionOnSet(f, T)
  BY <1>1, <1>2, <1>3, SumZeros
<1>6. SumFunctionOnSet(f, S) \in Int
  BY <1>1, <1>2, SumInt
<1> QED
  BY <1>4, <1>5, <1>6 DEF f, S

\* Debits and credits are equal: the accounts of a trial balance add up to zero.
LEMMA TrialBalances ==
  ASSUME NEW s, Good(s), NEW from, NEW to
  PROVE  SumFunctionOnSet(Trial(s, from, to), Account) = 0
<1> DEFINE S == Booked(s, from, to)
           F == [a \in Account |-> LinesOn(a)]
           G == [x \in S |-> LinesOf(x)]
           zero == [x \in S |-> 0]
           row == Trial(s, from, to)
<1>1. IsFiniteSet(S) /\ S \subseteq Posting
  BY BookedSet
<1>2. \A a \in Account : \A x \in S : F[a][x] \in Int /\ G[x][a] = F[a][x]
  BY <1>1, Balances DEF LinesOn
<1>3. \A a \in Account : row[a] = SumFunctionOnSet(F[a], S)
  BY BalanceIs DEF Trial
<1>4. \A x \in S : zero[x] = SumFunctionOnSet(G[x], Account)
  BY <1>1, Balances
<1>5. \A x \in S : zero[x] = 0
  OBVIOUS
<1> HIDE DEF S, F, G, zero, row
<1>6. Table(F, G, Account, S, row, zero)
  BY <1>2, <1>3, <1>4 DEF Table
<1>7. SumFunctionOnSet(row, Account) = SumFunctionOnSet(zero, S)
  BY <1>1, <1>6, ChartAssumption, SumExchange
<1>8. SumFunctionOnSet(zero, S) = 0
  BY <1>1, <1>5, SumZero
<1> QED
  BY <1>7, <1>8 DEF row

\* Every account has one of the five types.
LEMMA ByType ==
  ASSUME NEW f, \A a \in Account : f[a] \in Int
  PROVE  SumFunctionOnSet(f, Account) =
           SumFunctionOnSet(f, OfType("asset")) + SumFunctionOnSet(f, OfType("liability"))
             + SumFunctionOnSet(f, OfType("equity")) + SumFunctionOnSet(f, OfType("revenue"))
             + SumFunctionOnSet(f, OfType("expense"))
<1> DEFINE A == OfType("asset")
           L == OfType("liability")
           E == OfType("equity")
           R == OfType("revenue")
           X == OfType("expense")
           S1 == Account \ A
           S2 == S1 \ L
           S3 == S2 \ E
<1>1. /\ A \in SUBSET Account /\ L \in SUBSET S1 /\ E \in SUBSET S2 /\ R \in SUBSET S3
      /\ S3 \ R = X
  BY ChartAssumption DEF OfType
<1>2. /\ IsFiniteSet(Account) /\ IsFiniteSet(S1) /\ IsFiniteSet(S2) /\ IsFiniteSet(S3)
      /\ S1 \subseteq Account /\ S2 \subseteq Account /\ S3 \subseteq Account
  BY ChartAssumption, FS_Subset
<1>3. /\ \A a \in S1 : f[a] \in Int
      /\ \A a \in S2 : f[a] \in Int
      /\ \A a \in S3 : f[a] \in Int
  BY <1>2
<1> HIDE DEF A, L, E, R, X
<1>4. SumFunctionOnSet(f, Account) = SumFunctionOnSet(f, A) + SumFunctionOnSet(f, S1)
  BY <1>1, <1>2, SumUnion
<1> HIDE DEF S1
<1>5. SumFunctionOnSet(f, S1) = SumFunctionOnSet(f, L) + SumFunctionOnSet(f, S2)
  BY <1>1, <1>2, <1>3, SumUnion
<1> HIDE DEF S2
<1>6. SumFunctionOnSet(f, S2) = SumFunctionOnSet(f, E) + SumFunctionOnSet(f, S3)
  BY <1>1, <1>2, <1>3, SumUnion
<1> HIDE DEF S3
<1>7. SumFunctionOnSet(f, S3) = SumFunctionOnSet(f, R) + SumFunctionOnSet(f, X)
  BY <1>1, <1>2, <1>3, SumUnion
<1>8. /\ IsFiniteSet(A) /\ IsFiniteSet(L) /\ IsFiniteSet(E) /\ IsFiniteSet(R) /\ IsFiniteSet(X)
      /\ A \subseteq Account /\ L \subseteq Account /\ E \subseteq Account /\ R \subseteq Account
      /\ X \subseteq Account
  BY ChartAssumption, FS_Subset DEF A, L, E, R, X, OfType
<1>9. /\ SumFunctionOnSet(f, A) \in Int
      /\ SumFunctionOnSet(f, L) \in Int
      /\ SumFunctionOnSet(f, E) \in Int
      /\ SumFunctionOnSet(f, R) \in Int
      /\ SumFunctionOnSet(f, X) \in Int
  BY <1>8, SumInt
<1>10. SumFunctionOnSet(f, Account) =
         SumFunctionOnSet(f, A) + SumFunctionOnSet(f, L) + SumFunctionOnSet(f, E)
           + SumFunctionOnSet(f, R) + SumFunctionOnSet(f, X)
  BY <1>4, <1>5, <1>6, <1>7, <1>9
<1> QED
  BY <1>10 DEF A, L, E, R, X

-----------------------------------------------------------------------------
(* The balance sheet.                                                      *)

\* What a later statement reads is what an earlier one has read, and the rest.
Later(s1, s2, late) ==
  /\ Good(s1) /\ Good(s2) /\ Good(late)
  /\ s1.posted \subseteq s2.posted
  /\ late.posted = s2.posted \ s1.posted

LEMMA LaterBalance ==
  ASSUME NEW s1, NEW s2, NEW late, Later(s1, s2, late), NEW from, NEW to, NEW a \in Account
  PROVE  Balance(s2, from, to, a) = Balance(s1, from, to, a) + Balance(late, from, to, a)
<1> DEFINE f == LinesOn(a)
           S == Booked(s2, from, to)
           T == Booked(s1, from, to)
<1>1. Good(s1) /\ Good(s2) /\ Good(late)
  BY DEF Later
<1>2. T \in SUBSET S /\ S \ T = Booked(late, from, to)
  BY DEF Later, Booked
<1>3. IsFiniteSet(S) /\ S \subseteq Posting
  BY <1>1, BookedSet
<1>4. \A x \in S : f[x] \in Int
  BY <1>3, LinesOnInt
<1>5. /\ Balance(s2, from, to, a) = SumFunctionOnSet(f, S)
      /\ Balance(s1, from, to, a) = SumFunctionOnSet(f, T)
      /\ Balance(late, from, to, a) = SumFunctionOnSet(f, Booked(late, from, to))
  BY <1>1, BalanceIs
<1> HIDE DEF f, S, T
<1>6. SumFunctionOnSet(f, S) = SumFunctionOnSet(f, T) + SumFunctionOnSet(f, S \ T)
  BY <1>2, <1>3, <1>4, SumUnion
<1> QED
  BY <1>2, <1>5, <1>6

\* What has been posted late has no more accounts than what is posted now.
LEMMA LaterRows ==
  ASSUME NEW s1, NEW s2, NEW late, Later(s1, s2, late), NEW from, NEW to,
         ~TooMany(TrialAccounts(s2, from, to))
  PROVE  TrialAccounts(late, from, to) = AccountsBooked(late, from, to)
<1> DEFINE A == AccountsBooked(late, from, to)
           B == AccountsBooked(s2, from, to)
<1>1. A \subseteq B
  BY DEF Later, AccountsBooked, Booked
<1>2. B \subseteq Nat /\ IsFiniteSet(B) /\ IsFiniteSet(A)
  BY AccountsBookedSet
<1>3. ~TooMany(FirstRows(B))
  BY DEF TrialAccounts
<1> HIDE DEF A, B
<1>4. FirstRows(B) = B
  BY <1>2, <1>3, AllRows
<1>5. Cardinality(A) <= Cardinality(B) /\ Cardinality(A) \in Nat /\ Cardinality(B) \in Nat
  BY <1>1, <1>2, FS_Subset, FS_CardinalityType
<1>6. ~(Cardinality(B) > MaxRows)
  BY <1>3, <1>4 DEF TooMany
<1>7. Cardinality(A) <= MaxRows
  BY <1>5, <1>6, MaxRowsAssumption
<1>8. FirstRows(A) = A
  BY <1>2, <1>7, FewRows
<1> QED
  BY <1>8 DEF A, TrialAccounts

LEMMA TrialRows ==
  ASSUME NEW s, NEW from, NEW to, ~TooMany(TrialAccounts(s, from, to))
  PROVE  TrialAccounts(s, from, to) = AccountsBooked(s, from, to)
<1>1. ~TooMany(FirstRows(AccountsBooked(s, from, to)))
  BY DEF TrialAccounts
<1> QED
  BY <1>1, AccountsBookedSet, AllRows DEF TrialAccounts

LEMMA LaterType ==
  ASSUME NEW s1, NEW s2, NEW late, Later(s1, s2, late), NEW from, NEW to, NEW type,
         ~TooMany(TrialAccounts(s1, from, to)), ~TooMany(TrialAccounts(s2, from, to))
  PROVE  BalanceOfType(s2, from, to, type) =
           BalanceOfType(s1, from, to, type) + BalanceOfType(late, from, to, type)
<1> DEFINE S == OfType(type)
           f == Trial(s1, from, to)
           g == Trial(late, from, to)
           h == Trial(s2, from, to)
<1>1. Good(s1) /\ Good(s2) /\ Good(late)
  BY DEF Later
<1>2. IsFiniteSet(S)
  BY ChartAssumption, FS_Subset DEF OfType
<1>3. \A a \in S : f[a] \in Int /\ g[a] \in Int
  BY <1>1, TrialInt DEF OfType
<1>4. \A a \in S : h[a] = f[a] + g[a]
  BY LaterBalance DEF OfType, Trial
<1>5. /\ TrialAccounts(s1, from, to) = AccountsBooked(s1, from, to)
      /\ TrialAccounts(s2, from, to) = AccountsBooked(s2, from, to)
  BY TrialRows
<1>6. TrialAccounts(late, from, to) = AccountsBooked(late, from, to)
  BY LaterRows
<1> HIDE DEF S, f, g, h
<1>7. SumFunctionOnSet(h, S) = SumFunctionOnSet(f, S) + SumFunctionOnSet(g, S)
  BY <1>2, <1>3, <1>4, SumPlus
<1> USE DEF S, f, g, h
<1>8. BalanceOfType(s1, from, to, type) = SumFunctionOnSet(f, S)
  BY <1>1, <1>5, TypeTotal
<1>9. BalanceOfType(s2, from, to, type) = SumFunctionOnSet(h, S)
  BY <1>1, <1>5, TypeTotal
<1>10. BalanceOfType(late, from, to, type) = SumFunctionOnSet(g, S)
  BY <1>1, <1>6, TypeTotal
<1> QED
  BY <1>7, <1>8, <1>9, <1>10

\* A trial balance with all its rows balances by type.
LEMMA TypesBalance ==
  ASSUME NEW s, Good(s), NEW from, NEW to, ~TooMany(TrialAccounts(s, from, to))
  PROVE  BalanceOfType(s, from, to, "asset") + BalanceOfType(s, from, to, "liability")
           + BalanceOfType(s, from, to, "equity") + BalanceOfType(s, from, to, "revenue")
           + BalanceOfType(s, from, to, "expense") = 0
<1> DEFINE f == Trial(s, from, to)
<1>1. TrialAccounts(s, from, to) = AccountsBooked(s, from, to)
  BY TrialRows
<1>2. \A type : BalanceOfType(s, from, to, type) = SumFunctionOnSet(f, OfType(type))
  BY <1>1, TypeTotal
<1>3. \A a \in Account : f[a] \in Int
  BY TrialInt
<1>4. SumFunctionOnSet(f, Account) = 0
  BY TrialBalances
<1> HIDE DEF f
<1>5. SumFunctionOnSet(f, Account) =
        SumFunctionOnSet(f, OfType("asset")) + SumFunctionOnSet(f, OfType("liability"))
          + SumFunctionOnSet(f, OfType("equity")) + SumFunctionOnSet(f, OfType("revenue"))
          + SumFunctionOnSet(f, OfType("expense"))
  BY <1>3, ByType
<1> QED
  BY <1>2, <1>4, <1>5

\* The sheet of two trial balances is off by the income posted in between.
LEMMA Sheet ==
  ASSUME NEW s1, NEW s2, NEW late, Later(s1, s2, late), NEW to,
         ~TooMany(TrialAccounts(s1, 0, to)), ~TooMany(TrialAccounts(s2, 0, to))
  PROVE  Assets(s1, to) - LiabilitiesAndEquity(s1, s2, to) = -NetIncome(late, 0, to)
<1> DEFINE A == BalanceOfType(s1, 0, to, "asset")
           L == BalanceOfType(s1, 0, to, "liability")
           E == BalanceOfType(s1, 0, to, "equity")
           R == BalanceOfType(s1, 0, to, "revenue")
           X == BalanceOfType(s1, 0, to, "expense")
           R2 == BalanceOfType(s2, 0, to, "revenue")
           X2 == BalanceOfType(s2, 0, to, "expense")
           RL == BalanceOfType(late, 0, to, "revenue")
           XL == BalanceOfType(late, 0, to, "expense")
<1>1. Good(s1) /\ Good(s2) /\ Good(late)
  BY DEF Later
<1>2. A + L + E + R + X = 0
  BY <1>1, TypesBalance
<1>3. R2 = R + RL /\ X2 = X + XL
  BY LaterType
<1>4. \A type : BalanceOfType(s1, 0, to, type) \in Int
  BY <1>1, TrialRows, TypeTotal
<1>5. \A type : BalanceOfType(late, 0, to, type) \in Int
  BY <1>1, LaterRows, TypeTotal
<1>6. A \in Int /\ L \in Int /\ E \in Int /\ R \in Int /\ X \in Int /\ RL \in Int /\ XL \in Int
  BY <1>4, <1>5
<1>7. /\ Assets(s1, to) = A
      /\ LiabilitiesAndEquity(s1, s2, to) = -L - E + (-R2 - X2)
      /\ NetIncome(late, 0, to) = -RL - XL
  BY DEF Assets, LiabilitiesAndEquity, NetIncome
<1> HIDE DEF A, L, E, R, X, R2, X2, RL, XL
<1>8. A - (-L - E + (-R2 - X2)) = -(-RL - XL)
  BY <1>2, <1>3, <1>6
<1> QED
  BY <1>7, <1>8

-----------------------------------------------------------------------------
(* What payments settle.                                                   *)

\* What a statement reads when payments are posted under their checks: they
\* settle posted documents, and none of them beyond its total.
Sound(s) ==
  /\ Good(s)
  /\ \A p \in s.posted \cap Payment : \A d \in Document : p.allocated[d] > 0 => d \in s.posted
  /\ \A d \in Document : SettledBy(s.posted \cap Payment, d) <= d.total

AllocatedTo(d) == [p \in Payment |-> p.allocated[d]]

LEMMA AllocatedNat ==
  ASSUME NEW d \in Document PROVE \A p \in Payment : AllocatedTo(d)[p] \in Nat
BY PaymentFields DEF AllocatedTo

LEMMA SettledIs ==
  ASSUME NEW P, IsFiniteSet(P), P \subseteq Payment, NEW d \in Document
  PROVE  /\ SettledBy(P, d) = SumFunctionOnSet(AllocatedTo(d), P)
         /\ SettledBy(P, d) \in Nat
<1> DEFINE f == [p \in P |-> p.allocated[d]]
           g == AllocatedTo(d)
<1>1. \A p \in P : f[p] \in Nat /\ f[p] \in Int /\ g[p] = f[p]
  BY PaymentFields DEF AllocatedTo
<1>2. SettledBy(P, d) = SumFunctionOnSet(f, P)
  BY DEF SettledBy
<1> HIDE DEF f, g
<1>3. SumFunctionOnSet(f, P) = SumFunctionOnSet(g, P)
  BY <1>1, SumEqual
<1>4. SumFunctionOnSet(f, P) \in Nat
  BY <1>1, SumNat
<1> QED
  BY <1>2, <1>3, <1>4 DEF g

LEMMA SettledSplit ==
  ASSUME NEW P, IsFiniteSet(P), P \subseteq Payment, NEW Q \in SUBSET P, NEW d \in Document
  PROVE  SettledBy(P, d) = SettledBy(Q, d) + SettledBy(P \ Q, d)
<1> DEFINE f == AllocatedTo(d)
           R == P \ Q
<1>1. IsFiniteSet(Q) /\ Q \subseteq Payment /\ IsFiniteSet(R) /\ R \subseteq Payment
  BY FS_Subset
<1>2. \A p \in P : f[p] \in Int
  BY AllocatedNat
<1>3. SumFunctionOnSet(f, P) = SumFunctionOnSet(f, Q) + SumFunctionOnSet(f, R)
  <2> HIDE DEF f
  <2> QED
    BY <1>2, SumUnion
<1> HIDE DEF R
<1>4. SettledBy(P, d) = SumFunctionOnSet(f, P)
  BY SettledIs
<1>5. SettledBy(Q, d) = SumFunctionOnSet(f, Q)
  BY <1>1, SettledIs
<1>6. SettledBy(R, d) = SumFunctionOnSet(f, R)
  BY <1>1, SettledIs
<1> QED
  BY <1>3, <1>4, <1>5, <1>6 DEF R

LEMMA PostedPaymentsSet ==
  ASSUME NEW s, Good(s)
  PROVE  /\ IsFiniteSet(s.posted \cap Payment)
         /\ \A P \in SUBSET (s.posted \cap Payment) : IsFiniteSet(P) /\ P \subseteq Payment
<1> DEFINE A == s.posted \cap Payment
<1>1. A \subseteq s.posted /\ IsFiniteSet(s.posted) /\ A \subseteq Payment
  BY DEF Good
<1>2. IsFiniteSet(A)
  BY <1>1, FS_Subset
<1>3. \A P \in SUBSET A : IsFiniteSet(P) /\ P \subseteq Payment
  BY <1>1, <1>2, FS_Subset
<1> QED
  BY <1>2, <1>3

\* No part of the payments settles a document beyond its total.
LEMMA NotOver ==
  ASSUME NEW s, Sound(s), NEW P \in SUBSET (s.posted \cap Payment), NEW d \in Document
  PROVE  /\ SettledBy(P, d) \in Nat /\ d.total \in Nat
         /\ SettledBy(P, d) <= d.total
<1> DEFINE A == s.posted \cap Payment
           R == A \ P
<1>1. Good(s) /\ SettledBy(A, d) <= d.total
  BY DEF Sound
<1>2. IsFiniteSet(A) /\ A \subseteq Payment
  BY <1>1, PostedPaymentsSet
<1>3. IsFiniteSet(P) /\ P \subseteq Payment /\ IsFiniteSet(R) /\ R \subseteq Payment
  BY <1>2, FS_Subset
<1> HIDE DEF A
<1>4. SettledBy(A, d) = SettledBy(P, d) + SettledBy(R, d)
  BY <1>2, SettledSplit DEF A
<1> HIDE DEF R
<1>5. SettledBy(P, d) \in Nat
  BY <1>3, SettledIs
<1>6. SettledBy(R, d) \in Nat
  BY <1>3, SettledIs
<1>7. SettledBy(A, d) \in Nat
  BY <1>2, SettledIs
<1>8. d.total \in Nat
  BY DocumentFields
<1> QED
  BY <1>1, <1>4, <1>5, <1>6, <1>7, <1>8

LEMMA SettlementsSet ==
  ASSUME NEW s, NEW type, NEW as_of
  PROVE  /\ Settlements(s, type) \in SUBSET (s.posted \cap Payment)
         /\ SettlementsUntil(s, type, as_of) \in SUBSET Settlements(s, type)
         /\ SettlementsUntil(s, type, as_of) \in SUBSET (s.posted \cap Payment)
         /\ Settlements(s, type) \ SettlementsUntil(s, type, as_of)
              \in SUBSET (s.posted \cap Payment)
BY DEF Settlements, SettlementsUntil

\* What the aged report shows of a document is never cut off at zero.
LEMMA AgedIs ==
  ASSUME NEW s, Sound(s), NEW as_of, NEW d \in Document
  PROVE  /\ AgedOutstanding(s, as_of, d) = d.total - SettledBy(SettlementsUntil(s, d.type, as_of), d)
         /\ AgedOutstanding(s, as_of, d) \in Nat
<1> DEFINE n == SettledBy(SettlementsUntil(s, d.type, as_of), d)
           P == SettlementsUntil(s, d.type, as_of)
<1>1. P \in SUBSET (s.posted \cap Payment)
  BY SettlementsSet
<1>2. SettledBy(P, d) \in Nat /\ d.total \in Nat /\ SettledBy(P, d) <= d.total
  BY <1>1, NotOver
<1>3. n \in Nat /\ d.total \in Nat /\ n <= d.total
  BY <1>2
<1>4. AgedOutstanding(s, as_of, d) = IF d.total - n < 0 THEN 0 ELSE d.total - n
  BY DEF AgedOutstanding, AtLeastZero
<1> HIDE DEF n
<1>5. AgedOutstanding(s, as_of, d) = d.total - n /\ AgedOutstanding(s, as_of, d) \in Nat
  BY <1>3, <1>4
<1> QED
  BY <1>5 DEF n

-----------------------------------------------------------------------------
(* The aged report and the control account.                                *)

\* The documents of a type.
OfDocumentType(s, type) == {d \in s.posted \cap Document : d.type = type}

\* What payments of the type until a day settle of each document.
Until(s, type, as_of) == [d \in Document |-> SettledBy(SettlementsUntil(s, type, as_of), d)]

Totals == [d \in Document |-> d.total]

LEMMA DocumentSets ==
  ASSUME NEW s, NEW type, NEW as_of
  PROVE  /\ IssuedBy(s, as_of, type) \in SUBSET OfDocumentType(s, type)
         /\ IssuedBy(s, as_of, type) \subseteq Document
         /\ IsFiniteSet(IssuedBy(s, as_of, type))
         /\ IsFiniteSet(OfDocumentType(s, type))
         /\ OfDocumentType(s, type) \subseteq Document
BY DocumentAssumption, FS_Subset DEF IssuedBy, OfDocumentType

LEMMA UntilNat ==
  ASSUME NEW s, Sound(s), NEW type, NEW as_of
  PROVE  \A d \in Document : Until(s, type, as_of)[d] \in Nat /\ Until(s, type, as_of)[d] \in Int
<1> DEFINE P == SettlementsUntil(s, type, as_of)
<1>1. P \in SUBSET (s.posted \cap Payment)
  BY SettlementsSet
<1>2. \A d \in Document : SettledBy(P, d) \in Nat
  BY <1>1, NotOver
<1> QED
  BY <1>2 DEF Until

LEMMA TotalsInt == \A d \in Document : Totals[d] \in Int
BY DocumentFields DEF Totals

\* There are no more ids than documents.
LEMMA Ids ==
  ASSUME NEW D, IsFiniteSet(D)
  PROVE  IsFiniteSet({d.id : d \in D}) /\ Cardinality({d.id : d \in D}) <= Cardinality(D)
<1> DEFINE T == {d.id : d \in D}
           f == [d \in D |-> d.id]
<1>1. f \in [D -> T] /\ \A t \in T : \E d \in D : f[d] = t
  OBVIOUS
<1> HIDE DEF T, f
<1>2. f \in Surjection(D, T)
  BY <1>1 DEF Surjection
<1> QED
  BY <1>2, FS_Surjection DEF T

\* A report that is not refused lists all the documents.
LEMMA AgedAll ==
  ASSUME NEW s, NEW as_of, NEW type, ~TooMany(AgedRows(s, as_of, type))
  PROVE  AgedRows(s, as_of, type) = IssuedBy(s, as_of, type)
<1> DEFINE I == IssuedBy(s, as_of, type)
           rows == AgedRows(s, as_of, type)
           ids == {e.id : e \in I}
           listed == {e.id : e \in rows}
<1>1. rows = {d \in I : d.id \in FirstRows(ids)}
  BY DEF AgedRows
<1>2. IsFiniteSet(I) /\ I \subseteq Document /\ rows \subseteq I
  BY <1>1, DocumentSets
<1>3. ids \subseteq Nat
  BY <1>2, DocumentFields
<1>4. IsFiniteSet(ids)
  BY <1>2, Ids
<1>5. IsFiniteSet(rows)
  BY <1>2, FS_Subset
<1>6. IsFiniteSet(listed) /\ Cardinality(listed) <= Cardinality(rows)
  BY <1>5, Ids
<1>7. FirstRows(ids) = listed
  BY <1>1 DEF FirstRows
<1>8. Cardinality(listed) \in Nat /\ Cardinality(rows) \in Nat
  BY <1>5, <1>6, FS_CardinalityType
<1>9. ~(Cardinality(rows) > MaxRows)
  BY DEF TooMany
<1> HIDE DEF I, rows, ids, listed
<1>10. ~TooMany(FirstRows(ids))
  BY <1>6, <1>7, <1>8, <1>9, MaxRowsAssumption DEF TooMany
<1>11. FirstRows(ids) = ids
  BY <1>3, <1>4, <1>10, AllRows
<1>12. rows = I
  BY <1>1, <1>11 DEF ids
<1> QED
  BY <1>12 DEF rows, I

\* The aged report less what is settled early: all documents issued so far less
\* all payments made so far.
LEMMA AgedIsOpen ==
  ASSUME NEW s, Sound(s), NEW as_of \in Nat, NEW type, ~TooMany(AgedRows(s, as_of, type))
  PROVE  /\ AgedTotal(s, as_of, type) - SettledEarly(s, as_of, type)
              = SumFunctionOnSet(Totals, IssuedBy(s, as_of, type))
                - SumFunctionOnSet(Until(s, type, as_of), OfDocumentType(s, type))
         /\ AgedTotal(s, as_of, type) \in Int /\ SettledEarly(s, as_of, type) \in Int
<1> DEFINE I == IssuedBy(s, as_of, type)
           D == OfDocumentType(s, type)
           u == Until(s, type, as_of)
           aged == [d \in Document |-> AgedOutstanding(s, as_of, d)]
           t == Totals
<1>1. IsFiniteSet(I) /\ I \subseteq Document /\ IsFiniteSet(D) /\ D \subseteq Document
      /\ I \in SUBSET D
  BY DocumentSets
<1>2. \A d \in D : u[d] \in Int /\ t[d] \in Int
  BY <1>1, UntilNat, TotalsInt
<1>3. \A d \in I : aged[d] \in Int /\ aged[d] = t[d] - u[d]
  <2>1. \A d \in I : d.type = type /\ d \in Document
    BY <1>1 DEF IssuedBy
  <2>2. \A d \in I : AgedOutstanding(s, as_of, d) \in Nat
    BY <2>1, AgedIs
  <2>3. \A d \in I : AgedOutstanding(s, as_of, d)
                       = d.total - SettledBy(SettlementsUntil(s, type, as_of), d)
    BY <2>1, AgedIs
  <2> HIDE DEF I
  <2> QED
    BY <2>1, <2>2, <2>3 DEF Until, Totals
<1>4. AgedTotal(s, as_of, type) = SumFunctionOnSet(aged, I)
  BY AgedAll DEF AgedTotal
<1>5. SettledEarly(s, as_of, type) = SumFunctionOnSet(u, D \ I)
  <2>1. D \ I = {d \in s.posted \cap Document : d.type = type /\ d.issued > as_of}
    BY DocumentFields DEF OfDocumentType, IssuedBy
  <2> QED
    BY <2>1 DEF SettledEarly, Until
<1>6. \A d \in I : u[d] \in Int /\ t[d] \in Int
  BY <1>1, <1>2
<1>7. IsFiniteSet(D \ I) /\ \A d \in D \ I : u[d] \in Int
  BY <1>1, <1>2, FS_Subset
<1> HIDE DEF I, D, u, aged, t
<1>8. SumFunctionOnSet(aged, I) = SumFunctionOnSet(t, I) - SumFunctionOnSet(u, I)
  BY <1>1, <1>3, <1>6, SumDifference
<1>9. SumFunctionOnSet(u, D) = SumFunctionOnSet(u, I) + SumFunctionOnSet(u, D \ I)
  BY <1>1, <1>2, SumUnion
<1>10. SumFunctionOnSet(t, I) \in Int
  BY <1>1, <1>6, SumInt
<1>11. SumFunctionOnSet(u, I) \in Int
  BY <1>1, <1>6, SumInt
<1>12. SumFunctionOnSet(u, D \ I) \in Int
  BY <1>7, SumInt
<1>13. SumFunctionOnSet(aged, I) \in Int
  BY <1>1, <1>3, SumInt
<1> QED
  BY <1>4, <1>5, <1>8, <1>9, <1>10, <1>11, <1>12, <1>13 DEF t, I, u, D

\* An amount on the side on which documents of a type, or their payments, are
\* booked on their control account.
Signed(type, n) == IF type = "sales_invoice" THEN n ELSE 0 - n

LEMMA SignedIs ==
  ASSUME NEW type, NEW n \in Int
  PROVE  (IF type = "sales_invoice" THEN 1 ELSE -1) * n = Signed(type, n)
<1>1. 1 * n = n /\ (-1) * n = 0 - n
  OBVIOUS
<1> QED
  BY <1>1 DEF Signed

LEMMA SignedTwice ==
  ASSUME NEW type, NEW n \in Int PROVE Signed(type, Signed(type, n)) = n
BY DEF Signed

LEMMA SignedZero == ASSUME NEW type PROVE Signed(type, 0) = 0
BY DEF Signed

\* What a document is for its control account, and for that of another type.
LEMMA ControlDocument ==
  ASSUME NEW s, NEW type, NEW a \in Account, ControlOf(s, type, a),
         NEW d \in Document, d \in s.posted
  PROVE  Signed(type, LinesOf(d)[a]) = IF d.type = type THEN d.total ELSE 0
<1> DEFINE n == (IF a = d.control THEN d.total ELSE 0) - (IF a = d.account THEN d.total ELSE 0)
<1>1. d.account # a /\ (d.control = a <=> d.type = type)
  BY DEF ControlOf
<1>2. d.total \in Int
  BY DocumentFields
<1>3. n = IF d.type = type THEN d.total ELSE 0
  BY <1>1, <1>2
<1>4. LinesOf(d)[a] = (IF d.type = "sales_invoice" THEN 1 ELSE -1) * n
  BY DocumentPosting DEF DocumentLines
<1>5. n \in Int
  BY <1>2, <1>3
<1> HIDE DEF n
<1>6. LinesOf(d)[a] = Signed(d.type, n)
  BY <1>4, <1>5, SignedIs
<1>7. CASE d.type = type
  BY <1>3, <1>5, <1>6, <1>7, SignedTwice
<1>8. CASE d.type # type
  BY <1>3, <1>6, <1>8, SignedZero
<1> QED
  BY <1>7, <1>8

\* The documents with a as their control account that a payment settles are
\* posted documents of the type.
LEMMA ControlSettled ==
  ASSUME NEW s, Sound(s), NEW type, NEW a \in Account, ControlOf(s, type, a),
         NEW p \in Payment, p \in s.posted
  PROVE  /\ SettledOn(p, a) = SumFunctionOnSet(p.allocated, OfDocumentType(s, type))
         /\ p.type # PaymentFor(type) => SettledOn(p, a) = 0
<1> DEFINE C == {d \in Document : d.control = a}
           D == OfDocumentType(s, type)
           f == p.allocated
<1>1. \A d \in C : f[d] \in Nat /\ f[d] \in Int
  BY PaymentFields
<1>2. \A d \in Document : f[d] > 0 => d \in s.posted
  BY DEF Sound
<1>3. D \in SUBSET C
  BY DEF OfDocumentType, ControlOf
<1>4. IsFiniteSet(C)
  BY DocumentAssumption, FS_Subset
<1>5. \A d \in C : f[d] > 0 => d \in D
  BY <1>2 DEF OfDocumentType, ControlOf
<1>6. \A d \in C \ D : f[d] = 0
  BY <1>1, <1>5
<1>7. SettledOn(p, a) = SumFunctionOnSet(f, C)
  BY DEF SettledOn
<1>8. ASSUME p.type # PaymentFor(type) PROVE \A d \in C : f[d] = 0
  <2>1. \A d \in C : f[d] > 0 => p.type = PaymentFor(d.type)
    BY PaymentAssumption
  <2>2. \A d \in D : d.type = type
    BY DEF OfDocumentType
  <2> HIDE DEF D, f
  <2>3. \A d \in C : ~(f[d] > 0)
    BY <1>5, <1>8, <2>1, <2>2
  <2> QED
    BY <1>1, <2>3
<1> HIDE DEF C, D, f
<1>9. SumFunctionOnSet(f, C) = SumFunctionOnSet(f, D)
  BY <1>1, <1>3, <1>4, <1>6, SumZeros
<1>10. p.type # PaymentFor(type) => SumFunctionOnSet(f, C) = 0
  BY <1>4, <1>8, SumZero
<1> QED
  BY <1>7, <1>9, <1>10 DEF f, D

\* What a payment is for the control account of a type.
LEMMA ControlPayment ==
  ASSUME NEW s, Sound(s), NEW type \in DocumentType, NEW a \in Account, ControlOf(s, type, a),
         NEW p \in Payment, p \in s.posted
  PROVE  Signed(type, LinesOf(p)[a]) =
           IF p.type = PaymentFor(type) THEN 0 - SettledOn(p, a) ELSE 0
<1> DEFINE n == (IF a = p.cash THEN p.amount ELSE 0) - SettledOn(p, a)
                - (IF a = p.unapplied THEN Rest(p) ELSE 0)
<1>1. p.cash # a /\ p.unapplied # a
  BY DEF ControlOf
<1>2. SettledOn(p, a) \in Int
  BY SettledOnNat
<1>3. n = 0 - SettledOn(p, a) /\ n \in Int
  BY <1>1, <1>2
<1>4. LinesOf(p)[a] = (IF p.type = "receipt" THEN 1 ELSE -1) * n
  BY PaymentPosting DEF PaymentLines, SettledOn, Rest
<1> HIDE DEF n
<1>5. CASE p.type = PaymentFor(type)
  <2>1. p.type = "receipt" <=> type = "sales_invoice"
    BY <1>5 DEF PaymentFor, DocumentType
  <2>2. LinesOf(p)[a] = (IF type = "sales_invoice" THEN 1 ELSE -1) * n
    BY <1>4, <2>1
  <2>3. LinesOf(p)[a] = Signed(type, n)
    BY <1>3, <2>2, SignedIs
  <2>4. Signed(type, LinesOf(p)[a]) = n
    BY <1>3, <2>3, SignedTwice
  <2> QED
    BY <1>3, <1>5, <2>4
<1>6. CASE p.type # PaymentFor(type)
  <2>1. SettledOn(p, a) = 0
    BY <1>6, ControlSettled
  <2>2. n = 0
    BY <1>3, <2>1
  <2>3. 1 * 0 = 0 /\ (-1) * 0 = 0
    OBVIOUS
  <2>4. LinesOf(p)[a] = 0
    BY <1>4, <2>2, <2>3
  <2> QED
    BY <1>6, <2>4, SignedZero
<1> QED
  BY <1>5, <1>6

\* The balance of a control account: all documents issued so far less all
\* payments made so far.
LEMMA ControlIsOpen ==
  ASSUME NEW s, Sound(s), NEW type \in DocumentType, NEW a \in Account, ControlOf(s, type, a),
         NEW as_of \in Nat
  PROVE  Signed(type, Balance(s, 0, as_of, a)) =
           SumFunctionOnSet(Totals, IssuedBy(s, as_of, type))
             - SumFunctionOnSet(Until(s, type, as_of), OfDocumentType(s, type))
<1> DEFINE B == Booked(s, 0, as_of)
           I == IssuedBy(s, as_of, type)
           P == SettlementsUntil(s, type, as_of)
           D == OfDocumentType(s, type)
           h == [x \in Posting |-> Signed(type, LinesOf(x)[a])]
           minus == [x \in Posting |-> 0 - LinesOf(x)[a]]
           on == [p \in Payment |-> SettledOn(p, a)]
           u == Until(s, type, as_of)
           t == Totals
<1>1. Good(s)
  BY DEF Sound
<1>2. /\ IsFiniteSet(B) /\ B \subseteq Posting /\ B \subseteq s.posted
      /\ IsFiniteSet(I) /\ I \subseteq Document /\ IsFiniteSet(D) /\ D \subseteq Document
  BY <1>1, BookedSet, DocumentSets
<1>3. P \in SUBSET (s.posted \cap Payment) /\ IsFiniteSet(P) /\ P \subseteq Payment
  BY <1>1, SettlementsSet, PostedPaymentsSet
<1>4. I \in SUBSET B
  BY DocumentPosting, DocumentFields DEF IssuedBy, Booked
<1>5. P \in SUBSET B /\ P \in SUBSET (B \ I)
  <2>1. \A p \in P : p \in s.posted /\ p \in Payment /\ p.date <= as_of
    BY <1>3 DEF SettlementsUntil
  <2>2. \A p \in P : Date(p) = p.date /\ p.date \in Nat
    BY <2>1, PaymentPosting, PaymentFields
  <2>3. P \in SUBSET B
    BY <2>1, <2>2 DEF Booked
  <2>4. \A p \in P : p \notin I
    BY <1>2, <1>3, DifferentRows
  <2> QED
    BY <2>3, <2>4
<1>6. \A x \in B : h[x] \in Int
  BY <1>2, Balances DEF Signed
<1>7. \A d \in I : h[d] \in Int /\ t[d] = h[d]
  <2>1. \A d \in I : d \in Document /\ d \in s.posted /\ d.type = type
    BY DEF IssuedBy
  <2>2. \A d \in I : Signed(type, LinesOf(d)[a]) = d.total
    BY <2>1, ControlDocument
  <2>3. \A d \in I : d \in Posting /\ d.total \in Int
    BY <2>1, DocumentFields DEF Posting
  <2> QED
    BY <2>1, <2>2, <2>3 DEF Totals
<1>8. \A p \in P : on[p] \in Int /\ h[p] = 0 - on[p] /\ p.type = PaymentFor(type)
  <2>1. \A p \in P : p \in Payment /\ p \in s.posted /\ p.type = PaymentFor(type)
    BY <1>3 DEF SettlementsUntil, Settlements
  <2>2. \A p \in P : Signed(type, LinesOf(p)[a]) = 0 - SettledOn(p, a)
    BY <2>1, ControlPayment
  <2>3. \A p \in P : p \in Posting /\ SettledOn(p, a) \in Int
    BY <2>1, SettledOnNat DEF Posting
  <2> QED
    BY <2>1, <2>2, <2>3
<1>9. \A x \in (B \ I) \ P : h[x] = 0
  <2>1. SUFFICES ASSUME NEW x \in (B \ I) \ P PROVE Signed(type, LinesOf(x)[a]) = 0
    BY <1>2
  <2>2. x \in s.posted /\ x \in Posting /\ 0 <= Date(x) /\ Date(x) <= as_of
    BY <1>2 DEF Booked
  <2>3. CASE x \in Document
    <3>1. x.issued <= as_of
      BY <2>2, <2>3, DocumentPosting
    <3>2. x.type # type
      BY <2>1, <2>2, <2>3, <3>1 DEF IssuedBy
    <3> QED
      BY <2>2, <2>3, <3>2, ControlDocument
  <2>4. CASE x \in Payment
    <3>1. x.date <= as_of
      BY <2>2, <2>4, PaymentPosting
    <3>2. x.type # PaymentFor(type)
      BY <2>1, <2>2, <2>4, <3>1 DEF SettlementsUntil, Settlements
    <3> QED
      BY <2>2, <2>4, <3>2, ControlPayment
  <2>5. CASE x \in Entry
    <3>1. x.lines[a] = 0
      BY <2>2, <2>5 DEF ControlOf
    <3>2. LinesOf(x)[a] = 0
      BY <2>5, <3>1, EntryPosting
    <3> QED
      BY <3>2, SignedZero
  <2> QED
    BY <2>2, <2>3, <2>4, <2>5 DEF Posting
<1>10. SumFunctionOnSet(on, P) = SumFunctionOnSet(u, D)
  <2> DEFINE F == [p \in P |-> p.allocated]
             G == [d \in D |-> [p \in P |-> p.allocated[d]]]
  <2>1. \A p \in P : \A d \in D : F[p][d] \in Int /\ G[d][p] = F[p][d]
    BY <1>2, <1>3, PaymentFields
  <2>2. \A p \in P : p \in Payment /\ p \in s.posted
    BY <1>3
  <2>3. \A p \in P : SettledOn(p, a) = SumFunctionOnSet(p.allocated, D)
    BY <2>2, ControlSettled
  <2>4. \A p \in P : on[p] = SumFunctionOnSet(F[p], D)
    BY <2>2, <2>3
  <2>5. \A d \in D : u[d] = SumFunctionOnSet(G[d], P)
    BY <1>2 DEF Until, SettledBy
  <2> HIDE DEF F, G, on, u, P, D
  <2>6. Table(F, G, P, D, on, u)
    BY <2>1, <2>4, <2>5 DEF Table
  <2> QED
    BY <1>2, <1>3, <2>6, SumExchange
<1>11. /\ \A x \in B : LinesOn(a)[x] \in Int
       /\ \A x \in B : h[x] = IF type = "sales_invoice" THEN LinesOn(a)[x] ELSE 0 - LinesOn(a)[x]
  BY <1>2, LinesOnInt DEF Signed, LinesOn
<1>12. Balance(s, 0, as_of, a) = SumFunctionOnSet(LinesOn(a), B)
  BY <1>1, BalanceIs
<1> HIDE DEF B, I, P, D, h, on, u, t
<1>13. SumFunctionOnSet(h, B) = Signed(type, SumFunctionOnSet(LinesOn(a), B))
  <2> DEFINE f == LinesOn(a)
  <2>1. \A x \in B : f[x] \in Int
    BY <1>11
  <2>2. \A x \in B : h[x] = IF type = "sales_invoice" THEN f[x] ELSE 0 - f[x]
    BY <1>11
  <2> HIDE DEF f
  <2>3. CASE type = "sales_invoice"
    <3>1. \A x \in B : f[x] \in Int /\ h[x] = f[x]
      BY <2>1, <2>2, <2>3
    <3>2. SumFunctionOnSet(f, B) = SumFunctionOnSet(h, B)
      BY <1>2, <3>1, SumEqual
    <3> QED
      BY <2>3, <3>2 DEF Signed, f
  <2>4. CASE type # "sales_invoice"
    <3>1. \A x \in B : f[x] \in Int /\ h[x] = -f[x]
      BY <2>1, <2>2, <2>4
    <3>2. SumFunctionOnSet(h, B) = 0 - SumFunctionOnSet(f, B)
      BY <1>2, <3>1, SumNegative
    <3> QED
      BY <2>4, <3>2 DEF Signed, f
  <2> QED
    BY <2>3, <2>4
<1>14. SumFunctionOnSet(h, B) = SumFunctionOnSet(h, I) + SumFunctionOnSet(h, B \ I)
  BY <1>2, <1>4, <1>6, SumUnion
<1>15. SumFunctionOnSet(h, I) = SumFunctionOnSet(t, I)
  BY <1>2, <1>7, SumEqual
<1>16. SumFunctionOnSet(h, B \ I) = SumFunctionOnSet(h, P)
  <2> DEFINE R == B \ I
  <2>1. IsFiniteSet(R) /\ P \in SUBSET R /\ \A x \in R : h[x] \in Int
    BY <1>2, <1>5, <1>6, FS_Subset
  <2>2. \A x \in R \ P : h[x] = 0
    BY <1>9
  <2> HIDE DEF R
  <2>3. SumFunctionOnSet(h, R) = SumFunctionOnSet(h, P)
    BY <2>1, <2>2, SumZeros
  <2> QED
    BY <2>3 DEF R
<1>17. SumFunctionOnSet(h, P) = 0 - SumFunctionOnSet(on, P)
  <2>1. \A p \in P : on[p] \in Int /\ h[p] = -on[p]
    BY <1>8
  <2> QED
    BY <1>3, <2>1, SumNegative
<1>18. SumFunctionOnSet(t, I) \in Int /\ SumFunctionOnSet(on, P) \in Int
  <2>1. SumFunctionOnSet(h, I) \in Int
    BY <1>2, <1>7, SumInt
  <2>2. SumFunctionOnSet(on, P) \in Int
    BY <1>3, <1>8, SumInt
  <2> QED
    BY <1>15, <2>1, <2>2
<1>19. Signed(type, Balance(s, 0, as_of, a)) = SumFunctionOnSet(t, I) - SumFunctionOnSet(u, D)
  <2>1. Signed(type, Balance(s, 0, as_of, a)) = SumFunctionOnSet(h, B)
    BY <1>12, <1>13
  <2>2. SumFunctionOnSet(h, B) = SumFunctionOnSet(t, I) + (0 - SumFunctionOnSet(on, P))
    BY <1>14, <1>15, <1>16, <1>17
  <2>3. SumFunctionOnSet(h, B) = SumFunctionOnSet(t, I) - SumFunctionOnSet(on, P)
    BY <1>18, <2>2
  <2> QED
    BY <1>10, <2>1, <2>3
<1> QED
  BY <1>19 DEF t, I, u, D

\* The aged report is the balance of the control account.
LEMMA AgedControl ==
  ASSUME NEW s, Sound(s), NEW type \in DocumentType, NEW a \in Account, ControlOf(s, type, a),
         NEW as_of \in Nat, ~TooMany(AgedRows(s, as_of, type))
  PROVE  AgedTotal(s, as_of, type) =
           (IF type = "sales_invoice" THEN 1 ELSE -1) * Balance(s, 0, as_of, a)
             + SettledEarly(s, as_of, type)
<1> DEFINE A == AgedTotal(s, as_of, type)
           E == SettledEarly(s, as_of, type)
           N == Signed(type, Balance(s, 0, as_of, a))
<1>1. A - E = N
  BY AgedIsOpen, ControlIsOpen
<1>2. A \in Int /\ E \in Int
  BY AgedIsOpen
<1>3. Good(s)
  BY DEF Sound
<1>4. Balance(s, 0, as_of, a) \in Int
  BY <1>3, BalanceIs
<1>5. (IF type = "sales_invoice" THEN 1 ELSE -1) * Balance(s, 0, as_of, a) = N
  BY <1>4, SignedIs
<1> HIDE DEF A, E, N
<1>6. A = N + E
  BY <1>1, <1>2
<1> QED
  BY <1>5, <1>6 DEF A, E

-----------------------------------------------------------------------------
(* The cash position.                                                      *)

\* A balance is what was there before a day, and what has come since.
LEMMA BalanceSplit ==
  ASSUME NEW s, Good(s), NEW to \in Nat, NEW from \in 1 .. to, NEW a \in Account
  PROVE  Balance(s, 0, to, a) = Opening(s, from, a) + Balance(s, from, to, a)
<1> DEFINE f == LinesOn(a)
           S == Booked(s, 0, to)
           T == Booked(s, 0, from - 1)
<1>1. T \in SUBSET S /\ S \ T = Booked(s, from, to)
  <2>1. \A x \in s.posted : Date(x) \in Nat
    BY DateType DEF Good
  <2> QED
    BY <2>1 DEF Booked
<1>2. IsFiniteSet(S) /\ S \subseteq Posting
  BY BookedSet
<1>3. \A x \in S : f[x] \in Int
  BY <1>2, LinesOnInt
<1>4. Balance(s, 0, to, a) = SumFunctionOnSet(f, S)
  BY BalanceIs
<1>5. Opening(s, from, a) = SumFunctionOnSet(f, T)
  BY BalanceIs DEF Opening
<1>6. Balance(s, from, to, a) = SumFunctionOnSet(f, Booked(s, from, to))
  BY BalanceIs
<1> HIDE DEF f, S, T
<1>7. SumFunctionOnSet(f, S) = SumFunctionOnSet(f, T) + SumFunctionOnSet(f, S \ T)
  BY <1>1, <1>2, <1>3, SumUnion
<1> QED
  BY <1>1, <1>4, <1>5, <1>6, <1>7

\* The dashboard's cash is what the cash flow report closes with.
LEMMA CashCloses ==
  ASSUME NEW s, Good(s), NEW accounts, accounts \subseteq Account, NEW to \in Nat,
         NEW from \in 1 .. to, ~TooMany(CashRows(s, accounts))
  PROVE  CashPosition(s, accounts, to) = ClosingCash(s, accounts, from, to)
<1> DEFINE f == [a \in accounts |-> Balance(s, 0, to, a)]
           g == [a \in accounts |-> Opening(s, from, a) + Balance(s, from, to, a)]
           rows == {a \in accounts : \E x \in s.posted : LinesOf(x)[a] # 0}
<1>1. IsFiniteSet(accounts) /\ IsFiniteSet(rows) /\ rows \subseteq Nat /\ rows \in SUBSET accounts
  BY ChartAssumption, FS_Subset
<1>2. \A a \in accounts : f[a] \in Int
  BY BalanceIs
<1>3. \A a \in rows : f[a] \in Int /\ g[a] = f[a]
  BY <1>2, BalanceSplit
<1>4. \A a \in accounts \ rows : f[a] = 0
  <2>1. \A a \in accounts \ rows : a \in Account /\ a \notin AccountsBooked(s, 0, to)
    BY DEF AccountsBooked, Booked
  <2>2. \A a \in accounts \ rows : Balance(s, 0, to, a) = 0
    BY <2>1, NotBooked
  <2> QED
    BY <2>2
<1>5. CashRows(s, accounts) = FirstRows(rows)
  BY DEF CashRows
<1>6. /\ CashPosition(s, accounts, to) = SumFunctionOnSet(f, accounts)
      /\ ClosingCash(s, accounts, from, to) = SumFunctionOnSet(g, CashRows(s, accounts))
  BY DEF CashPosition, ClosingCash
<1> HIDE DEF f, g, rows
<1>7. FirstRows(rows) = rows
  BY <1>1, <1>5, AllRows
<1>8. SumFunctionOnSet(f, accounts) = SumFunctionOnSet(f, rows)
  BY <1>1, <1>2, <1>4, SumZeros
<1>9. SumFunctionOnSet(f, rows) = SumFunctionOnSet(g, rows)
  BY <1>1, <1>3, SumEqual
<1> QED
  BY <1>5, <1>6, <1>7, <1>8, <1>9

-----------------------------------------------------------------------------
(* The open documents of the dashboard.                                    *)

Open(s) == [d \in Document |-> Unsettled(s, d)]

LEMMA OpenNat ==
  ASSUME NEW s, Sound(s)
  PROVE  \A d \in Document : Open(s)[d] \in Nat /\ Open(s)[d] = Unsettled(s, d)
<1>1. SUFFICES ASSUME NEW d \in Document PROVE Unsettled(s, d) \in Nat
  BY DEF Open
<1> DEFINE P == Settlements(s, d.type)
<1>2. P \in SUBSET (s.posted \cap Payment)
  BY SettlementsSet
<1> HIDE DEF P
<1>3. SettledBy(P, d) \in Nat /\ d.total \in Nat /\ SettledBy(P, d) <= d.total
  BY <1>2, NotOver
<1>4. d.total - SettledBy(P, d) \in Nat
  BY <1>3
<1> QED
  BY <1>4 DEF Unsettled, P

LEMMA PositionIs ==
  ASSUME NEW s, Sound(s), NEW as_of, NEW type
  PROVE  /\ PositionAmount(s, as_of, type) = SumFunctionOnSet(Open(s), IssuedBy(s, as_of, type))
         /\ PositionAmount(s, as_of, type) \in Nat
<1> DEFINE f == Open(s)
           I == IssuedBy(s, as_of, type)
<1>1. IsFiniteSet(I) /\ \A d \in I : f[d] \in Nat
  BY DocumentSets, OpenNat
<1>2. PositionAmount(s, as_of, type) = AtLeastZero(SumFunctionOnSet(f, I))
  BY DEF PositionAmount, Open
<1> HIDE DEF f, I
<1>3. SumFunctionOnSet(f, I) \in Nat
  BY <1>1, SumNat
<1>4. AtLeastZero(SumFunctionOnSet(f, I)) = SumFunctionOnSet(f, I)
  BY <1>3 DEF AtLeastZero
<1> QED
  BY <1>2, <1>3, <1>4 DEF f, I

\* There is something to collect if and only if a document is open.
LEMMA PositionCount ==
  ASSUME NEW s, Sound(s), NEW as_of, NEW type
  PROVE  PositionAmount(s, as_of, type) = 0 <=> OpenCount(s, as_of, type) = 0
<1> DEFINE f == Open(s)
           I == IssuedBy(s, as_of, type)
           some == {d \in I : Unsettled(s, d) > 0}
<1>1. IsFiniteSet(I) /\ \A d \in I : f[d] \in Nat /\ f[d] = Unsettled(s, d)
  BY DocumentSets, OpenNat
<1>2. IsFiniteSet(some)
  BY <1>1, FS_Subset
<1>3. OpenCount(s, as_of, type) = Cardinality(some)
  BY DEF OpenCount
<1>4. PositionAmount(s, as_of, type) = SumFunctionOnSet(f, I)
  BY PositionIs
<1>5. Cardinality(some) = 0 <=> some = {}
  BY <1>2, FS_EmptySet
<1>6. ASSUME some = {} PROVE \A d \in I : f[d] = 0
  BY <1>1, <1>6
<1>7. \A d \in some : d \in I /\ f[d] > 0
  BY <1>1
<1> HIDE DEF f, I, some
<1>8. some = {} => SumFunctionOnSet(f, I) = 0
  BY <1>1, <1>6, SumZero
<1>9. ASSUME NEW d \in some PROVE SumFunctionOnSet(f, I) # 0
  <2>1. d \in I /\ \A x \in I : f[x] \in Nat
    BY <1>1, <1>7
  <2>2. f[d] <= SumFunctionOnSet(f, I)
    BY <1>1, <2>1, SumMember
  <2>3. SumFunctionOnSet(f, I) \in Nat
    BY <1>1, <2>1, SumNat
  <2> QED
    BY <1>1, <1>7, <2>1, <2>2, <2>3
<1> QED
  BY <1>3, <1>4, <1>5, <1>8, <1>9

\* The amount is the aged report less what payments of later days settle.
LEMMA PositionAged ==
  ASSUME NEW s, Sound(s), NEW as_of, NEW type
  PROVE  PositionAmount(s, as_of, type) =
           SumFunctionOnSet([d \in Document |-> AgedOutstanding(s, as_of, d)],
                            IssuedBy(s, as_of, type))
             - SettledLater(s, as_of, type)
<1> DEFINE aged == [d \in Document |-> AgedOutstanding(s, as_of, d)]
           P == Settlements(s, type)
           Q == SettlementsUntil(s, type, as_of)
           later == [d \in Document |-> SettledBy(P \ Q, d)]
           I == IssuedBy(s, as_of, type)
           f == Open(s)
<1>1. Good(s) /\ Sound(s)
  BY DEF Sound
<1>2. P \in SUBSET (s.posted \cap Payment) /\ Q \in SUBSET P /\ P \ Q \in SUBSET (s.posted \cap Payment)
  BY SettlementsSet
<1>3. IsFiniteSet(P) /\ P \subseteq Payment
  BY <1>1, <1>2, PostedPaymentsSet
<1>4. IsFiniteSet(I) /\ I \subseteq Document
  BY DocumentSets
<1>5. \A d \in I : d \in Document /\ d.type = type
  BY <1>4 DEF IssuedBy
<1>6. \A d \in I : aged[d] \in Int /\ aged[d] = d.total - SettledBy(Q, d)
  <2>1. \A d \in I : AgedOutstanding(s, as_of, d) \in Nat
    BY <1>5, AgedIs
  <2>2. \A d \in I : AgedOutstanding(s, as_of, d) = d.total - SettledBy(Q, d)
    BY <1>5, AgedIs
  <2> QED
    BY <1>5, <2>1, <2>2
<1>7. \A d \in I : f[d] = d.total - SettledBy(P, d)
  BY <1>5 DEF Open, Unsettled
<1>8. SettledLater(s, as_of, type) = SumFunctionOnSet(later, I)
  BY DEF SettledLater
<1>9. \A d \in I : later[d] = SettledBy(P \ Q, d)
  BY <1>5
<1>10. PositionAmount(s, as_of, type) = SumFunctionOnSet(f, I)
  BY PositionIs
<1> HIDE DEF P, Q, later, I, f, aged
<1>11. ASSUME NEW d \in I PROVE aged[d] \in Int /\ later[d] \in Int /\ f[d] = aged[d] - later[d]
  <2>1. d \in Document
    BY <1>5
  <2>2. SettledBy(P, d) = SettledBy(Q, d) + SettledBy(P \ Q, d)
    BY <1>2, <1>3, <2>1, SettledSplit
  <2>3. d.total \in Int
    BY <2>1, DocumentFields
  <2>4. SettledBy(P \ Q, d) \in Nat
    BY <1>2, <2>1, NotOver
  <2>5. Q \in SUBSET (s.posted \cap Payment)
    BY <1>2
  <2>6. SettledBy(Q, d) \in Nat
    BY <2>1, <2>5, NotOver
  <2> QED
    BY <1>6, <1>7, <1>9, <2>2, <2>3, <2>4, <2>6
<1>12. SumFunctionOnSet(f, I) = SumFunctionOnSet(aged, I) - SumFunctionOnSet(later, I)
  BY <1>4, <1>11, SumDifference
<1> QED
  BY <1>8, <1>10, <1>12 DEF aged, I

-----------------------------------------------------------------------------
(* The inductive invariant: what the statements have read.                 *)

State == [posted : SUBSET Posting, mapped : SUBSET BankCode]

TypeOK ==
  /\ Snapshot \in State
  /\ query \in Query \cup {NoQuery}
  /\ step \in 0 .. Statements(query)
  /\ seen \in Seq(State)

\* The last statement, or the last two, of those that have run.
SeenLength == Len(seen) = IF step = 0 THEN 0 ELSE IF step \in {1, 3, 5} THEN 1 ELSE 2

\* A statement has read a sound state, of which nothing has been undone since.
SeenSound == \A i \in 1 .. Len(seen) : Sound(seen[i]) /\ seen[i].posted \subseteq posted

\* The second statement of a pair reads all that the first one has read.
SeenInOrder == Len(seen) = 2 => seen[1].posted \subseteq seen[2].posted

IInv == TypeOK /\ Sound(Snapshot) /\ SeenLength /\ SeenSound /\ SeenInOrder

\* Every report has six statements at most.
LEMMA StatementsNat == \A q : Statements(q) \in {0, 1, 2, 6}
BY DEF Statements

\* Documents and entries settle nothing.
LEMMA SoundWithout ==
  ASSUME NEW s, Sound(s), NEW t, NEW x \in Document \cup Entry, t.posted = s.posted \cup {x}
  PROVE  Sound(t)
<1>1. x \notin Payment /\ x \in Posting
  BY DifferentRows DEF Posting
<1>2. t.posted \cap Payment = s.posted \cap Payment
  BY <1>1
<1>3. t.posted \subseteq Posting /\ IsFiniteSet(t.posted)
  BY <1>1, FS_AddElement DEF Sound, Good
<1> QED
  BY <1>2, <1>3 DEF Sound, Good

\* A payment is posted when its allocations fit.
LEMMA SoundPayment ==
  ASSUME NEW s, Sound(s), NEW t, NEW p \in Payment, p \notin s.posted,
         t.posted = s.posted \cup {p},
         \A d \in Document : p.allocated[d] > 0 =>
           d \in s.posted /\ p.allocated[d] <= d.total - SettledBy(s.posted \cap Payment, d)
  PROVE  Sound(t)
<1> DEFINE A == s.posted \cap Payment
           B == t.posted \cap Payment
<1>1. /\ Good(s)
      /\ \A q \in A : \A d \in Document : q.allocated[d] > 0 => d \in s.posted
      /\ \A d \in Document : SettledBy(A, d) <= d.total
  BY DEF Sound
<1>2. t.posted \subseteq Posting /\ IsFiniteSet(t.posted)
  BY <1>1, FS_AddElement DEF Good, Posting
<1>3. Good(t)
  BY <1>2 DEF Good
<1>4. B = A \cup {p} /\ p \notin A
  OBVIOUS
<1>5. IsFiniteSet(A) /\ A \subseteq Payment /\ IsFiniteSet(B) /\ B \subseteq Payment
  BY <1>1, <1>3, PostedPaymentsSet
<1>6. \A q \in B : \A d \in Document : q.allocated[d] > 0 => d \in t.posted
  BY <1>1, <1>4
<1>7. ASSUME NEW d \in Document PROVE SettledBy(B, d) <= d.total
  <2> DEFINE f == AllocatedTo(d)
  <2>1. /\ \A q \in A \cup {p} : f[q] \in Int
        /\ f[p] = p.allocated[d] /\ f[p] \in Nat
    BY <1>5, AllocatedNat DEF AllocatedTo
  <2> HIDE DEF f, A, B
  <2>2. SumFunctionOnSet(f, A \cup {p}) = f[p] + SumFunctionOnSet(f, A)
    BY <1>4, <1>5, <2>1, SumAdd
  <2>3. SettledBy(A, d) = SumFunctionOnSet(f, A) /\ SettledBy(A, d) \in Nat
    BY <1>5, SettledIs DEF f
  <2>4. SettledBy(B, d) = SumFunctionOnSet(f, B)
    BY <1>5, SettledIs DEF f
  <2>5. SettledBy(B, d) = p.allocated[d] + SettledBy(A, d)
    BY <1>4, <2>1, <2>2, <2>3, <2>4
  <2>6. p.allocated[d] > 0 => p.allocated[d] <= d.total - SettledBy(A, d)
    BY DEF A
  <2>7. SettledBy(A, d) <= d.total /\ d.total \in Nat /\ p.allocated[d] \in Nat
    BY <1>1, <2>1, DocumentFields
  <2> QED
    BY <2>3, <2>5, <2>6, <2>7
<1> QED
  BY <1>3, <1>6, <1>7 DEF Sound

\* Nothing is settled before anything is posted.
LEMMA SoundInit == ASSUME NEW s, s.posted = {} PROVE Sound(s)
<1>1. s.posted \cap Payment = {}
  OBVIOUS
<1>2. \A d \in Document : SettledBy({}, d) = 0
  BY SumEmpty DEF SettledBy
<1>3. \A d \in Document : SettledBy({}, d) <= d.total
  BY <1>2, DocumentFields
<1> QED
  BY <1>1, <1>3, FS_EmptySet DEF Sound, Good

LEMMA InitIInv == Init => IInv
<1> SUFFICES ASSUME Init PROVE IInv
  OBVIOUS
<1>1. Snapshot.posted = {} /\ Snapshot \in State
  BY DEF Init, Snapshot, State
<1>2. Sound(Snapshot)
  BY <1>1, SoundInit
<1>3. seen \in Seq(State) /\ Len(seen) = 0 /\ step = 0 /\ query = NoQuery
  BY DEF Init
<1>4. step \in 0 .. Statements(query)
  BY <1>3, StatementsNat
<1>5. TypeOK
  BY <1>1, <1>3, <1>4 DEF TypeOK
<1>6. SeenSound
  <2>1. 1 .. 0 = {}
    OBVIOUS
  <2> QED
    BY <1>3, <2>1 DEF SeenSound
<1> QED
  BY <1>2, <1>3, <1>5, <1>6 DEF IInv, SeenLength, SeenInOrder

\* A posting leaves what the statements have read as it was.
LEMMA PostStep == IInv /\ Post => IInv'
<1> SUFFICES ASSUME IInv, Post PROVE IInv'
  OBVIOUS
<1>1. UNCHANGED <<mapped, query, step, seen>>
  BY DEF Post
<1>2. /\ TypeOK /\ Sound(Snapshot) /\ SeenLength /\ SeenSound /\ SeenInOrder
  BY DEF IInv
<1>3. Snapshot.posted = posted /\ Snapshot'.posted = posted'
  BY DEF Snapshot
<1>4. posted \subseteq posted' /\ posted' \subseteq Posting /\ Sound(Snapshot)'
  <2>1. posted \subseteq Posting
    BY <1>2, <1>3 DEF Sound, Good
  <2>2. CASE PostDocument
    <3>1. PICK d \in Document \ posted : posted' = posted \cup {d}
      BY <2>2 DEF PostDocument
    <3>2. Sound(Snapshot')
      BY <1>2, <1>3, <3>1, SoundWithout
    <3> QED
      BY <2>1, <3>1, <3>2 DEF Posting
  <2>3. CASE PostEntry
    <3>1. PICK e \in Entry \ posted : posted' = posted \cup {e}
      BY <2>3 DEF PostEntry
    <3>2. Sound(Snapshot')
      BY <1>2, <1>3, <3>1, SoundWithout
    <3> QED
      BY <2>1, <3>1, <3>2 DEF Posting
  <2>4. CASE PostPayment
    <3>1. PICK p \in Payment \ posted :
            /\ \A d \in Document : p.allocated[d] > 0 =>
                 /\ d \in posted
                 /\ p.allocated[d] <= d.total - SettledBy(posted \cap Payment, d)
            /\ posted' = posted \cup {p}
      BY <2>4 DEF PostPayment
    <3>2. Sound(Snapshot')
      BY <1>2, <1>3, <3>1, SoundPayment
    <3> QED
      BY <2>1, <3>1, <3>2 DEF Posting
  <2> QED
    BY <2>2, <2>3, <2>4 DEF Post
<1>5. TypeOK'
  <2>1. mapped \in SUBSET BankCode
    BY <1>2 DEF TypeOK, Snapshot, State
  <2>2. Snapshot' \in State
    BY <1>1, <1>4, <2>1 DEF Snapshot, State
  <2> QED
    BY <1>1, <1>2, <2>2 DEF TypeOK, State
<1>6. SeenSound'
  BY <1>1, <1>2, <1>4 DEF SeenSound
<1>7. SeenLength' /\ SeenInOrder'
  BY <1>1, <1>2 DEF SeenLength, SeenInOrder
<1> QED
  BY <1>4, <1>5, <1>6, <1>7 DEF IInv

LEMMA MapAccountStep == IInv /\ MapAccount => IInv'
<1> SUFFICES ASSUME IInv, MapAccount PROVE IInv'
  OBVIOUS
<1>1. /\ TypeOK /\ Sound(Snapshot) /\ SeenLength /\ SeenSound /\ SeenInOrder
      /\ UNCHANGED <<posted, query, step, seen>>
  BY DEF IInv, MapAccount
<1>2. mapped' \in SUBSET BankCode /\ posted \in SUBSET Posting
  BY <1>1 DEF MapAccount, TypeOK, Snapshot, State
<1>3. Snapshot' \in State /\ Snapshot'.posted = Snapshot.posted
  BY <1>1, <1>2 DEF Snapshot, State
<1>4. TypeOK'
  BY <1>1, <1>3 DEF TypeOK, State
<1>5. Sound(Snapshot)'
  BY <1>1, <1>3 DEF Sound, Good
<1>6. SeenSound' /\ SeenLength' /\ SeenInOrder'
  BY <1>1 DEF SeenSound, SeenLength, SeenInOrder
<1> QED
  BY <1>4, <1>5, <1>6 DEF IInv

LEMMA AskStep == IInv /\ Ask => IInv'
<1> SUFFICES ASSUME IInv, Ask PROVE IInv'
  OBVIOUS
<1>1. /\ TypeOK /\ Sound(Snapshot) /\ SeenLength /\ SeenSound /\ SeenInOrder
      /\ UNCHANGED <<posted, mapped, step, seen>>
      /\ query = NoQuery /\ query' \in Query
  BY DEF IInv, Ask
<1>2. step = 0
  <2>1. Statements(NoQuery) = 0
    BY DEF Statements, NoQuery
  <2> QED
    BY <1>1, <2>1 DEF TypeOK
<1>3. step \in 0 .. Statements(query')
  BY <1>2, StatementsNat
<1>4. Snapshot' = Snapshot
  BY <1>1 DEF Snapshot
<1>5. TypeOK'
  <2>1. step' \in 0 .. Statements(query)'
    BY <1>1, <1>3 DEF Statements
  <2> QED
    BY <1>1, <1>4, <2>1 DEF TypeOK, State
<1>6. Sound(Snapshot)'
  BY <1>1, <1>4 DEF Sound, Good
<1>7. SeenSound' /\ SeenLength' /\ SeenInOrder'
  BY <1>1 DEF SeenSound, SeenLength, SeenInOrder
<1> QED
  BY <1>5, <1>6, <1>7 DEF IInv

\* A statement reads what is posted, which is all that the one before has read.
LEMMA ReadStep == IInv /\ Read => IInv'
<1> SUFFICES ASSUME IInv, Read PROVE IInv'
  OBVIOUS
<1>1. /\ TypeOK /\ Sound(Snapshot) /\ SeenLength /\ SeenSound /\ SeenInOrder
      /\ UNCHANGED <<posted, mapped, query>>
      /\ step < Statements(query) /\ step' = step + 1
      /\ seen' = IF Len(seen) = 2 THEN <<Snapshot>> ELSE Append(seen, Snapshot)
  BY DEF IInv, Read
<1>2. Snapshot' = Snapshot /\ Snapshot \in State /\ Snapshot.posted = posted
  BY <1>1 DEF Snapshot, TypeOK
<1>3. step \in 0 .. 5 /\ step' \in 0 .. Statements(query)
  BY <1>1, StatementsNat DEF TypeOK
<1>4. seen \in Seq(State) /\ Len(seen) \in {0, 1, 2}
  BY <1>1 DEF TypeOK, SeenLength
<1>5. Sound(Snapshot)'
  BY <1>1, <1>2 DEF Sound, Good
<1>6. CASE Len(seen) = 2
  <2>1. seen' = <<Snapshot>>
    BY <1>1, <1>6
  <2>2. seen' \in Seq(State) /\ Len(seen') = 1 /\ seen'[1] = Snapshot
    BY <1>2, <2>1
  <2>3. TypeOK'
    BY <1>1, <1>2, <1>3, <2>2 DEF TypeOK, State
  <2>4. step' \in {1, 3, 5}
    BY <1>1, <1>3, <1>6 DEF SeenLength
  <2>5. SeenLength'
    BY <2>2, <2>4 DEF SeenLength
  <2>6. SeenSound'
    <3>1. \A i \in 1 .. Len(seen') : i = 1
      BY <2>2
    <3> QED
      BY <1>1, <1>2, <2>2, <3>1 DEF SeenSound
  <2>7. SeenInOrder'
    BY <2>2 DEF SeenInOrder
  <2> QED
    BY <1>5, <2>3, <2>5, <2>6, <2>7 DEF IInv
<1>7. CASE Len(seen) # 2
  <2>1. seen' = Append(seen, Snapshot)
    BY <1>1, <1>7
  <2>2. /\ seen' \in Seq(State) /\ Len(seen') = Len(seen) + 1
        /\ \A i \in 1 .. Len(seen) : seen'[i] = seen[i]
        /\ seen'[Len(seen) + 1] = Snapshot
    BY <1>2, <1>4, <2>1
  <2>3. TypeOK'
    BY <1>1, <1>2, <1>3, <2>2 DEF TypeOK, State
  <2>4. SeenLength'
    <3>1. CASE Len(seen) = 0
      <4>1. step = 0
        BY <1>1, <1>3, <3>1 DEF SeenLength
      <4> QED
        BY <1>1, <2>2, <3>1, <4>1 DEF SeenLength
    <3>2. CASE Len(seen) = 1
      <4>1. step # 0 /\ step \in {1, 3, 5}
        <5>1. Len(seen) = IF step = 0 THEN 0 ELSE IF step \in {1, 3, 5} THEN 1 ELSE 2
          BY <1>1 DEF SeenLength
        <5> QED
          BY <3>2, <5>1, SMTT(30)
      <4>2. step' \in {2, 4, 6}
        BY <1>1, <4>1
      <4> QED
        BY <2>2, <3>2, <4>2 DEF SeenLength
    <3> QED
      BY <1>4, <1>7, <3>1, <3>2
  <2>5. SeenSound'
    <3>1. SUFFICES ASSUME NEW i \in 1 .. Len(seen')
                   PROVE  Sound(seen'[i]) /\ seen'[i].posted \subseteq posted
      BY <1>1 DEF SeenSound
    <3>2. CASE i = Len(seen) + 1
      BY <1>1, <1>2, <2>2, <3>2
    <3>3. CASE i # Len(seen) + 1
      <4>1. i \in 1 .. Len(seen)
        BY <1>4, <2>2, <3>1, <3>3
      <4>2. seen'[i] = seen[i]
        BY <2>2, <4>1
      <4> QED
        BY <1>1, <4>1, <4>2 DEF SeenSound
    <3> QED
      BY <3>2, <3>3
  <2>6. SeenInOrder'
    <3>1. SUFFICES ASSUME Len(seen') = 2 PROVE seen'[1].posted \subseteq seen'[2].posted
      BY DEF SeenInOrder
    <3>2. Len(seen) = 1
      <4>1. Len(seen) + 1 = 2
        BY <2>2, <3>1
      <4>2. 0 + 1 # 2 /\ 2 + 1 # 2
        OBVIOUS
      <4> QED
        BY <1>4, <4>1, <4>2, Zenon
    <3>3. seen'[1] = seen[1] /\ seen'[2] = Snapshot /\ seen[1].posted \subseteq posted
      <4>1. 1 \in 1 .. Len(seen)
        BY <3>2
      <4> QED
        BY <1>1, <2>2, <3>2, <4>1 DEF SeenSound
    <3> QED
      BY <1>2, <3>3
  <2> QED
    BY <1>5, <2>3, <2>4, <2>5, <2>6 DEF IInv
<1> QED
  BY <1>6, <1>7

LEMMA StutterStep == IInv /\ UNCHANGED vars => IInv'
<1> SUFFICES ASSUME IInv, UNCHANGED vars PROVE IInv'
  OBVIOUS
<1>1. Snapshot' = Snapshot /\ UNCHANGED <<posted, mapped, query, step, seen>>
  BY DEF vars, Snapshot
<1> QED
  BY <1>1 DEF IInv, TypeOK, State, Sound, Good, SeenLength, SeenSound, SeenInOrder

\* What the statements of a report have read is sound and in order, for every
\* chart of accounts and whatever is posted in between.
THEOREM Inductive == Spec => []IInv
<1>1. IInv /\ [Next]_vars => IInv'
  BY PostStep, MapAccountStep, AskStep, ReadStep, StutterStep DEF Next
<1> QED
  BY <1>1, InitIInv, PTL DEF Spec

-----------------------------------------------------------------------------
(* The reports.                                                            *)

LEMMA QueryFields ==
  ASSUME TypeOK, query.kind # "none"
  PROVE  query.to \in Nat /\ query.type \in DocumentType
<1>1. query \in Query
  BY DEF TypeOK, NoQuery
<1> QED
  BY <1>1, QueryAssumption DEF QueryRow

LEMMA OneSeen ==
  ASSUME IInv, Len(seen) = 1
  PROVE  Sound(seen[1])
<1>1. 1 \in 1 .. Len(seen)
  OBVIOUS
<1> QED
  BY <1>1 DEF IInv, SeenSound

LEMMA TwoSeen ==
  ASSUME IInv, Len(seen) = 2
  PROVE  /\ Sound(seen[1]) /\ Sound(seen[2])
         /\ seen[1].posted \subseteq seen[2].posted
         /\ seen[1] \in State /\ seen[2] \in State
<1>1. 1 \in 1 .. Len(seen) /\ 2 \in 1 .. Len(seen)
  OBVIOUS
<1>2. seen \in Seq(State)
  BY DEF IInv, TypeOK
<1>3. seen[1] \in State /\ seen[2] \in State
  BY <1>1, <1>2
<1> QED
  BY <1>1, <1>3 DEF IInv, SeenSound, SeenInOrder

\* What a later snapshot has more than an earlier one.
LEMMA LateIsLater ==
  ASSUME NEW s1, NEW s2 \in State, Sound(s1), Sound(s2), s1.posted \subseteq s2.posted
  PROVE  Later(s1, s2, [s2 EXCEPT !.posted = @ \ s1.posted])
<1> DEFINE late == [s2 EXCEPT !.posted = @ \ s1.posted]
<1>1. late.posted = s2.posted \ s1.posted
  BY DEF State
<1>2. s2.posted \subseteq Posting /\ IsFiniteSet(s2.posted)
  BY DEF Sound, Good
<1> HIDE DEF late
<1>3. late.posted \subseteq Posting /\ IsFiniteSet(late.posted)
  BY <1>1, <1>2, FS_Subset
<1>4. Later(s1, s2, late)
  BY <1>1, <1>3 DEF Later, Sound, Good
<1> QED
  BY <1>4 DEF late

LEMMA SheetIInv == IInv => SheetDrift
<1> SUFFICES ASSUME IInv, Answered("balance_sheet")
             PROVE  LET late == [seen[2] EXCEPT !.posted = @ \ seen[1].posted]
                    IN Assets(seen[1], query.to)
                         - LiabilitiesAndEquity(seen[1], seen[2], query.to)
                           = -NetIncome(late, 0, query.to)
  BY DEF SheetDrift
<1> DEFINE late == [seen[2] EXCEPT !.posted = @ \ seen[1].posted]
<1>1. query.kind = "balance_sheet" /\ step = Statements(query)
  BY DEF Answered, Complete
<1>2. step = 2
  BY <1>1 DEF Statements
<1>3. Len(seen) = 2
  BY <1>2 DEF IInv, SeenLength
<1>4. ~TooMany(TrialAccounts(seen[1], 0, query.to)) /\ ~TooMany(TrialAccounts(seen[2], 0, query.to))
  <2>1. Refused <=> \E i \in DOMAIN seen : TooMany(TrialAccounts(seen[i], 0, query.to))
    BY <1>1 DEF Refused
  <2>2. 1 \in DOMAIN seen /\ 2 \in DOMAIN seen
    <3>1. seen \in Seq(State)
      BY DEF IInv, TypeOK
    <3> QED
      BY <1>3, <3>1
  <2> QED
    BY <2>1, <2>2 DEF Answered
<1>5. Later(seen[1], seen[2], late)
  BY <1>3, TwoSeen, LateIsLater
<1> HIDE DEF late
<1>6. Assets(seen[1], query.to) - LiabilitiesAndEquity(seen[1], seen[2], query.to)
        = -NetIncome(late, 0, query.to)
  BY <1>4, <1>5, Sheet
<1> QED
  BY <1>6 DEF late

\* A balance sheet that is not refused is off by the income of what has been
\* posted between its two trial balances, and by nothing else, whatever the
\* chart of accounts and the limit on rows.
THEOREM SheetDrifts == Spec => []SheetDrift
BY Inductive, SheetIInv, PTL

LEMMA AgedIInv == IInv => AgedIsReceivable
<1> SUFFICES ASSUME IInv, Answered("aged"), NEW a \in Account, ControlOf(seen[1], query.type, a)
             PROVE  AgedTotal(seen[1], query.to, query.type) =
                      (IF query.type = "sales_invoice" THEN 1 ELSE -1)
                        * Balance(seen[1], 0, query.to, a)
                        + SettledEarly(seen[1], query.to, query.type)
  BY DEF AgedIsReceivable
<1>1. query.kind = "aged" /\ step = Statements(query)
  BY DEF Answered, Complete
<1>2. step = 1
  BY <1>1 DEF Statements
<1>3. Len(seen) = 1
  BY <1>2 DEF IInv, SeenLength
<1>4. query.to \in Nat /\ query.type \in DocumentType
  BY <1>1, QueryFields DEF IInv
<1>5. ~TooMany(AgedRows(seen[1], query.to, query.type))
  <2>1. Refused <=> TooMany(AgedRows(seen[1], query.to, query.type))
    BY <1>1 DEF Refused
  <2> QED
    BY <2>1 DEF Answered
<1>6. Sound(seen[1])
  BY <1>3, OneSeen
<1> QED
  BY <1>4, <1>5, <1>6, AgedControl

\* The aged report adds up to the balance of the control account of its documents,
\* but for payments that precede the issue of what they settle.
THEOREM AgedIsTheAccount == Spec => []AgedIsReceivable
BY Inductive, AgedIInv, PTL

LEMMA CashIInv ==
  ASSUME IInv, query.kind = "dashboard", Len(seen) = 2
  PROVE  CashAgrees
<1> SUFFICES ASSUME ~TooMany(CashRows(seen[2], seen[1].mapped)), NEW from \in 1 .. query.to
             PROVE  CashPosition(seen[2], seen[1].mapped, query.to)
                      = ClosingCash(seen[2], seen[1].mapped, from, query.to)
  BY DEF CashAgrees
<1>1. query.to \in Nat
  BY QueryFields DEF IInv
<1>2. Sound(seen[2]) /\ seen[1] \in State
  BY TwoSeen
<1>3. Good(seen[2]) /\ seen[1].mapped \subseteq Account
  BY <1>2, BankCodeAssumption DEF Sound, State
<1> QED
  BY <1>1, <1>3, CashCloses

LEMMA PositionIInv ==
  ASSUME IInv, Len(seen) = 2, NEW type
  PROVE  PositionAgrees(type)
<1> SUFFICES ASSUME seen[1] = seen[2]
             PROVE  /\ PositionAmount(seen[1], query.to, type) = 0
                         <=> OpenCount(seen[2], query.to, type) = 0
                    /\ PositionAmount(seen[1], query.to, type) =
                         SumFunctionOnSet(
                           [d \in Document |-> AgedOutstanding(seen[1], query.to, d)],
                           IssuedBy(seen[1], query.to, type))
                           - SettledLater(seen[1], query.to, type)
  BY DEF PositionAgrees
<1>1. Sound(seen[1])
  BY TwoSeen
<1> QED
  BY <1>1, PositionCount, PositionAged

LEMMA DashboardIInv == IInv => DashboardAgrees
<1> SUFFICES ASSUME IInv, query.kind = "dashboard" PROVE DashboardAgrees
  BY DEF DashboardAgrees
<1>1. step \in {2, 4, 6} => Len(seen) = 2
  BY DEF IInv, SeenLength
<1>2. step = 2 => CashAgrees
  BY <1>1, CashIInv
<1>3. step = 4 => PositionAgrees("sales_invoice")
  BY <1>1, PositionIInv
<1>4. step = 6 => PositionAgrees("vendor_bill")
  BY <1>1, PositionIInv
<1> QED
  BY <1>2, <1>3, <1>4 DEF DashboardAgrees

\* The dashboard's cash is what the cash flow report closes with, and its amounts
\* and counts of open documents agree with each other and with the aged report.
THEOREM DashboardTellsTheSame == Spec => []DashboardAgrees
BY Inductive, DashboardIInv, PTL
=============================================================================
