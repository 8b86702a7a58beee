------------------------------ MODULE Banking ------------------------------
(***************************************************************************)
(* Bank accounts, and the statements of one of them                        *)
(* (app/domains/banking/service.py): importing batches of transactions and *)
(* reconciling a transaction with a payment.                               *)
(*                                                                         *)
(* An import looks for its external ids and its reference without a lock,  *)
(* and then inserts the batch and its transactions row by row; the unique  *)
(* indexes make an insertion wait for an uncommitted row of the same id    *)
(* and refuse it if that row commits.  A reconciliation locks the          *)
(* transaction and then the payment (SELECT ... FOR UPDATE).  Posting a    *)
(* payment, which locks it too, is here what it is for a reconciliation;   *)
(* the rest of it is in Settlement.                                        *)
(*                                                                         *)
(* Bank accounts are never archived nor changed, and imported transactions *)
(* never change but by being matched.  Each of these requests inserts its  *)
(* idempotency record first, which makes it wait for nobody here.          *)
(***************************************************************************)
EXTENDS Requests, Integers, SequencesExt, Waits

CONSTANTS
  Code,          \* codes of bank accounts
  LedgerCode,    \* ledger accounts that clients may name
  Usable,        \* those that are active asset accounts and not control
  Reference,     \* references of batches
  Transaction,   \* external ids of bank transactions
  Payment,       \* payments, posted or not
  Agree,         \* the pairs of a transaction and a payment that agree in
                 \* direction, currency, cash account and amount
  Commands,      \* what clients may ask for
  Posted0,       \* payments that have been posted before
  Batches0,      \* a function: batches imported before, with their ids
  None           \* absence of a value

CreateAccount ==
  [op : {"createAccount"}, code : Code, ledger : LedgerCode]
Import ==
  [op : {"import"}, reference : Reference, ids : Seq(Transaction) \ {<<>>}]
Reconcile ==
  [op : {"reconcile"}, transaction : Transaction, payment : Payment]
PostPayment == [op : {"postPayment"}, payment : Payment]

Command == CreateAccount \cup Import \cup Reconcile \cup PostPayment

ASSUME CommandsAssumption == Commands \subseteq Command
ASSUME UsableAssumption == Usable \subseteq LedgerCode
ASSUME AgreeAssumption == Agree \subseteq Transaction \X Payment
ASSUME PostedAssumption == Posted0 \subseteq Payment
ASSUME BatchesAssumption ==
  \A b \in DOMAIN Batches0 :
    /\ b \in Reference
    /\ Batches0[b] \in Seq(Transaction) /\ IsInjective(Batches0[b])
    /\ \A c \in DOMAIN Batches0 :
         b # c => ToSet(Batches0[b]) \cap ToSet(Batches0[c]) = {}
ASSUME NoneAssumption ==
  /\ None \notin Request \cup Reference \cup Payment \cup LedgerCode
  /\ None \notin Seq(Transaction)

VARIABLES
  row,       \* row[r]: how many transactions of its batch r has inserted
  lock,      \* lock[x]: the request that holds the row lock of x
  account,   \* account[c]: the ledger account of bank account c, or None
  batch,     \* batch[b]: the ids of the committed batch b, or None
  imported,  \* imported[t]: the committed batch that t belongs to, or None
  match,     \* match[t]: the payment that t is reconciled with, or None
  posted     \* the payments that are posted

books == <<account, batch, imported, match, posted>>
vars == <<pc, cmd, row, lock, books>>

Lockable == Transaction \cup Payment

Init ==
  /\ pc = [r \in Request |-> "idle"]
  /\ cmd = [r \in Request |-> None]
  /\ row = [r \in Request |-> 0]
  /\ lock = [x \in Lockable |-> None]
  /\ account = [c \in Code |-> None]
  /\ batch = [b \in Reference |-> IF b \in DOMAIN Batches0 THEN Batches0[b] ELSE None]
  /\ imported = [x \in Transaction |->
                   IF \E b \in DOMAIN Batches0 : x \in ToSet(Batches0[b])
                   THEN CHOOSE b \in DOMAIN Batches0 : x \in ToSet(Batches0[b])
                   ELSE None]
  /\ match = [x \in Transaction |-> None]
  /\ posted = Posted0

Free(r, x) == lock[x] \in {None, r}
Acquire(r, x) == Free(r, x) /\ lock' = [lock EXCEPT ![x] = r]

\* A client reconciles a transaction that it has seen.
Begin(r) ==
  /\ pc[r] = "idle"
  /\ \E c \in Commands :
       /\ c.op = "reconcile" => imported[c.transaction] # None
       /\ cmd' = [cmd EXCEPT ![r] = c]
       /\ Goto(r, CASE c.op = "createAccount" -> "ledger"
                    [] c.op = "import"        -> "search"
                    [] c.op = "reconcile"     -> "transaction"
                    [] c.op = "postPayment"   -> "draft")
  /\ UNCHANGED <<row, lock, books>>

-----------------------------------------------------------------------------
(* create_account.                                                         *)

\* The ledger account is read without a lock.
CheckLedger(r) ==
  /\ pc[r] = "ledger"
  /\ Proceed(r, cmd[r].ledger \in Usable, "code")
  /\ UNCHANGED <<cmd, row, lock, books>>

\* The code is free, in the committed rows.
SearchCode(r) ==
  /\ pc[r] = "code"
  /\ Proceed(r, account[cmd[r].code] = None, "account")
  /\ UNCHANGED <<cmd, row, lock, books>>

\* s has inserted an account with the code of r and not committed.
HasCode(s, r) ==
  /\ pc[s] = "commit" /\ cmd[s].op = "createAccount"
  /\ cmd[s].code = cmd[r].code

CodeInFlight(r) == \E s \in Request \ {r} : HasCode(s, r)

\* The insertion does not look at the index, an upsert.
InsertAccount_Replaces(r) ==
  /\ pc[r] = "account" /\ ~CodeInFlight(r)
  /\ Goto(r, "commit")
  /\ UNCHANGED <<cmd, row, lock, books>>

\* The unique index on the code decides.
InsertAccount(r) ==
  /\ pc[r] = "account" /\ ~CodeInFlight(r)
  /\ Proceed(r, account[cmd[r].code] = None, "commit")
  /\ UNCHANGED <<cmd, row, lock, books>>

CommitAccount(r) ==
  /\ cmd[r].op = "createAccount"
  /\ account' = [account EXCEPT ![cmd[r].code] = cmd[r].ledger]
  /\ UNCHANGED <<batch, imported, match, posted>>

-----------------------------------------------------------------------------
(* import_transactions.                                                    *)

\* The ids are distinct, and none of them is found in the table.
Search(r) ==
  LET ids == cmd[r].ids
  IN /\ pc[r] = "search"
     /\ Proceed(r, /\ IsInjective(ids)
                   /\ \A t \in ToSet(ids) : imported[t] = None, "batch")
     /\ UNCHANGED <<cmd, row, lock, books>>

\* The rows pass through a set, whose order differs from worker to worker.
Rows_OfSet(r) ==
  IF r = (CHOOSE q \in Request : TRUE) THEN Reverse(cmd[r].ids) ELSE cmd[r].ids

\* The rows go in one after the other, in the order of the payload.
Rows(r) == cmd[r].ids

\* Uncommitted rows, until the transaction or its savepoint ends.
Inserted(s) == IF pc[s] \in {"rows", "commit"} /\ cmd[s].op = "import"
               THEN {Rows(s)[i] : i \in 1 .. row[s]} ELSE {}

\* s has inserted a batch with the reference of r and not committed.
HasReference(s, r) ==
  /\ pc[s] \in {"rows", "commit"} /\ cmd[s].op = "import"
  /\ cmd[s].reference = cmd[r].reference

BatchInFlight(r) == \E s \in Request \ {r} : HasReference(s, r)

InsertBatch(r) ==
  /\ pc[r] = "batch"
  /\ ~BatchInFlight(r)
  /\ Proceed(r, batch[cmd[r].reference] = None, "rows")
  /\ UNCHANGED <<cmd, row, lock, books>>

NextId(r) == Rows(r)[row[r] + 1]
RowInFlight(r) == \E s \in Request \ {r} : NextId(r) \in Inserted(s)

\* A row that is there is skipped, as by ON CONFLICT DO NOTHING.
InsertRow_Skips(r) ==
  /\ pc[r] = "rows" /\ ~RowInFlight(r)
  /\ Goto(r, IF row[r] + 1 = Len(cmd[r].ids) THEN "commit" ELSE "rows")
  /\ row' = [row EXCEPT ![r] = @ + 1]
  /\ UNCHANGED <<cmd, lock, books>>

\* The unique index on the id decides, row by row.
InsertRow(r) ==
  /\ pc[r] = "rows" /\ ~RowInFlight(r)
  /\ Proceed(r, imported[NextId(r)] = None,
             IF row[r] + 1 = Len(cmd[r].ids) THEN "commit" ELSE "rows")
  /\ row' = [row EXCEPT ![r] = @ + 1]
  /\ UNCHANGED <<cmd, lock, books>>

CommitImport(r) ==
  LET c == cmd[r]
  IN /\ c.op = "import"
     /\ batch' = [batch EXCEPT ![c.reference] = c.ids]
     /\ imported' = [x \in Transaction |->
                       IF x \in Inserted(r) THEN c.reference ELSE imported[x]]
     /\ UNCHANGED <<account, match, posted>>

-----------------------------------------------------------------------------
(* reconcile_transaction, and as much of post_payment as it depends on.    *)

\* The status is read without the lock.
LockTransaction_Unlocked(r) ==
  /\ pc[r] = "transaction"
  /\ Proceed(r, match[cmd[r].transaction] = None, "payment")
  /\ UNCHANGED <<cmd, row, lock, books>>

LockTransaction(r) ==
  LET t == cmd[r].transaction
  IN /\ pc[r] = "transaction"
     /\ Acquire(r, t)
     /\ Proceed(r, match[t] = None, "payment")
     /\ UNCHANGED <<cmd, row, books>>

\* Drafts are reconciled too.
LockPayment_AnyStatus(r) ==
  /\ pc[r] = "payment"
  /\ Acquire(r, cmd[r].payment)
  /\ Goto(r, "match")
  /\ UNCHANGED <<cmd, row, books>>

LockPayment(r) ==
  LET p == cmd[r].payment
  IN /\ pc[r] = "payment"
     /\ Acquire(r, p)
     /\ Proceed(r, p \in posted, "match")
     /\ UNCHANGED <<cmd, row, books>>

\* A payment may pay for several transactions.
Taken_Never(p) == FALSE

Taken(p) == \E t \in Transaction : match[t] = p

\* The payment must be free, and agree with the transaction.  Its lock is held,
\* so that the unique index on matched_payment_id finds nothing to refuse later.
Match(r) ==
  LET c == cmd[r]
  IN /\ pc[r] = "match"
     /\ Proceed(r, ~Taken(c.payment) /\ <<c.transaction, c.payment>> \in Agree, "commit")
     /\ UNCHANGED <<cmd, row, lock, books>>

CommitMatch(r) ==
  LET c == cmd[r]
  IN /\ c.op = "reconcile"
     /\ match' = [match EXCEPT ![c.transaction] = c.payment]
     /\ UNCHANGED <<account, batch, imported, posted>>

\* post_payment locks the draft.
LockDraft(r) ==
  LET p == cmd[r].payment
  IN /\ pc[r] = "draft"
     /\ Acquire(r, p)
     /\ Proceed(r, p \notin posted, "commit")
     /\ UNCHANGED <<cmd, row, books>>

CommitPosting(r) ==
  /\ cmd[r].op = "postPayment"
  /\ posted' = posted \cup {cmd[r].payment}
  /\ UNCHANGED <<account, batch, imported, match>>

-----------------------------------------------------------------------------
(* The end of a transaction.                                               *)

Finish(r, label) ==
  /\ lock' = [x \in Lockable |-> IF lock[x] = r THEN None ELSE lock[x]]
  /\ Goto(r, label)
  /\ UNCHANGED <<cmd, row>>

Commit(r) ==
  /\ pc[r] = "commit"
  /\ CommitAccount(r) \/ CommitImport(r) \/ CommitMatch(r) \/ CommitPosting(r)
  /\ Finish(r, "done")

Undo(r) == Finish(r, "failed") /\ UNCHANGED books

Rollback(r) == pc[r] = "rollback" /\ Undo(r)

\* A rule on other data refuses the command, or the worker dies.
Refuse(r) == Active(r) /\ Undo(r)

\* Whose lock or uncommitted row r waits for.
WaitsFor(r) ==
  {s \in Request \ {r} :
     \/ pc[r] = "transaction" /\ lock[cmd[r].transaction] = s
     \/ pc[r] \in {"payment", "draft"} /\ lock[cmd[r].payment] = s
     \/ pc[r] = "account" /\ HasCode(s, r)
     \/ pc[r] = "batch" /\ HasReference(s, r)
     \/ pc[r] = "rows" /\ NextId(r) \in Inserted(s)}

Waiting(r) == WaitsFor(r) # {}

\* The deadlock detector and statement_timeout may end a wait.
Timeout(r) == Waiting(r) /\ Undo(r)

Step(r) ==
  \/ CheckLedger(r) \/ SearchCode(r) \/ InsertAccount(r)
  \/ Search(r) \/ InsertBatch(r) \/ InsertRow(r)
  \/ LockTransaction(r) \/ LockPayment(r) \/ Match(r) \/ LockDraft(r)
  \/ Commit(r) \/ Rollback(r)

Next == \E r \in Request : Begin(r) \/ Step(r) \/ Refuse(r) \/ Timeout(r)

Spec == Init /\ [][Next]_vars

\* Threads keep executing the requests they serve; nothing makes the database
\* end a wait.
Fairness == \A r \in Request : WF_vars(Step(r))

FairSpec == Spec /\ Fairness
-----------------------------------------------------------------------------
TypeOK ==
  /\ pc \in [Request -> {"idle", "ledger", "code", "account", "search", "batch", "rows", "transaction",
                         "payment", "match", "draft", "commit", "rollback"}
                          \cup Terminal]
  /\ \A r \in Request : cmd[r] \in Commands \cup {None}
  /\ \A r \in Request : row[r] \in 0 .. IF pc[r] = "idle" \/ cmd[r].op # "import"
                                         THEN 0 ELSE Len(cmd[r].ids)
  /\ lock \in [Lockable -> Request \cup {None}]
  /\ account \in [Code -> Usable \cup {None}]
  /\ \A b \in Reference : batch[b] # None => batch[b] \in Seq(Transaction)
  /\ imported \in [Transaction -> Reference \cup {None}]
  /\ match \in [Transaction -> Payment \cup {None}]
  /\ posted \subseteq Payment

\* A committed batch has exactly the transactions it was imported with, and
\* each of them only once, although several imports insert the same ids row by
\* row at the same time ("bank import batch or external_id already exists").
BatchesAreWhole ==
  \A b \in Reference :
    {t \in Transaction : imported[t] = b} =
      IF batch[b] = None THEN {} ELSE ToSet(batch[b])

\* A payment is reconciled with one transaction at most ("posted payment is
\* already reconciled to a bank transaction").
MatchedOnce ==
  \A t, u \in Transaction : match[t] # None /\ match[t] = match[u] => t = u

\* What is reconciled has been imported, and agrees with a posted payment.
MatchesAgree ==
  \A t \in Transaction :
    match[t] # None => /\ imported[t] # None
                       /\ match[t] \in posted
                       /\ <<t, match[t]>> \in Agree

\* A reconciliation is final ("reconciled bank transactions are immutable",
\* db/models/banking.py), for requests that had read the transaction before
\* it as well, and so is the ledger account of a bank account, which a
\* reconciliation compares, for creations that had found its code free.
MatchesAreFinal ==
  [][/\ \A t \in Transaction : match[t] # None => match'[t] = match[t]
     /\ \A c \in Code : account[c] # None => account'[c] = account[c]]_vars

\* The circles that clients can cause: batches that list the same ids in
\* crossing orders.
CrossedBatches(C) ==
  /\ \A r \in C : pc[r] = "rows"
  /\ ~CommonOrder({cmd[r].ids : r \in C})

\* Every request that starts ends although no timeout ends a wait, unless it
\* waits for imports whose batches list ids in crossing orders: two uploads of one
\* file never make a deadlock, nor do reconciliations and postings of payments.
EveryRequestEnds ==
  \A r \in Request :
    Active(r) ~> \/ pc[r] \in Terminal
                 \/ Stuck([q \in Request |-> WaitsFor(q)], r, CrossedBatches)
=============================================================================
