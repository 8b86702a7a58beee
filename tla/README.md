# zsme in TLA+

A verification development of the accounting backend of `zsme`: TLA+ modules
translated from `src/backend/app`, TLC configurations that check them on small
instances, and theorems that TLAPS checks for every value of the constants.

Contents: [the system](#the-system) · [modules](#modules) ·
[correspondence](#how-the-modules-correspond-to-the-code) · [runs](#runs) ·
[fairness](#fairness) · [findings](#where-the-code-and-its-documents-disagree) ·
[proofs](#proofs) · [not modelled](#what-is-not-modelled) · [plan](#plan).

## The system

The backend is a FastAPI application over PostgreSQL. Everything that matters
for concurrency follows from how it serves a request:

* One HTTP request is one transaction (`db/session.py`): it commits after the
  handler has returned and rolls back on any exception, HTTP errors included. Workers
  run handlers in threads and processes, so any number of requests interleave.
* The commit is the exit of a yield dependency. FastAPI runs it before it sends the
  answer up to version 0.117 and after it from 0.118 on; `pyproject.toml` asks for
  `fastapi>=0.115,<1` and there is no lock file. The models of the services speak of what is
  committed and do not depend on it. What a client has been told may then not be durable: with an
  idempotent command it has to retry with the same key, which either replays the committed
  answer or performs the command. `Sessions`, where an answer changes the browser's cookies,
  models both orders.
* The isolation level is PostgreSQL's default, READ COMMITTED: each statement
  sees what had committed when it began. The services use
  `SELECT ... FOR UPDATE` on the rows they decide on, and unique indexes where
  there is no row to lock yet.
* An `INSERT` locks the rows that its foreign keys name FOR KEY SHARE, which
  conflicts with FOR UPDATE. Waits end by the other transaction's end, by the
  deadlock detector, or by `statement_timeout` (`db/session.py`), as an error of the request.
* Each state-changing command carries an idempotency key. The claim on the key,
  the business effect and the recorded result are in the same transaction.

### Inventory

| Component | State | Operations | Interacts with | Must hold |
|---|---|---|---|---|
| Idempotency (`core/idempotency.py`) | a row per organization and key: operation, hash, status, resource | claim, replay, complete | called first by every command; nested when a command calls another | one effect per key; record and effect durable together; a key never changes its answer |
| General ledger (`domains/ledger`) | entries, lines, source, `reversal_of_id` | post, reverse | periods, accounts; called by documents and payments | nothing enters a locked period; one reversal per entry, in an open period |
| Accounting master data (`domains/accounting`) | accounts (tree, flags, version), fiscal periods | create/update account, create/lock period | read by every posting | periods disjoint; structure of a posted account fixed; no lost update; the tree is a tree |
| Invoices and bills (`domains/documents`) | document, lines, status | create, post | ledger, tax, partners | posted exactly when the ledger has its entry |
| Payments (`domains/payments`) | payment, allocations, status | create, post | documents, ledger | never more allocated than the document's total or the payment's amount |
| Banking (`domains/banking`) | bank accounts, imports, transactions, reconciliation matches | create account, import, reconcile | payments, ledger accounts | an external id is imported once; a transaction and a payment are matched once, for good |
| Partners (`domains/partners`) | partners with versions and archive flag | create, update, archive | documents, payments | no lost update; an archived partner gets nothing new |
| Tax (`domains/tax`) | effective-dated rates of a code | create rate | document lines | rates of a code do not overlap |
| Amounts (`_money`, `domain/ledger.py`, `domains/ledger/schemas.py`) | none | round lines and totals, validate an entry | documents, ledger | what a document rounds to can be posted |
| Reports, dashboard | none | several read statements | every table | reproducible from the ledger; figures agree; nothing is cut off |
| Sessions and CSRF (`core/auth.py`, `api/auth.py`; `frontend/lib`) | session rows, token hashes, expiry; the browser's cookies | log in, rotate, revoke; echo the token | every request | a revoked or expired session serves nothing; the echoed token is the expected one |
| Login throttle (`core/login_throttle.py`) | a failure counter per bucket | check, fail, reset | log in | failed sign-ins do not wait for each other in a circle; repeated failures are blocked (they are not, finding 3) |
| Organizations, audit, API layer, client | membership; append-only log | | | |

### What is hard in it

Retries that overlap their first attempt; nested commands whose keys clients may use
themselves; rows that are read without a lock and used after another transaction has changed
them; locks taken in different orders; two services that write two halves of one fact; reports
of several statements that each see another state; answers that get lost, or overtake their own
commit, between the server and a browser whose tabs share cookies. `PROJECT.json` lists each such place with its line
(`hazards`) and the properties that cover it.

## Modules

| Module | Role |
|---|---|
| `Requests` | what the modules about the services share: requests, where they stand and what they were asked to do |
| `Waits` | circles of waiting requests: which of them a liveness property allows |
| `ExactlyOnce` | abstract: what an idempotency key promises, every request served in one step |
| `Idempotency` | the claim/complete/commit protocol, statement by statement, with nested claims; shown to implement `ExactlyOnce` |
| `IdempotencyProofs`, `LedgerProofs`, `SettlementProofs`, `InvoicingProofs`, `BankingProofs`, `SessionsProofs`, `ReportsProofs` | for each component its inductive invariant and the theorems, those of `AccountTree` in `LedgerProofs`; [proofs](#proofs) |
| `SumTheorems` | lemmas about sums over finite sets |
| `Books` | abstract: what the ledger promises, every operation one step |
| `Ledger` | posting and reversing entries, creating and locking periods, changing account flags; shown to implement `Books` |
| `OpenItems` | abstract: what documents and payments promise, a list of open items and the balance of their control account, with the entries by hand on it, every operation one step |
| `Settlement` | documents, payments, allocations and the entries of their control account, those by hand and reversals included; shown to implement `OpenItems` |
| `Invoicing` | tax rates, partners, and the documents drawn up with them: rates, rounding, the lines of their entries |
| `Hierarchy` | what the chart of accounts promises of its hierarchy |
| `AccountTree` | creating accounts under a parent and moving them; shown to keep `Hierarchy`, circles of three and more excepted |
| `Banking` | creating bank accounts, importing statements and reconciling transactions with payments |
| `Sessions` | signing in and out, expiry, the CSRF token, and the browser's cookies |
| `Throttle` | the throttle of sign-ins: its check, its counts, and what is left of them |
| `Reports` | the reports and the dashboard, read statement by statement while others post |
| `MCIdempotency`, `MCLedger`, `MCSettlement`, `MCInvoicing`, `MCAccountTree`, `MCBanking`, `MCSessions`, `MCThrottle`, `MCReports` | scenarios for TLC |

The modules compose along the calls of the code, by abstraction: `Ledger` keeps of
the idempotency claim only the lock that its insertion takes; `Settlement` keeps
of `post_journal_entry` that it inserts one entry per source or refuses; `Invoicing`
keeps that the entry's lines must be valid; `Reports` sees the postings of `Settlement`
and `Ledger` as single steps, which is what a statement at READ COMMITTED sees of them.
`Idempotency` keeps of every command only that it has an effect. What each level
leaves out is what the level below checks.

## How the modules correspond to the code

Common to all (`Requests`, except in `Idempotency`, whose requests have claims and no
commands, and in `Reports`, which has one reader): `pc[r]` is the statement that request
`r` executes next, `cmd[r]` what it was asked to do; an action is one SQL statement that
locks or that reads unlocked rows, with the checks the code makes on the result; `Commit`
makes the writes visible and releases the locks; `Rollback` follows a refusal; `Crash` (or
`Refuse`) ends a request at any statement; `Timeout` ends a wait, and `WaitsFor(r)` are the
requests that `r` waits for.

**Idempotency.** `Select`, `Insert`, `Reselect` are the three statements of
`claim_idempotency`; `record` holds the committed rows, `pending` the uncommitted
ones, `lock` the row locks. `Matches` is `_validate_existing` with the test for a
claim in progress. `Execute` is the business effect with `complete_idempotency`.
`Claims[r]` lists the keys that serving `r` claims, outermost first: `post_document`
claims the client's key and calls `post_journal_entry`, which claims another.
An outer handler that finds its inner key replayed uses the replayed result
(`ResultOf`). Requests and keys are unrelated by construction, so a client may send
any key, an inner one included. `Hash` stands for operation and payload hash.

**Ledger.** `FindPeriod`, `ReadAccounts`, `CheckSource`, `LockReversed`, `Insert`
are `post_journal_entry`; `LockOriginal`, `ListPeriods`, `LockOpen`,
`PostReversal` are `reverse_journal_entry`, which then continues with
`post_journal_entry` in the same transaction. `ListPeriods` and `LockOpen` are one
SQL statement, which takes a snapshot and then locks row after row, and re-reads
each row it had to wait for. `CreatePeriod`, `LockPeriod` and `UpdateAccount` are
the operations of the accounting service; `expected[r]` is the version that the
client read. Amounts are left out: a command that reaches the service is balanced
by its validation. Periods are identified by their dates, which never change.

**Settlement.** `InsertDocument` is `create_document`; `LockDocument` is
`post_document`; `Allocate` is one turn of the loops `_validate_allocations` (in the
order of the payload) and `_validate_persisted_allocations` (in the order of ids);
`CheckAmount` is the test after the loop; `LockEntry` is `reverse_journal_entry`.
`Allocated(d)` is the sum that `_posted_allocated` computes from the rows of posted
payments. One document type and the payment type that settles it are modelled. `ledger` has every
entry with its effect on the control account: `PostEntry` is `POST /journal-entries`, whose lines may
be on the control account and which may name an entry by `reversal_of_id` (`LockNamed`, which locks
it and checks no more than that it is there); `Reverse` is
`POST /journal-entries/{id}/reverse`, of any entry. The part of a payment that is not
allocated goes to another account or to the control account itself (`Unapplied`, `OnAccount`):
the code compares the two nowhere. An entry by hand that carries a document's source would make
`post_document` fail (one entry per source), which is among the reasons for `Refuse`.

**AccountTree.** `LockAccount`, `Walk` (one turn of the loop of
`_assert_no_parent_cycle`, one unlocked read), `WriteParent` are `update_account` with a
`parent_id`; `CheckCode`, `Walk`, `InsertAccount` are `create_account`. The row locks are those
of PostgreSQL: FOR UPDATE on the account that moves, FOR KEY SHARE on the parent that is
written, by its foreign key. Flags and postings of accounts are in `Ledger`.

**Invoicing.** `Claim` is the insertion of the idempotency record, whose foreign key
locks the organization; `LockOrganization` and `CheckOverlap` are `create_rate`;
`InsertPartner` and `LockPartner` are `create_partner` and `update_partner` or
`archive_partner`, and `expected[r]` is the version that the client read. A document passes
`CheckRates`, `Claim`, `CheckPartner`, `InsertDocument` and `ReferToPartner` (its foreign
key) when it is created, in the order of `create_document`, which validates the rates before
it claims its key; `LockDocument`, `CheckRates` and `BuildEntry` are `post_document`. `Net` and
`Tax` are `_money` on integers: cents, thousandths of a piece, hundredths of a percent, rounded
half up. `PostingLines` is `_posting_command`; `Valid` puts together the validators of
`JournalLineInput`, `JournalPostCommand` and `JournalEntry`. Of a payment there is the check of
its partner. `gone[r]` remembers which partners were archived when `r` began, for
`ArchivedPartnersRest` only.

**Banking.** `CheckLedger`, `SearchCode` and `InsertAccount` are `create_account`. `Search`,
`InsertBatch`, `InsertRow` are `import_transactions`; rows go in one by one in the payload's
order, and `Inserted` are the uncommitted ones. `LockTransaction`, `LockPayment`, `Match` are
`reconcile_transaction`; direction, currency, cash account and amount are one constant relation,
`Agree`. `LockDraft` is as much of `post_payment` as a reconciliation depends on.

**Sessions.** A session is named by the sign-in that creates it, a token by the request that
issues it. `Begin` is what a tab sends: `apiRequest` with the cookies of the moment, and
`NeedsToken` is when `ensureCsrfToken` asks for a new one. `Authenticate` is
`get_current_principal`, one unlocked read and its checks in order (`Admission`); `Rotate` and
`Write` are the read and the UPDATE of `refresh_csrf_token`, and `Write` that of
`revoke_session`. A request that stands at `commit` has done all its statements. `Commit` then
`Deliver` is one order of the two, `DeliverEarly` then `Commit` the other: in between the request is
`told`, answered and not committed. `Undo` is a commit that fails, before the answer or after it.
In the browser, `Receive` is an answer that arrives or is lost; `JarAfter` has the cookies that it sets
or that `clearAccessToken` removes; `GiveUp` is `signOut` when its call fails. `overlapped`
remembers whether two requests that set cookies were under way at once. The password and the throttle of a
sign-in are in `Throttle`; here a sign-in begins with its commit, since nothing it reads before is
written by others.

**Throttle.** `Check` is `check_login_throttle`, which locks the records that are committed;
`CountFailure` is one turn of the loop of `record_login_failure`, with `_get_or_create`; `Reject`
is the 401 or 429, which is an exception, so that the transaction with the counts is rolled back;
`SignIn` is `record_login_success`. `failures` is what is committed, `counted` what is not.

**Reports.** `PostDocument`, `PostPayment`, `PostEntry` and `MapAccount` are what other
transactions commit. `Ask` starts a report; `Read` is one of its statements, and `seen` keeps
what the last two have read. The figures are functions of those states, one for each query
of `reports/service.py` and `dashboard/service.py`: `Balance`, `NetIncome`, `Assets`,
`LiabilitiesAndEquity`, `Opening`, `ClosingCash`, `AgedOutstanding`, `PositionAmount`,
`OpenCount`, `CashPosition`. A payment has its type beside its allocations, so that one that
settles nothing, an advance, is a receipt or a disbursement too; its lines follow
`_posting_command` (`PaymentLines`). The accounts of documents and payments are what their
authors gave: that one of them is the control account of all documents of a type, with nothing
else booked on it, is a condition (`ControlOf`) and not an assumption. `Refused` has the limit
of each report, of both trial balances in the case of a balance sheet. `FirstRows` is `LIMIT MAX_REPORT_ROWS + 1`, `TooMany` is
`_bounded_rows`. Entries are netted by account; accounts and documents are numbered in the
order in which reports list them.

Clients name only committed rows in all modules.

## Runs

| Run | Asks | Instance |
|---|---|---|
| `idempotency_crossed` | that the protocol implements `ExactlyOnce`, the safety of its records, and that every request ends | 4 requests, 2 keys, 2 hashes: a nested command, its retry, a command that crosses its two keys with one of them reused for something else, and a direct use of the inner key; 9 998 states |
| `ledger_books` | periods disjoint and frozen, reversals in the right period, flags and versions of a posted account, that the ledger implements `Books`, and that every request ends | 3 requests beside an entry that is there already, 2 accounts, 5 days, 2 open periods and two overlapping candidates; 79 325 states up to the names of the requests |
| `settlement_books` | never more allocated than is outstanding, by drafts and payments that lock two documents in opposite orders; the ledger has exactly what is posted, and what its control account differs by from the open balance; that documents and payments implement `OpenItems`; every request ends | 2 drafts that together ask for too much, with money to spare that goes to the control account or elsewhere, and 3 requests, among them a new document, payments that list the documents in either order, entries by hand, one of which names the entry of a document, and reversals of an entry of each kind, a reversal included; 129 129 states |
| `tree_moves` | two accounts never become each other's parent; a code is created once; walks and requests end, on circular hierarchies too | 3 requests, 5 accounts, moves that close a circle and one that walks into it, 2 creations of one code; 124 002 states |
| `banking` | batches are whole, matches are unique, agree and are final, every request ends | 3 requests, an imported batch of 2 transactions and 2 new ids in overlapping batches in both orders, a repeated id, a reference in use; 2 payments, one of them a draft; one account code for three ledger accounts, one unusable; 475 070 states |
| `invoicing` | one rate per day, no lost update of a partner, nothing new for archived partners, rounded documents that can be posted exactly when they are worth anything; every request ends | 3 requests, 3 days, overlapping rates, lines that round up, down and to nothing, a number too long to be posted; 148 672 states |
| `sessions` | the token that the browser echoes is the one the server expects; a dead session stays dead | one session and 3 requests of any kind, answers lost or sent before their commit, commits that fail, an expiry; 620 655 states |
| `throttle_waits` | every sign-in is answered, without any exception | 3 sign-ins of 2 users from 2 networks, right and wrong passwords; 35 984 states |
| `reports` | sheets, aged reports and dashboard against the ledger | 2 invoices, a bill, 4 payments (one dated before an invoice that it settles, one an advance), an entry by hand, 3 days, 7 accounts of which a report may list 5; 1 303 916 states |
| `ledger_control`, `tree_cycle`, `throttle_limit` | three statements of the documents and tests that the code does not keep | see the findings |

What some of the properties say, and do not say:

* `ImplementsBooks`: what a transaction has checked still holds when it commits, so that its
  commit is one step of `Books`: entries lie in an open period that covers their date, a reversal
  that was moved among them. The uniqueness of sources is part of it: two postings of one
  source into two periods lock no row against each other, and only the unique index keeps
  them apart. `Books` does not promise what finding 1 shows the ledger does not keep, and has no
  postings that name what they reverse.
* `ImplementsOpenItems`: of a payment, the checks of the documents and the commit are statements
  apart, with waits between them; the commit is still one step of `OpenItems`, in which every
  allocation is open at that moment. This goes for drafts too, which `NeverOverAllocated` says
  nothing of: without the locks of `create_payment` a draft could be accepted that nothing is
  left for (`Allocate_PostingOnly`). A reversal takes the amount of one entry off the balance,
  once, and leaves the items as they are.
* `DriftIsExplained` is what is true of a promise of the documents (*seen in properties that hold*,
  below): the control account differs from the
  open balance by what clients posted to it by hand, by what payments left there unallocated, and
  by the entries that `reverse_journal_entry` reversed, each taken off once. A posting that names
  a reversed entry is an entry by hand. It breaks if reversals can be reversed, or if
  two reversals of one entry both pass.
* `EveryRequestEnds` is said without any timeout: a request ends by itself unless it is in, or
  behind, a circle of a kind that the property names ([fairness](#fairness)).
* `RepeatedFailuresAreBlocked` (violated, finding 3) is about one window and a user who does
  not succeed meanwhile.
* `PostableUnlessZero` is about amounts and, of what is posted, about the length of its number. A draft whose
  number has 87 to 100 characters (an invoice) or 89 to 100 (a bill) is accepted by
  `create_document` and can never be posted, because `_posting_command` puts the type before
  the number and the ledger's reference is limited to 100 characters.
* `SheetDrift`: a balance sheet can fail to balance, because its net income comes from a later
  statement; it is off by the income of exactly the entries posted in between, and by nothing
  else. In particular it is never off because rows were cut: reports at the limit are refused.
* `AgedIsReceivable`: where an account is the control account of one type of documents and of
  nothing else, the aged report is its balance on the same day, except
  for payments dated before the issue of what they settle, which the code allows: the ledger has
  them, the report has not got the document. The property states the difference.
* `DashboardAgrees`: between its two statements the dashboard may see two states, and then its
  amount and its count may disagree; of one state, the amount is zero exactly when the count is,
  although the two statements have different conditions. It subtracts payments of all dates, the aged
  report those until the day; the property states that difference too. Its cash position is the
  closing balance of a cash flow report, wherever that starts, unless that report has too many
  rows and is refused.
* `EchoIsAccepted` is about a browser in which no two requests that issue a token overlap. If
  they do, the answers may arrive in the other order, and the older token stays in the cookie
  until it is cleared or replaced; the model shows it without the condition. Nor does it speak of a
  token whose request has not committed: from FastAPI 0.118 on the browser may hold one that the server
  does not know yet, or, if the commit fails, never will, until its requests are refused and
  it signs in or out.
* `ArchivedPartnersRest` excepts requests that overlap the archiving: they read the partner
  without a lock.

Bounds. Every race listed is between two transactions; a third is the cycle of three, the
retry, or the change that falls between two others. What the races are for is there at
the start where the run is not about how it came about: open periods
(`InitialPeriods`) and a posted entry (`InitialEntries`) in `Ledger`, posted documents
(`Posted0`) and drafts of payments (`Drafts0`) in `Settlement`, a chart (`Parent0`) in
`AccountTree`, a statement (`Batches0`) and posted payments (`Posted0`) in `Banking`, a rate
and a partner (`Rules0`, `Partners0`) in `Invoicing`, a session (`SignedIn`) in `Sessions`;
`Throttle` starts without records, as the table does. Each
module assumes of them what the services ensure (`EntriesAssumption`,
`DraftsAssumption`, ...). Five
days give a period of two days and one of one, two candidates that overlap each other and not
those, and a reversal that has to move. Totals of 2 and 1 cents with payments of 1 to 3 give a
document settled by one payment, by two, and asked for more than is left. One reader is enough in
`Reports`, since readers change nothing; nothing is ever unposted there, and three days are one
before, one between and one after. Four sign-ins, rotations or sign-outs, the first of them at
the start, are what a token needs to be replaced, lost and asked for again. `MaxTime` of 1 lets
a session expire at any moment. A limit of 2 failures (`MaxFailures`) stands for 5; two
users and two networks let three sign-ins share either bucket, both, or none. No other variable
is unbounded: the number of requests bounds versions and sums.
The three requests that run in `ledger_books` are interchangeable, and liveness rules out
TLC's symmetry reduction: the action constraint `NamedByKind` names them instead by the order of
what they ask for, in whatever order they begin. Every behaviour is one it allows, up to a
permutation of `r2`, `r3` and `r4`, which maps commands to commands of the same kind and no
property tells apart.

`CHECK_DEADLOCK FALSE` because a behaviour ends when all requests are done.

Each property has a mutant in `PROJECT.json`: the definition of the model that a
plausible bug would change, with the changed form beside it in the module
(`CreatePeriod_Unlocked`, `Fits_Unapplied`, ...). Those operators are used
nowhere else.

## Fairness

`FairSpec` has weak fairness of `Step(r)` for each request: the thread serving a request goes on
executing it. Nothing else is fair. No request has to come, or to break (`Begin`, `Crash`, `Fail`,
`Refuse`), and no wait is ended by the database (`Timeout`), although its deadlock detector and
`statement_timeout` do that: a property that counted on them would hold of any program.

Without them `EveryRequestEnds` cannot be said of every request, because the code can deadlock. It
says instead of which circles that is true. `Waits` defines a circle as a least set of
requests each of which waits for another of the set; a request is `Stuck` when it is in a circle of
the kinds that the module names, or waits for one, directly or not. Everything else ends by itself. So a
lock taken in another order, or one not released, is a counterexample:

| Module | The circles that the code allows | What would be a new one (the mutant) |
|---|---|---|
| `Idempotency` | `CrossedKeys`: requests that claim the same keys, nested ones among them, in crossing orders | a refused request that keeps its transaction open |
| `Ledger` | `KnownCircle`: creations of periods, which want the organization FOR UPDATE while their own claims hold it FOR KEY SHARE; a posting that names the entry that is being reversed, since it locks the period first and the reversal the entry first (the run has no such posting) | a reversal that locks the open periods in any order |
| `Settlement` | `ListedBackwards`: with a payment in it that is created with its documents listed against the order of ids | `post_payment` without an order |
| `AccountTree` | `CircularMoves`: moves of accounts that would together close a circle of parents | a walk that forgets where it has been |
| `Banking` | `CrossedBatches`: imports that list the same ids in crossing orders | rows inserted in an order of their own, so that two uploads of one file deadlock |
| `Invoicing` | `CreationsOfRates`: like creations of periods | a creation of a partner that locks the organization after its claim |
| `Throttle` | none | keys of the buckets without an order |

In a circle PostgreSQL ends one request with an error, and the client retries. `Sessions` has no
liveness property: its requests lock one row each. `Reports` locks nothing.

## Where the code and its documents disagree

1. `ledger_control`: `post_journal_entry` refuses control accounts ("control account
   cannot receive posting"), but it reads the accounts without a lock
   (`domains/ledger/service.py:200`). An account without postings can become a
   control account between that read and the insertion of the lines, and then has
   a posting.
2. `tree_cycle`: "account hierarchy cycle is not allowed"
   (`domains/accounting/service.py:133`). With `b` below `c`, one request moves `a` under `b`
   and another moves `c` under `a`. Each locks its own account and walks over committed
   parents that nobody locks; the second then waits for the first at the foreign key,
   and is not checked again. Circles of two cannot arise (`NoMutualParents`): there
   each move wants to share the row that the other has locked.
3. `throttle_limit`: a failed sign-in is counted in its request's transaction, and then answered by
   raising `HTTPException`, which rolls the transaction back. No count is ever
   committed, so no sign-in is ever blocked. `tests/test_auth_api.py:143` expects the fifth
   failure to be answered 429, `db/models/platform.py:112` calls the records durable, and
   `docs/ARCHITECTURE.md:352` asks for rate limiting on auth. The test passes because the session that
   `tests/conftest.py` substitutes lives through all five requests and is not rolled back
   between them. Committing the counts before the exception is not all there is to it: with
   `Reject` changed that way the limit holds in the model and `EveryRequestEnds` fails, since
   `check_login_throttle` locks the committed records and `record_login_failure` then inserts the others,
   so that one sign-in may lock the network's record before the identity's.

Two more are *seen in properties that hold*, which state them as exceptions:

* `reverse_journal_entry` refuses an entry that has been reversed and a reversal ("journal entry has
  already been reversed", `domains/ledger/service.py:382`); `post_journal_entry` with `reversal_of_id`
  locks the entry and checks that it exists, and nothing more (`:242`). So `ReversedOnce` and
  `ImplementsBooks` are proved under `NoDirectReversals`, and `ledger_books` has no such command.
* `README.md:62` says that reports can be reproduced from the ledger. Reversing the entry of a posted
  document leaves the document posted and its balance outstanding, and clients post to control
  accounts by hand, so the aged balance and the control account differ: by exactly what
  `DriftIsExplained` says.

## Proofs

TLC checks a property on an instance; the theorems below hold for every value of the
constants that satisfies the assumptions of the module. All properties of the passing runs are
theorems, except liveness (*only model-checked*, below).

| Module | Theorems |
|---|---|
| `IdempotencyProofs` | `TypeCorrect`, `AtMostOnce` (`AppliedOnce`), `RecordAndEffect` (`NoHalfComplete`), `SameAnswer` (`OneAnswerPerKey`), `Durable` (`RecordsAreFinal`), `Refinement` (`ImplementsExactlyOnce`) |
| `LedgerProofs` | `Typed`, `DisjointPeriods`, `FrozenPeriods` (`LockedPeriodsAreFrozen`), `StructureIsKept` (`PostedAccountsKeepStructure`), `NoUpdateIsLost` (`NoLostUpdate`); under `NoDirectReversals`: `ReversalsAreSafe` (`ReversedOnce`), `Refinement` (`ImplementsBooks`); of `AccountTree`: `NoTwoCircle` (`NoMutualParents`), `OneCreation` (`CreatedOnce`) |
| `SettlementProofs` | `NothingIsOverAllocated` (`NeverOverAllocated`), `AllocationsCovered`, `PostingsAreEntered` (`PostedIffEntered`), `LedgerExplains` (`LedgerExplainsReceivable`), `DriftExplained` (`DriftIsExplained`), `Refinement` (`ImplementsOpenItems`) |
| `InvoicingProofs` | `SingleRates` (`OneRatePerDay`), `ArchivedRest` (`ArchivedPartnersRest`), `NoChangeIsLost` (`NoLostUpdate`), `EntriesArePostable` (`PostableUnlessZero`) |
| `BankingProofs` | `Typed`, `WholeBatches`, `SingleMatches` (`MatchedOnce`), `AgreeingMatches`, `FinalMatches` (`MatchesAreFinal`) |
| `SessionsProofs` | `EchoesAreAccepted` (`EchoIsAccepted`), `DeadStayDead` (`DeadSessionsStayDead`) |
| `ReportsProofs` | `SheetDrifts` (`SheetDrift`), `AgedIsTheAccount` (`AgedIsReceivable`), `DashboardTellsTheSame` (`DashboardAgrees`) |
| `SumTheorems` | lemmas on sums over finite sets, which `SettlementProofs`, `InvoicingProofs` and `ReportsProofs` use |

None of these properties is inductive: each says what is committed, and nothing of why a
transaction that is about to commit may do so. In every module `IInv` adds that, as a conjunct
per statement (`Ready(r)`): which rows `r` has locked when it stands there, and what it has
checked that its locks keep true. TLC checked each `IInv`, and the second invariants `RInv`
and `DInv`, on the instances of the runs before they were proved. The proofs are laid out alike: a lemma
for what another request's step leaves true of `r` (`OthersReady`, `KeepsServing`), one lemma
per action for the request that takes the step, then `Inductive`, and the properties from it;
an action property follows from `IInv` and the one commit that can change the rows in question.

What carries each argument:

* **Idempotency.** A row that is committed is complete because of where its request stands:
  `OpenIsReserved` (each level that is open is reserved, with its hash),
  `ReservedIsOpenOrStaged` (conversely, what is reserved is of an open level or performed),
  `StagedIsComplete`, and `ReservedIsNew` (no committed row beside it, so a commit overwrites
  nothing). `AnswerIsRecorded` gives the answers. For the refinement the step of `ExactlyOnce`
  has to be known long before the commit that maps to it: `Performs(r, n)` says that the outer
  `n` claims are new, that those already executed bear the answer of `r`, and that claim
  `n + 1`, if there is one, is answered by a committed record; the insertion of the innermost
  claim or the discovery of a committed row fixes `n`. Every other step is a stutter.
* **Ledger.** Share locks of postings and exclusive locks of updates and of period locking
  exclude each other (`LocksExclude`), so the target of a posting stays open, and its accounts
  keep their flags; that uncommitted entries have different sources (`DraftsDiffer`) is the
  unique index. Reversals have an invariant of their own (`RInv`: the original is locked,
  has not been reversed, and the target fits its date). It needs
  `NoDirectReversals`, that no client posts an entry with `reversalOf`: without it
  `ReversedOnce` is false. The run `ledger_books` has no such
  command either.
* **Settlement.** The invariant is `Settles(r)`: the documents that a payment has passed in its
  loop are locked by it, posted, and have enough outstanding; another payment cannot commit an
  allocation to them, because it would have to hold the same lock (`RespectsLocks`).
  `LedgerExplainsReceivable` equates two sums over rows; it needs `IsFiniteSet(Document)`.
  Entries by hand and reversals are kept apart from the entries of postings by their sources, so
  neither side of that equation sees them. Two more parts are there for the refinement of
  `OpenItems`: `Drafts(r)` says of a payment that is being drafted what `Settles(r)` says of one
  that is being posted, and `Reverses(r)`
  that the entry about to be reversed is locked and not reversed yet; with `PostedIffEntered`,
  by which a source has one original entry, a reversal moves exactly that entry into
  `ReversedEntries` (`ReversalStep`), and an entry by hand exactly itself into `HandEntries`, for `DriftIsExplained`. Only commits write rows
  (`OnlyCommitsWrite`), and each of the five is one step of `OpenItems`.
* **Invoicing.** The organization's lock keeps what a new rate was checked against, the
  partner's lock its version; that an archived partner stays archived (`GoneStayArchived`)
  stands in for the lock that readers of partners do not take. Documents have an invariant of
  their own (`DInv`): their parts add up to the total, and a document at its posting has a
  value. `PostableExactly` is the lemma behind it, about the rounded lines of any document:
  the lines that are worth anything, the tax and the total balance, and there are at least
  two exactly when there is a total. That a number is inserted once, under the lock of its
  row, keeps a draft that is being posted from being replaced.
* **AccountTree.** A walk reads rows that nobody locks. What it has learned of the new parent
  stays true because the mover holds its own account, under which nobody can then put another
  (`Learned`), and because the new parent is shared at the commit (`MoveIsSafe`). For longer
  circles there is no such argument, and finding 2 is one. The proofs are the last section of
  `LedgerProofs`, about an instance `Tree` of `AccountTree` with commands of its own; the
  assumptions of that module are hypotheses there (`TreeAssumption`), the same that TLC
  evaluates in the runs of `AccountTree`.
* **Banking.** Unique indexes for imports (`ImportsDiffer`, with the batch inserted row by row in
  `Importing`), row locks for reconciliations (`Reconciling`).
* **Sessions.** A session is named by others, in a cookie or as their principal, only after the answer to its sign-in was
  sent (`Told`, `NamesAreKnown`), and its row is written only by requests admitted with it, after
  the sign-in has ended (`Known`): so nobody replaces it, and `Dead` stays. The token in the jar is the
  session's unless a request that sets cookies is on its way. While a token is rotated the browser has
  none, or has the new one already (`Rotating`); while somebody signs in it has what the last
  request left, or the new cookies already (`SigningIn`); that only one such request is active
  (`Alone`) is what the absence of overlaps means. A commit that comes after the answer makes the
  token in the jar the expected one (`TokenOfCommitted`); one that fails leaves its request `failed`, which
  is why `EchoIsAccepted` asks for a committed one.
* **Reports.** The invariant says of every state that a report may read, and of those it has
  read, that nothing in it is settled beyond its total, and nothing is settled that is not
  posted (`Sound`); and that what a later statement sees contains what an earlier one saw
  (`SeenInOrder`). The rest is about sums. Every entry balances (`Balances`), so the balances of
  a trial balance that has all its rows add up to zero (`TrialBalances`), and by types
  (`ByType`), and the balance of a later state is that of the earlier one plus that of what came between
  (`LaterBalance`): this is the sheet (`Sheet`). That no row is missing unless the report is
  refused is `AllRows`: a set of which the first `MaxRows + 1` are at most `MaxRows` has no
  more. For the aged report the allocations are one table, added up by documents on
  one side and by payments on the other (`SumExchange`); a control account gets the totals of
  its documents less what payments settle of them (`ControlIsOpen`). The outstanding amounts
  are cut off at zero, which changes none because of `Sound` (`AgedIsOpen`). It needs
  no assumption on accounts beyond `ControlOf`.

Assumptions. Each module assumes of its constants that they have their types, of the initial
rows what the services ensure (above, *Bounds*), and that `None` is none of the values that it
stands beside (`NoneAssumption`). `Reports` adds that there are finitely many accounts and
documents, that an entry balances, that a payment allocates no more than its amount, to
documents of the type it settles (`_document`), and that bank accounts are opened for assets.
TLC evaluates them in every run.

`SumTheorems` proves what `SumFunctionOnSet` computes on a finite set: the library's
induction theorems take an operator as parameter, which no installed prover can
instantiate, so its inductions take a smallest counterexample instead: the finite subsets for which a
lemma fails have a minimal one (`LeastSet`), since a set of natural numbers has a least
element (`LeastNat`). On these rest sums of sums: `SumExchange` adds a table up by rows or by
columns, `SumByKey` groups what is added by a key.

Only model-checked: liveness (`EveryRequestEnds` in seven modules), since the prover has neither
fairness nor ENABLED, and `Throttle` has nothing else; and the three violations.

## What is not modelled

* Sign-in: the expiry of the throttle's windows and blocks, which could only let more sign-ins
  through; several users in `Sessions`, deactivated users and tenants, and the permissions of roles,
  which are constant filters and among the reasons for `Refuse`.
* Reports: the recent activity and the counts of partners and bank transactions on the
  dashboard, which are single statements on their own; reversals, because a reversed
  document stays open (`DriftIsExplained`).
* Partners: addresses, contacts and tags, which nothing decides on.
* Organizations, audit log, HTTP layer: reads, an append-only insertion in
  the transaction of each command, and a mapping of errors to status codes; the rollback
  that an error causes is in every model.
* Migrations: their unique indexes and foreign keys are part of the modelled statements.
  The immutability triggers reject statements that no service issues.
* The screens of the web client; its retries are requests like any others.
* Formatting and parsing of amounts, dates and codes: the models start from their values. Sums
  that overflow a `Numeric(18, 2)` are refused by the database, like other refusals.

## Plan

1. (done) `ExactlyOnce`, `Idempotency`, its proofs; `Ledger`; `Settlement`; `AccountTree`;
   `Banking`.
2. (done) `Sessions`, `Reports`, `Invoicing`; `Books` and its refinement by `Ledger`; bank
   accounts; the books of `Settlement` computed from its rows.
3. (done) Proofs of the safety properties and of the refinements, as listed above;
   `OpenItems` and its refinement by `Settlement`.
4. (done) The sums of `Reports` as `SumFunctionOnSet`, and its theorems.
5. (done) Entries by hand on control accounts in `Settlement`; both orders of answer and commit in
   `Sessions`; `Throttle`; liveness without timeouts (`Waits`).
6. Left: several users and tenants with one session table, and a refinement that relates
   `Settlement` to `Ledger`, which is argued above but not stated as one.
