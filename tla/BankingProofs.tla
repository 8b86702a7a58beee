--------------------------- MODULE BankingProofs ---------------------------
(***************************************************************************)
(* Safety of imports and reconciliations for every set of requests,        *)
(* transactions, payments and batches of any length.                       *)
(*                                                                         *)
(* The argument for imports rests on the unique indexes: two uncommitted   *)
(* batches have neither their reference nor an inserted row in common      *)
(* (ImportsDiffer), and what a batch has inserted is not committed by      *)
(* anybody else (Importing).  The one for reconciliations rests on the     *)
(* locks of the transaction and the payment (Reconciling).                 *)
(***************************************************************************)
EXTENDS Banking, SequenceTheorems, TLAPS

Committing(r, op) == pc[r] = "commit" /\ cmd[r].op = op

\* The variables that TypeOK describes by their values are functions.
AreFunctions ==
  /\ cmd \in [Request -> Commands \cup {None}]
  /\ row \in [Request -> Nat]
  /\ batch \in [Reference -> Seq(Transaction) \cup {None}]

\* The statement that r executes is one of its command.
RightCommand(r) ==
  /\ pc[r] # "idle" => cmd[r] \in Commands
  /\ pc[r] \in {"ledger", "code", "account"} => cmd[r].op = "createAccount"
  /\ pc[r] \in {"search", "batch", "rows"} => cmd[r].op = "import"
  /\ pc[r] \in {"transaction", "payment", "match"} => cmd[r].op = "reconcile"
  /\ pc[r] = "draft" => cmd[r].op = "postPayment"

Creating(r) ==
  /\ pc[r] \in {"code", "account"} \/ Committing(r, "createAccount") => cmd[r].ledger \in Usable
  /\ Committing(r, "createAccount") => account[cmd[r].code] = None

\* The unique index on the code of a bank account.
CodesDiffer ==
  \A r, s \in Request :
    Committing(r, "createAccount") /\ Committing(s, "createAccount")
      /\ cmd[r].code = cmd[s].code => r = s

\* r has rows that it has not committed.
Inserting(r) == pc[r] = "rows" \/ Committing(r, "import")

Importing(r) ==
  /\ pc[r] \in {"search", "batch"} => row[r] = 0
  /\ pc[r] \in {"batch", "rows"} \/ Committing(r, "import") => IsInjective(cmd[r].ids)
  /\ pc[r] = "rows" => row[r] < Len(cmd[r].ids)
  /\ Committing(r, "import") => row[r] = Len(cmd[r].ids)
  /\ Inserting(r) =>
       /\ batch[cmd[r].reference] = None
       /\ \A i \in 1 .. row[r] : imported[cmd[r].ids[i]] = None

\* The unique indexes on the reference of a batch and the id of a transaction.
ImportsDiffer ==
  \A r, s \in Request :
    Inserting(r) /\ Inserting(s) /\ r # s =>
      /\ cmd[r].reference # cmd[s].reference
      /\ \A i \in 1 .. row[r], j \in 1 .. row[s] : cmd[r].ids[i] # cmd[s].ids[j]

\* What r has checked of its transaction and its payment, which it has locked.
Reconciling(r) ==
  LET t == cmd[r].transaction
      p == cmd[r].payment
  IN /\ pc[r] \in {"transaction", "payment", "match"} \/ Committing(r, "reconcile") =>
          imported[t] # None
     /\ pc[r] \in {"payment", "match"} \/ Committing(r, "reconcile") =>
          lock[t] = r /\ match[t] = None
     /\ pc[r] = "match" \/ Committing(r, "reconcile") => lock[p] = r /\ p \in posted
     /\ Committing(r, "reconcile") => <<t, p>> \in Agree /\ \A u \in Transaction : match[u] # p

IInv ==
  /\ TypeOK
  /\ AreFunctions
  /\ CodesDiffer
  /\ ImportsDiffer
  /\ BatchesAreWhole
  /\ MatchedOnce
  /\ MatchesAgree
  /\ \A r \in Request : RightCommand(r) /\ Creating(r) /\ Importing(r) /\ Reconciling(r)
-----------------------------------------------------------------------------
\* The operation of a command determines its fields.
LEMMA FieldType ==
  ASSUME NEW c \in Commands
  PROVE  /\ c.op \in {"createAccount", "import", "reconcile", "postPayment"}
         /\ c.op = "createAccount" => c.code \in Code /\ c.ledger \in LedgerCode
         /\ c.op = "import" =>
              /\ c.reference \in Reference /\ c.ids \in Seq(Transaction)
              /\ Len(c.ids) \in Nat /\ Len(c.ids) > 0
         /\ c.op = "reconcile" => c.transaction \in Transaction /\ c.payment \in Payment
         /\ c.op = "postPayment" => c.payment \in Payment
<1>1. c \in Command
  BY CommandsAssumption
<1>2. /\ c.op \in {"createAccount", "import", "reconcile", "postPayment"}
      /\ c.op = "createAccount" => c.code \in Code /\ c.ledger \in LedgerCode
      /\ c.op = "import" => c.reference \in Reference /\ c.ids \in Seq(Transaction) \ {<<>>}
      /\ c.op = "reconcile" => c.transaction \in Transaction /\ c.payment \in Payment
      /\ c.op = "postPayment" => c.payment \in Payment
  BY <1>1 DEF Command, CreateAccount, Import, Reconcile, PostPayment
<1>3. c.op = "import" => Len(c.ids) \in Nat /\ Len(c.ids) > 0
  BY <1>2, EmptySeq, LenProperties
<1> QED
  BY <1>2, <1>3

\* The ids of a batch are transactions.
LEMMA IdType ==
  ASSUME NEW c \in Commands, c.op = "import", NEW i \in 1 .. Len(c.ids)
  PROVE  c.ids[i] \in Transaction
BY FieldType, ElementOfSeq

\* Every request's own part of the invariant.
Ready(r) == RightCommand(r) /\ Creating(r) /\ Importing(r) /\ Reconciling(r)

\* What s has checked stays so while the books and its own state do.
LEMMA OthersReady ==
  ASSUME NEW s \in Request, Ready(s),
         pc'[s] = pc[s], cmd'[s] = cmd[s], row'[s] = row[s],
         \A x \in Lockable : lock[x] = s => lock'[x] = s,
         UNCHANGED books
  PROVE  Ready(s)'
<1>1. \A op : Committing(s, op)' = Committing(s, op)
  BY DEF Committing
<1>2. Inserting(s)' = Inserting(s)
  BY <1>1 DEF Inserting
<1>3. RightCommand(s)'
  BY DEF Ready, RightCommand
<1>4. Creating(s)'
  BY <1>1 DEF Ready, Creating, books
<1>5. Importing(s)'
  BY <1>1, <1>2 DEF Ready, Importing, books
<1>6. Reconciling(s)'
  <2>1. pc[s] # "idle" /\ cmd[s].op = "reconcile" =>
          cmd[s].transaction \in Lockable /\ cmd[s].payment \in Lockable
    BY FieldType DEF Ready, RightCommand, Lockable
  <2>2. pc[s] \in {"transaction", "payment", "match"} => cmd[s].op = "reconcile"
    BY DEF Ready, RightCommand
  <2> QED
    BY <1>1, <2>1, <2>2 DEF Ready, Reconciling, Committing, books
<1> QED
  BY <1>3, <1>4, <1>5, <1>6 DEF Ready

\* A step of r that writes nothing to the books: it suffices to look at r, and
\* at the unique indexes if r has inserted something.
LEMMA OwnStep ==
  ASSUME IInv, NEW r \in Request, NEW label, Goto(r, label),
         label \in {"ledger", "code", "account", "search", "batch", "rows", "transaction",
                    "payment", "match", "draft", "commit", "rollback", "done", "failed"},
         cmd' \in [Request -> Commands \cup {None}], row' \in [Request -> Nat],
         \A s \in Request \ {r} : cmd'[s] = cmd[s] /\ row'[s] = row[s],
         row'[r] \in 0 .. IF cmd'[r].op # "import" THEN 0 ELSE Len(cmd'[r].ids),
         lock' \in [Lockable -> Request \cup {None}],
         \A s \in Request \ {r} : \A x \in Lockable : lock[x] = s => lock'[x] = s,
         UNCHANGED books,
         Ready(r)',
         Committing(r, "createAccount")' => CodesDiffer',
         Inserting(r)' => ImportsDiffer'
  PROVE  IInv'
<1>1. pc'[r] = label /\ \A s \in Request \ {r} : pc'[s] = pc[s]
  BY DEF IInv, TypeOK, Goto
<1>2. TypeOK'
  <2>1. pc' \in [Request -> {"idle", "ledger", "code", "account", "search", "batch", "rows",
                             "transaction", "payment", "match", "draft", "commit", "rollback"}
                              \cup Terminal]
    BY DEF IInv, TypeOK, Goto, Terminal
  <2>2. ASSUME NEW s \in Request
        PROVE  row'[s] \in 0 .. IF pc'[s] = "idle" \/ cmd'[s].op # "import"
                                THEN 0 ELSE Len(cmd'[s].ids)
    <3>1. CASE s = r
      BY <1>1, <3>1
    <3>2. CASE s # r
      BY <1>1, <3>2 DEF IInv, TypeOK
    <3> QED
      BY <3>1, <3>2
  <2> QED
    BY <2>1, <2>2 DEF IInv, TypeOK, books
<1>3. AreFunctions'
  BY DEF IInv, AreFunctions, books
<1>4. BatchesAreWhole' /\ MatchedOnce' /\ MatchesAgree'
  BY DEF IInv, BatchesAreWhole, MatchedOnce, MatchesAgree, books
<1>5. \A s \in Request : s # r => Ready(s)'
  BY <1>1, OthersReady DEF IInv, Ready
<1>6. \A s \in Request \ {r} : /\ \A op : Committing(s, op)' = Committing(s, op)
                               /\ Inserting(s)' = Inserting(s)
  BY <1>1 DEF Committing, Inserting
<1>7. CodesDiffer'
  BY <1>6 DEF IInv, CodesDiffer
<1>8. ImportsDiffer'
  BY <1>6 DEF IInv, ImportsDiffer
<1> QED
  BY <1>2, <1>3, <1>4, <1>5, <1>7, <1>8 DEF IInv, Ready

\* Initially nothing is in progress.
LEMMA InitIInv == Init => IInv
<1> SUFFICES ASSUME Init PROVE IInv
  OBVIOUS
<1>1. \A b \in DOMAIN Batches0 : Batches0[b] # None
  BY BatchesAssumption, NoneAssumption
<1>2. imported \in [Transaction -> Reference \cup {None}]
  BY BatchesAssumption DEF Init
<1>3. batch \in [Reference -> Seq(Transaction) \cup {None}]
  BY BatchesAssumption DEF Init
<1>4. TypeOK
  BY <1>2, <1>3, PostedAssumption DEF Init, TypeOK
<1>5. AreFunctions
  BY <1>3 DEF Init, AreFunctions
<1>6. BatchesAreWhole
  <2>1. ASSUME NEW b \in Reference, NEW t \in Transaction
        PROVE  imported[t] = b <=> b \in DOMAIN Batches0 /\ t \in ToSet(Batches0[b])
    BY NoneAssumption, BatchesAssumption DEF Init
  <2>2. ASSUME NEW b \in DOMAIN Batches0
        PROVE  ToSet(Batches0[b]) \subseteq Transaction
    BY BatchesAssumption, ElementOfSeq DEF ToSet
  <2> QED
    BY <1>1, <2>1, <2>2 DEF Init, BatchesAreWhole
<1>7. \A r \in Request : pc[r] = "idle" /\ (\A op : ~Committing(r, op)) /\ ~Inserting(r)
  BY DEF Init, Committing, Inserting
<1>8. CodesDiffer /\ ImportsDiffer /\ MatchedOnce /\ MatchesAgree
  BY <1>7 DEF Init, CodesDiffer, ImportsDiffer, MatchedOnce, MatchesAgree
<1>9. \A r \in Request : RightCommand(r) /\ Creating(r) /\ Importing(r) /\ Reconciling(r)
  BY <1>7 DEF RightCommand, Creating, Importing, Reconciling
<1> QED
  BY <1>4, <1>5, <1>6, <1>8, <1>9 DEF IInv

\* A client sends a command.
LEMMA BeginIInv == ASSUME IInv, NEW r \in Request, Begin(r) PROVE IInv'
<1>1. PICK c \in Commands :
        /\ c.op = "reconcile" => imported[c.transaction] # None
        /\ cmd' = [cmd EXCEPT ![r] = c]
        /\ Goto(r, CASE c.op = "createAccount" -> "ledger"
                     [] c.op = "import"        -> "search"
                     [] c.op = "reconcile"     -> "transaction"
                     [] c.op = "postPayment"   -> "draft")
  BY DEF Begin
<1>2. PICK label :
        /\ Goto(r, label)
        /\ \/ c.op = "createAccount" /\ label = "ledger"
           \/ c.op = "import" /\ label = "search"
           \/ c.op = "reconcile" /\ label = "transaction"
           \/ c.op = "postPayment" /\ label = "draft"
  BY <1>1, FieldType
<1>3. cmd'[r] = c /\ pc'[r] = label /\ cmd' \in [Request -> Commands \cup {None}]
  BY <1>1, <1>2 DEF IInv, TypeOK, AreFunctions, Goto
<1>4. pc[r] = "idle" /\ UNCHANGED <<row, lock, books>>
  BY DEF Begin
<1>5. row'[r] = 0
  BY <1>4 DEF IInv, TypeOK
<1>6. (\A op : ~Committing(r, op)') /\ ~Inserting(r)'
  BY <1>2, <1>3 DEF Committing, Inserting
<1>7. Ready(r)'
  BY <1>1, <1>2, <1>3, <1>4, <1>5, <1>6
     DEF Ready, RightCommand, Creating, Importing, Reconciling, books
<1>8. row'[r] \in 0 .. IF cmd'[r].op # "import" THEN 0 ELSE Len(cmd'[r].ids)
  BY <1>3, <1>5, FieldType
<1>9. /\ lock' \in [Lockable -> Request \cup {None}] /\ row' \in [Request -> Nat]
      /\ \A s \in Request \ {r} : cmd'[s] = cmd[s] /\ row'[s] = row[s]
  BY <1>1, <1>4 DEF IInv, TypeOK, AreFunctions
<1> QED
  BY <1>2, <1>3, <1>4, <1>6, <1>7, <1>8, <1>9, OwnStep

\* A step of r that inserts no row: what Ready says of r, the codes, and r's locks.
LEMMA PlainStep ==
  ASSUME IInv, NEW r \in Request, NEW label, Goto(r, label), pc[r] # "idle",
         label \in {"ledger", "code", "account", "search", "batch", "rows", "transaction",
                    "payment", "match", "draft", "commit", "rollback", "done", "failed"},
         UNCHANGED <<cmd, row, books>>,
         lock' \in [Lockable -> Request \cup {None}],
         \A s \in Request \ {r} : \A x \in Lockable : lock[x] = s => lock'[x] = s,
         Ready(r)',
         Committing(r, "createAccount")' => CodesDiffer',
         Inserting(r)' => ImportsDiffer'
  PROVE  IInv'
<1>1. row'[r] \in 0 .. IF cmd'[r].op # "import" THEN 0 ELSE Len(cmd'[r].ids)
  BY DEF IInv, TypeOK
<1>2. cmd' \in [Request -> Commands \cup {None}] /\ row' \in [Request -> Nat]
  BY DEF IInv, AreFunctions
<1> QED
  BY <1>1, <1>2, OwnStep

\* SELECT ... FOR UPDATE of one row.
LEMMA TakeLock ==
  ASSUME IInv, NEW r \in Request, NEW x \in Lockable, Acquire(r, x)
  PROVE  /\ lock' \in [Lockable -> Request \cup {None}] /\ lock'[x] = r
         /\ \A y \in Lockable : lock[y] = r => lock'[y] = r
         /\ \A s \in Request \ {r} : \A y \in Lockable : lock[y] = s => lock'[y] = s
<1>1. lock \in [Lockable -> Request \cup {None}]
  BY DEF IInv, TypeOK
<1>2. lock' = [lock EXCEPT ![x] = r] /\ lock[x] \in {None, r}
  BY DEF Acquire, Free
<1> QED
  BY <1>1, <1>2, NoneAssumption

\* create_account: the ledger account is usable, then the code is free, and the
\* unique index finds neither a committed nor an uncommitted row of that code.
LEMMA CreateIInv ==
  ASSUME IInv, NEW r \in Request, CheckLedger(r) \/ SearchCode(r) \/ InsertAccount(r)
  PROVE  IInv'
<1>1. /\ pc[r] \in {"ledger", "code", "account"} /\ UNCHANGED <<cmd, row, lock, books>>
      /\ \E label : Goto(r, label) /\ label \in {"code", "account", "commit", "rollback"}
  BY DEF CheckLedger, SearchCode, InsertAccount, Proceed
<1>2. PICK label \in {"code", "account", "commit", "rollback"} : Goto(r, label)
  BY <1>1
<1>3. pc'[r] = label /\ \A s \in Request \ {r} : pc'[s] = pc[s]
  BY <1>2 DEF IInv, TypeOK, Goto
<1>4. cmd[r] \in Commands /\ cmd[r].op = "createAccount" /\ cmd'[r] = cmd[r]
  BY <1>1 DEF IInv, RightCommand
<1>5. label \in {"code", "account", "commit"} => cmd[r].ledger \in Usable
  BY <1>1, <1>2, <1>3
     DEF CheckLedger, SearchCode, InsertAccount, Proceed, Goto, IInv, TypeOK, Creating
<1>6. label = "commit" => account[cmd[r].code] = None /\ ~CodeInFlight(r)
  BY <1>1, <1>2, <1>3
     DEF CheckLedger, SearchCode, InsertAccount, Proceed, Goto, IInv, TypeOK
<1>7. Ready(r)'
  BY <1>1, <1>3, <1>4, <1>5, <1>6
     DEF Ready, RightCommand, Creating, Importing, Inserting, Reconciling, Committing, books
<1>8. Committing(r, "createAccount")' => CodesDiffer'
  BY <1>1, <1>3, <1>6 DEF CodesDiffer, CodeInFlight, HasCode, Committing, IInv
<1>9. ~Inserting(r)'
  BY <1>1, <1>3, <1>4 DEF Inserting, Committing
<1> QED
  BY <1>1, <1>2, <1>7, <1>8, <1>9, PlainStep DEF IInv, TypeOK

\* The ids of an import are distinct.
LEMMA SearchIInv == ASSUME IInv, NEW r \in Request, Search(r) PROVE IInv'
<1>1. pc[r] = "search" /\ UNCHANGED <<cmd, row, lock, books>>
  BY DEF Search
<1>2. PICK label \in {"batch", "rollback"} :
        Goto(r, label) /\ (label = "batch" => IsInjective(cmd[r].ids))
  BY DEF Search, Proceed
<1>3. pc'[r] = label
  BY <1>2 DEF IInv, TypeOK, Goto
<1>4. /\ cmd[r] \in Commands /\ cmd[r].op = "import" /\ cmd'[r] = cmd[r]
      /\ row[r] = 0 /\ row'[r] = 0
  BY <1>1 DEF IInv, RightCommand, Importing
<1>5. (\A op : ~Committing(r, op)') /\ ~Inserting(r)'
  BY <1>3 DEF Inserting, Committing
<1>6. Ready(r)'
  BY <1>2, <1>3, <1>4, <1>5 DEF Ready, RightCommand, Creating, Importing, Reconciling
<1> QED
  BY <1>1, <1>2, <1>5, <1>6, PlainStep DEF IInv, TypeOK

\* The batch is inserted under the unique index on its reference.
LEMMA InsertBatchIInv == ASSUME IInv, NEW r \in Request, InsertBatch(r) PROVE IInv'
<1>1. pc[r] = "batch" /\ ~BatchInFlight(r) /\ UNCHANGED <<cmd, row, lock, books>>
  BY DEF InsertBatch
<1>2. PICK label \in {"rows", "rollback"} :
        Goto(r, label) /\ (label = "rows" => batch[cmd[r].reference] = None)
  BY DEF InsertBatch, Proceed
<1>3. pc'[r] = label /\ \A s \in Request \ {r} : pc'[s] = pc[s]
  BY <1>2 DEF IInv, TypeOK, Goto
<1>4. /\ cmd[r] \in Commands /\ cmd[r].op = "import" /\ cmd'[r] = cmd[r]
      /\ row[r] = 0 /\ row'[r] = 0 /\ IsInjective(cmd[r].ids)
      /\ 0 < Len(cmd[r].ids)
  BY <1>1, FieldType DEF IInv, RightCommand, Importing
<1>5. \A op : ~Committing(r, op)'
  BY <1>2, <1>3 DEF Committing
<1>6. Ready(r)'
  BY <1>1, <1>2, <1>3, <1>4, <1>5
     DEF Ready, RightCommand, Creating, Importing, Inserting, Reconciling, books
<1>7. Inserting(r)' => ImportsDiffer'
  <2>1. \A s \in Request : s # r /\ Inserting(s)' =>
          Inserting(s) /\ cmd[s].reference # cmd[r].reference
    BY <1>1, <1>3 DEF Inserting, Committing, BatchInFlight, HasReference, IInv, RightCommand
  <2> QED
    BY <1>1, <1>4, <2>1 DEF IInv, ImportsDiffer
<1> QED
  BY <1>1, <1>2, <1>5, <1>6, <1>7, PlainStep DEF IInv, TypeOK

\* The next row is inserted under the unique index on its id.
LEMMA InsertRowIInv == ASSUME IInv, NEW r \in Request, InsertRow(r) PROVE IInv'
<1> DEFINE n == row[r]
           ids == cmd[r].ids
<1>1. /\ pc[r] = "rows" /\ ~RowInFlight(r) /\ UNCHANGED <<cmd, lock, books>>
      /\ row' = [row EXCEPT ![r] = @ + 1]
  BY DEF InsertRow
<1>2. /\ cmd[r] \in Commands /\ cmd[r].op = "import" /\ cmd'[r] = cmd[r]
      /\ n \in Nat /\ n < Len(ids) /\ Len(ids) \in Nat /\ IsInjective(ids)
      /\ batch[cmd[r].reference] = None
      /\ \A i \in 1 .. n : imported[ids[i]] = None
  BY <1>1, FieldType DEF IInv, RightCommand, Importing, Inserting, AreFunctions
<1>3. /\ row'[r] = n + 1 /\ row' \in [Request -> Nat]
      /\ \A s \in Request \ {r} : row'[s] = row[s]
  BY <1>1 DEF IInv, AreFunctions
<1>4. PICK label \in {"rows", "commit", "rollback"} :
        /\ Goto(r, label)
        /\ label # "rollback" => imported[ids[n + 1]] = None
        /\ label = "rows" => n + 1 # Len(ids)
        /\ label = "commit" => n + 1 = Len(ids)
  BY DEF InsertRow, Proceed, NextId, Rows
<1>5. pc'[r] = label /\ \A s \in Request \ {r} : pc'[s] = pc[s]
  BY <1>4 DEF IInv, TypeOK, Goto
<1>6. ~Committing(r, "createAccount")' /\ ~Committing(r, "reconcile")'
  BY <1>2 DEF Committing
<1>7. Importing(r)'
  <2>1. label = "rows" => n + 1 < Len(ids)
    BY <1>2, <1>4
  <2>2. label # "rollback" => \A i \in 1 .. n + 1 : imported[ids[i]] = None
    BY <1>2, <1>4
  <2> QED
    BY <1>1, <1>2, <1>3, <1>4, <1>5, <2>1, <2>2 DEF Importing, Inserting, Committing, books
<1>8. Ready(r)'
  BY <1>1, <1>2, <1>4, <1>5, <1>6, <1>7 DEF Ready, RightCommand, Creating, Reconciling
<1>9. Inserting(r)' => ImportsDiffer'
  <2>1. ASSUME NEW s \in Request, s # r, Inserting(s)'
        PROVE  /\ Inserting(s) /\ row'[s] = row[s] /\ cmd'[s] = cmd[s]
               /\ cmd[s].reference # cmd[r].reference
               /\ \A j \in 1 .. row[s] : ids[n + 1] # cmd[s].ids[j]
               /\ \A i \in 1 .. n, j \in 1 .. row[s] :
                    ids[i] # cmd[s].ids[j]
    <3>1. Inserting(s) /\ row'[s] = row[s] /\ cmd'[s] = cmd[s]
      BY <1>1, <1>3, <1>5, <2>1 DEF Inserting, Committing
    <3>2. Inserting(r)
      BY <1>1 DEF Inserting
    <3>3. \A j \in 1 .. row[s] : ids[n + 1] # cmd[s].ids[j]
      BY <1>1, <2>1, <3>1
         DEF RowInFlight, NextId, Rows, Inserted, Inserting, Committing, IInv, RightCommand
    <3> QED
      BY <2>1, <3>1, <3>2, <3>3 DEF IInv, ImportsDiffer
  <2>2. ASSUME NEW s \in Request, s # r, Inserting(s)'
        PROVE  /\ cmd'[s].reference # cmd'[r].reference
               /\ \A i \in 1 .. row'[r], j \in 1 .. row'[s] : cmd'[r].ids[i] # cmd'[s].ids[j]
    <3>1. row'[s] = row[s] /\ cmd'[s] = cmd[s] /\ cmd[s].reference # cmd[r].reference
      BY <2>1, <2>2
    <3>2. /\ \A j \in 1 .. row[s] : ids[n + 1] # cmd[s].ids[j]
          /\ \A i \in 1 .. n, j \in 1 .. row[s] : ids[i] # cmd[s].ids[j]
      BY <2>1, <2>2
    <3>3. cmd'[r].reference = cmd[r].reference /\ cmd'[r].ids = ids /\ row'[r] = n + 1
      BY <1>2, <1>3
    <3>4. \A i \in 1 .. n + 1 : i \in 1 .. n \/ i = n + 1
      BY <1>2
    <3>5. \A i \in 1 .. n + 1, j \in 1 .. row[s] : ids[i] # cmd[s].ids[j]
      BY <3>2, <3>4
    <3> QED
      BY <3>1, <3>3, <3>5
  <2>3. \A s, u \in Request : s # r /\ u # r /\ Inserting(s)' /\ Inserting(u)' /\ s # u =>
          /\ cmd'[s].reference # cmd'[u].reference
          /\ \A i \in 1 .. row'[s], j \in 1 .. row'[u] : cmd'[s].ids[i] # cmd'[u].ids[j]
    BY <2>1 DEF IInv, ImportsDiffer
  <2> QED
    BY <2>2, <2>3 DEF ImportsDiffer
<1>10. row'[r] \in 0 .. IF cmd'[r].op # "import" THEN 0 ELSE Len(cmd'[r].ids)
  BY <1>2, <1>3
<1>11. /\ cmd' \in [Request -> Commands \cup {None}] /\ lock' \in [Lockable -> Request \cup {None}]
       /\ \A s \in Request \ {r} : cmd'[s] = cmd[s]
  BY <1>1 DEF IInv, AreFunctions, TypeOK
<1> QED
  BY <1>1, <1>3, <1>4, <1>6, <1>8, <1>9, <1>10, <1>11, OwnStep

\* reconcile_transaction: the transaction is locked and unmatched, the payment is
\* locked and posted, and then it is free and agrees with the transaction.
LEMMA ReconcileIInv ==
  ASSUME IInv, NEW r \in Request, LockTransaction(r) \/ LockPayment(r) \/ Match(r)
  PROVE  IInv'
<1> DEFINE t == cmd[r].transaction
           p == cmd[r].payment
<1>1. /\ pc[r] \in {"transaction", "payment", "match"} /\ UNCHANGED <<cmd, row, books>>
  BY DEF LockTransaction, LockPayment, Match
<1>2. /\ cmd[r] \in Commands /\ cmd[r].op = "reconcile" /\ cmd'[r] = cmd[r]
      /\ t \in Transaction /\ p \in Payment /\ imported[t] # None
  BY <1>1, FieldType DEF IInv, RightCommand, Reconciling
<1>3. PICK label \in {"payment", "match", "commit", "rollback"} : Goto(r, label)
  BY DEF LockTransaction, LockPayment, Match, Proceed
<1>4. pc'[r] = label /\ \A s \in Request \ {r} : pc'[s] = pc[s]
  BY <1>3 DEF IInv, TypeOK, Goto
<1>5. /\ lock' \in [Lockable -> Request \cup {None}]
      /\ \A y \in Lockable : lock[y] = r => lock'[y] = r
      /\ \A s \in Request \ {r} : \A y \in Lockable : lock[y] = s => lock'[y] = s
  <2>1. CASE LockTransaction(r)
    BY <1>2, <2>1, TakeLock DEF LockTransaction, Lockable
  <2>2. CASE LockPayment(r)
    BY <1>2, <2>2, TakeLock DEF LockPayment, Lockable
  <2>3. CASE Match(r)
    BY <2>3 DEF Match, IInv, TypeOK
  <2> QED
    BY <2>1, <2>2, <2>3
<1>6. Reconciling(r)'
  <2>1. CASE LockTransaction(r)
    <3>1. pc[r] = "transaction" /\ lock'[t] = r /\ label \in {"payment", "rollback"}
      BY <1>2, <1>4, <2>1, TakeLock
         DEF LockTransaction, Lockable, Proceed, Goto, IInv, TypeOK
    <3>2. label = "payment" => match[t] = None
      BY <1>4, <2>1 DEF LockTransaction, Proceed, Goto, IInv, TypeOK
    <3> QED
      BY <1>1, <1>2, <1>4, <3>1, <3>2 DEF Reconciling, Committing, books
  <2>2. CASE LockPayment(r)
    <3>1. pc[r] = "payment" /\ lock'[p] = r /\ label \in {"match", "rollback"}
      BY <1>2, <1>4, <2>2, TakeLock
         DEF LockPayment, Lockable, Proceed, Goto, IInv, TypeOK
    <3>2. label = "match" => p \in posted
      BY <1>4, <2>2 DEF LockPayment, Proceed, Goto, IInv, TypeOK
    <3>3. lock[t] = r /\ match[t] = None
      BY <3>1 DEF IInv, Reconciling
    <3> QED
      BY <1>1, <1>2, <1>4, <1>5, <3>1, <3>2, <3>3
         DEF Reconciling, Committing, books, Lockable
  <2>3. CASE Match(r)
    <3>1. pc[r] = "match" /\ lock' = lock /\ label \in {"commit", "rollback"}
      BY <1>4, <2>3 DEF Match, Proceed, Goto, IInv, TypeOK
    <3>2. label = "commit" => ~Taken(p) /\ <<t, p>> \in Agree
      BY <1>4, <2>3 DEF Match, Proceed, Goto, IInv, TypeOK
    <3>3. lock[t] = r /\ match[t] = None /\ lock[p] = r /\ p \in posted
      BY <3>1 DEF IInv, Reconciling
    <3> QED
      BY <1>1, <1>2, <1>4, <3>1, <3>2, <3>3 DEF Reconciling, Committing, Taken, books
  <2> QED
    BY <2>1, <2>2, <2>3
<1>7. ~Committing(r, "createAccount")' /\ ~Committing(r, "import")' /\ ~Inserting(r)'
  BY <1>2, <1>3, <1>4 DEF Committing, Inserting
<1>8. Ready(r)'
  BY <1>2, <1>3, <1>4, <1>6, <1>7 DEF Ready, RightCommand, Creating, Importing
<1> QED
  BY <1>1, <1>3, <1>5, <1>7, <1>8, PlainStep

\* post_payment locks the draft.
LEMMA LockDraftIInv == ASSUME IInv, NEW r \in Request, LockDraft(r) PROVE IInv'
<1>1. pc[r] = "draft" /\ UNCHANGED <<cmd, row, books>>
  BY DEF LockDraft
<1>2. /\ cmd[r] \in Commands /\ cmd[r].op = "postPayment" /\ cmd'[r] = cmd[r]
      /\ cmd[r].payment \in Lockable
  BY <1>1, FieldType DEF IInv, RightCommand, Lockable
<1>3. PICK label \in {"commit", "rollback"} : Goto(r, label)
  BY DEF LockDraft, Proceed
<1>4. pc'[r] = label
  BY <1>3 DEF IInv, TypeOK, Goto
<1>5. /\ lock' \in [Lockable -> Request \cup {None}]
      /\ \A s \in Request \ {r} : \A y \in Lockable : lock[y] = s => lock'[y] = s
  BY <1>2, TakeLock DEF LockDraft
<1>6. /\ ~Committing(r, "createAccount")' /\ ~Committing(r, "import")'
      /\ ~Committing(r, "reconcile")' /\ ~Inserting(r)'
  BY <1>2, <1>3, <1>4 DEF Committing, Inserting
<1>7. Ready(r)'
  BY <1>2, <1>3, <1>4, <1>6 DEF Ready, RightCommand, Creating, Importing, Reconciling
<1> QED
  BY <1>1, <1>3, <1>5, <1>6, <1>7, PlainStep

\* The end of r's transaction releases its locks and leaves the others alone.
LEMMA FinishStep ==
  ASSUME IInv, NEW r \in Request, NEW label \in Terminal, pc[r] # "idle", Finish(r, label)
  PROVE  /\ pc'[r] = label /\ UNCHANGED <<cmd, row>>
         /\ \A s \in Request \ {r} : pc'[s] = pc[s]
         /\ lock' \in [Lockable -> Request \cup {None}]
         /\ \A s \in Request \ {r} : \A x \in Lockable : lock[x] = s => lock'[x] = s
         /\ (\A op : ~Committing(r, op)') /\ ~Inserting(r)' /\ Ready(r)'
<1>1. /\ pc'[r] = label /\ UNCHANGED <<cmd, row>> /\ label \in {"done", "failed"}
      /\ \A s \in Request \ {r} : pc'[s] = pc[s]
  BY DEF Finish, Goto, IInv, TypeOK, Terminal
<1>2. lock' \in [Lockable -> Request \cup {None}]
  BY DEF Finish, IInv, TypeOK
<1>3. \A s \in Request \ {r} : \A x \in Lockable : lock[x] = s => lock'[x] = s
  BY DEF Finish
<1>4. (\A op : ~Committing(r, op)') /\ ~Inserting(r)'
  BY <1>1 DEF Committing, Inserting
<1>5. Ready(r)'
  BY <1>1, <1>4 DEF IInv, Ready, RightCommand, Creating, Importing, Reconciling
<1> QED
  BY <1>1, <1>2, <1>3, <1>4, <1>5

\* A transaction that is rolled back, refused, or ended by the database.
LEMMA UndoIInv == ASSUME IInv, NEW r \in Request, pc[r] # "idle", Undo(r) PROVE IInv'
<1>1. Finish(r, "failed") /\ UNCHANGED books /\ Goto(r, "failed") /\ "failed" \in Terminal
  BY DEF Undo, Finish, Terminal
<1> QED
  BY <1>1, FinishStep, PlainStep

\* After a commit it suffices to look at the books and at the other requests.
LEMMA CommitStep ==
  ASSUME IInv, NEW r \in Request, Commit(r),
         account' \in [Code -> Usable \cup {None}],
         batch' \in [Reference -> Seq(Transaction) \cup {None}],
         imported' \in [Transaction -> Reference \cup {None}],
         match' \in [Transaction -> Payment \cup {None}],
         posted' \subseteq Payment,
         BatchesAreWhole', MatchedOnce', MatchesAgree',
         \A s \in Request \ {r} : Ready(s)'
  PROVE  IInv'
<1>1. pc[r] = "commit" /\ Finish(r, "done") /\ "done" \in Terminal
  BY DEF Commit, Terminal
<1>2. /\ pc'[r] = "done" /\ UNCHANGED <<cmd, row>>
      /\ \A s \in Request \ {r} : pc'[s] = pc[s]
      /\ lock' \in [Lockable -> Request \cup {None}]
      /\ (\A op : ~Committing(r, op)') /\ ~Inserting(r)' /\ Ready(r)'
  BY <1>1, FinishStep
<1>3. TypeOK'
  <2>1. pc' \in [Request -> {"idle", "ledger", "code", "account", "search", "batch", "rows",
                             "transaction", "payment", "match", "draft", "commit", "rollback"}
                              \cup Terminal]
    BY <1>1 DEF IInv, TypeOK, Finish, Goto
  <2>2. ASSUME NEW s \in Request
        PROVE  row'[s] \in 0 .. IF pc'[s] = "idle" \/ cmd'[s].op # "import"
                                THEN 0 ELSE Len(cmd'[s].ids)
    BY <1>1, <1>2 DEF IInv, TypeOK
  <2> QED
    BY <1>2, <2>1, <2>2 DEF IInv, TypeOK
<1>4. AreFunctions'
  BY <1>2 DEF IInv, AreFunctions
<1>5. \A s \in Request \ {r} : /\ \A op : Committing(s, op)' = Committing(s, op)
                               /\ Inserting(s)' = Inserting(s)
  BY <1>2 DEF Committing, Inserting
<1>6. CodesDiffer'
  BY <1>2, <1>5 DEF IInv, CodesDiffer
<1>7. ImportsDiffer'
  BY <1>2, <1>5 DEF IInv, ImportsDiffer
<1> QED
  BY <1>2, <1>3, <1>4, <1>6, <1>7 DEF IInv, Ready

\* What other requests have checked of what r's commit leaves alone.
LEMMA OthersKeep ==
  ASSUME IInv, NEW r \in Request, Commit(r), NEW s \in Request, s # r
  PROVE  /\ Ready(s) /\ pc'[s] = pc[s] /\ cmd'[s] = cmd[s] /\ row'[s] = row[s]
         /\ \A x \in Lockable : lock[x] = s => lock'[x] = s
         /\ (\A op : Committing(s, op)' = Committing(s, op)) /\ Inserting(s)' = Inserting(s)
         /\ RightCommand(s)'
         /\ UNCHANGED account => Creating(s)'
         /\ UNCHANGED <<batch, imported>> => Importing(s)'
         /\ UNCHANGED <<imported, match, posted>> => Reconciling(s)'
<1>1. pc[r] = "commit" /\ Finish(r, "done") /\ "done" \in Terminal
  BY DEF Commit, Terminal
<1>2. /\ Ready(s) /\ pc'[s] = pc[s] /\ cmd'[s] = cmd[s] /\ row'[s] = row[s]
      /\ \A x \in Lockable : lock[x] = s => lock'[x] = s
  BY <1>1, FinishStep DEF IInv, Ready
<1>3. (\A op : Committing(s, op)' = Committing(s, op)) /\ Inserting(s)' = Inserting(s)
  BY <1>2 DEF Committing, Inserting
<1>4. RightCommand(s)'
  BY <1>2 DEF Ready, RightCommand
<1>5. UNCHANGED account => Creating(s)'
  BY <1>2, <1>3 DEF Ready, Creating
<1>6. UNCHANGED <<batch, imported>> => Importing(s)'
  BY <1>2, <1>3 DEF Ready, Importing
<1>7. UNCHANGED <<imported, match, posted>> => Reconciling(s)'
  <2>1. pc[s] # "idle" /\ cmd[s].op = "reconcile" =>
          cmd[s].transaction \in Lockable /\ cmd[s].payment \in Lockable
    BY <1>2, FieldType DEF Ready, RightCommand, Lockable
  <2>2. pc[s] \in {"transaction", "payment", "match"} => cmd[s].op = "reconcile"
    BY <1>2 DEF Ready, RightCommand
  <2> QED
    BY <1>2, <1>3, <2>1, <2>2 DEF Ready, Reconciling, Committing
<1> QED
  BY <1>2, <1>3, <1>4, <1>5, <1>6, <1>7

\* What is being committed.
LEMMA CommitCases ==
  ASSUME IInv, NEW r \in Request, Commit(r)
  PROVE  /\ pc[r] = "commit" /\ cmd[r] \in Commands
         /\ \/ Committing(r, "createAccount") /\ CommitAccount(r)
            \/ Committing(r, "import") /\ CommitImport(r)
            \/ Committing(r, "reconcile") /\ CommitMatch(r)
            \/ Committing(r, "postPayment") /\ CommitPosting(r)
BY DEF IInv, RightCommand, Commit, Committing, CommitAccount, CommitImport, CommitMatch,
       CommitPosting

\* A bank account is created with a code that nobody else has or inserts.
LEMMA CommitAccountIInv ==
  ASSUME IInv, NEW r \in Request, Commit(r), Committing(r, "createAccount"), CommitAccount(r)
  PROVE  IInv' /\ account[cmd[r].code] = None
<1>1. /\ cmd[r].code \in Code /\ cmd[r].ledger \in Usable /\ account[cmd[r].code] = None
  BY CommitCases, FieldType DEF IInv, Creating, Committing
<1>2. account' = [account EXCEPT ![cmd[r].code] = cmd[r].ledger]
      /\ UNCHANGED <<batch, imported, match, posted>>
  BY DEF CommitAccount
<1>3. ASSUME NEW s \in Request, s # r PROVE Ready(s)'
  <2>1. Committing(s, "createAccount") => /\ cmd[s].code # cmd[r].code /\ cmd[s].code \in Code
                                          /\ account[cmd[s].code] = None
    BY <1>3, FieldType DEF IInv, CodesDiffer, Creating, RightCommand, Committing
  <2>2. Creating(s)'
    BY <1>2, <1>3, <2>1, OthersKeep DEF Creating, IInv
  <2> QED
    BY <1>2, <1>3, <2>2, OthersKeep DEF Ready
<1>4. BatchesAreWhole' /\ MatchedOnce' /\ MatchesAgree'
  BY <1>2 DEF IInv, BatchesAreWhole, MatchedOnce, MatchesAgree
<1>5. /\ account' \in [Code -> Usable \cup {None}]
      /\ batch' \in [Reference -> Seq(Transaction) \cup {None}]
      /\ imported' \in [Transaction -> Reference \cup {None}]
      /\ match' \in [Transaction -> Payment \cup {None}] /\ posted' \subseteq Payment
  BY <1>1, <1>2 DEF IInv, TypeOK, AreFunctions
<1> QED
  BY <1>1, <1>3, <1>4, <1>5, CommitStep

\* A batch is committed with all its rows, which nobody else has.
LEMMA CommitImportIInv ==
  ASSUME IInv, NEW r \in Request, Commit(r), Committing(r, "import"), CommitImport(r)
  PROVE  IInv'
<1> DEFINE ref == cmd[r].reference
           ids == cmd[r].ids
<1>1. /\ ref \in Reference /\ ids \in Seq(Transaction) /\ row[r] = Len(ids)
      /\ batch[ref] = None /\ \A i \in 1 .. Len(ids) : imported[ids[i]] = None
  BY CommitCases, FieldType DEF IInv, Importing, Inserting, Committing
<1>2. Inserted(r) = ToSet(ids) /\ ToSet(ids) = {ids[i] : i \in 1 .. Len(ids)}
  <2>1. DOMAIN ids = 1 .. Len(ids)
    BY <1>1, LenProperties
  <2> QED
    BY <1>1, <2>1 DEF Inserted, Rows, Committing, ToSet
<1>3. /\ batch' = [batch EXCEPT ![ref] = ids]
      /\ imported' = [x \in Transaction |-> IF x \in ToSet(ids) THEN ref ELSE imported[x]]
      /\ UNCHANGED <<account, match, posted>>
  BY <1>2 DEF CommitImport
<1>4. \A x \in Transaction : x \in ToSet(ids) => imported[x] = None
  BY <1>1, <1>2
<1>5. ToSet(ids) \subseteq Transaction
  BY <1>1, <1>2, ElementOfSeq
<1>6. ref # None /\ ids # None
  BY <1>1, NoneAssumption
<1>7. BatchesAreWhole'
  <2>1. ASSUME NEW b \in Reference
        PROVE  {t \in Transaction : imported'[t] = b} =
                 IF batch'[b] = None THEN {} ELSE ToSet(batch'[b])
    <3>1. {t \in Transaction : imported[t] = b} = IF batch[b] = None THEN {} ELSE ToSet(batch[b])
      BY DEF IInv, BatchesAreWhole
    <3>2. b # None
      BY NoneAssumption
    <3>3. CASE b = ref
      <4>1. batch'[b] = ids
        BY <1>3, <3>3 DEF IInv, AreFunctions
      <4>2. {t \in Transaction : imported[t] = b} = {}
        BY <1>1, <3>1, <3>3
      <4> QED
        BY <1>3, <1>5, <1>6, <3>3, <4>1, <4>2
    <3>4. CASE b # ref
      <4>1. batch'[b] = batch[b]
        BY <1>3, <3>4 DEF IInv, AreFunctions
      <4>2. \A t \in Transaction : imported'[t] = b <=> imported[t] = b
        BY <1>3, <1>4, <3>2, <3>4
      <4> QED
        BY <3>1, <4>1, <4>2
    <3> QED
      BY <3>3, <3>4
  <2> QED
    BY <2>1 DEF BatchesAreWhole
<1>8. \A x \in Transaction : imported[x] # None => imported'[x] = imported[x]
  BY <1>3, <1>4
<1>9. MatchedOnce' /\ MatchesAgree'
  <2>1. MatchedOnce'
    BY <1>3 DEF IInv, MatchedOnce
  <2>2. MatchesAgree'
    BY <1>3, <1>8 DEF IInv, MatchesAgree
  <2> QED
    BY <2>1, <2>2
<1>10. ASSUME NEW s \in Request, s # r PROVE Ready(s)'
  <2>1. Importing(s)'
    <3>1. ASSUME Inserting(s)
          PROVE  /\ cmd[s] \in Commands /\ cmd[s].op = "import"
                 /\ row[s] \in Nat /\ row[s] <= Len(cmd[s].ids)
      BY <3>1, FieldType
         DEF IInv, RightCommand, Importing, Inserting, Committing, AreFunctions
    <3>2. ASSUME Inserting(s)
          PROVE  /\ batch'[cmd[s].reference] = None
                 /\ \A i \in 1 .. row[s] : imported'[cmd[s].ids[i]] = None
      <4>1. Inserting(r)
        BY DEF Inserting
      <4>2. /\ cmd[s].reference # ref
            /\ \A i \in 1 .. row[s] : cmd[s].ids[i] \notin ToSet(ids)
        BY <1>1, <1>2, <1>10, <3>2, <4>1 DEF IInv, ImportsDiffer
      <4>3. \A i \in 1 .. row[s] : cmd[s].ids[i] \in Transaction
        BY <3>1, <3>2, IdType, FieldType
      <4>4. cmd[s].reference \in Reference
        BY <3>1, <3>2, FieldType
      <4> QED
        BY <1>3, <3>2, <4>2, <4>3, <4>4 DEF IInv, Importing, AreFunctions
    <3> QED
      BY <1>10, <3>2, OthersKeep DEF IInv, Importing
  <2>2. Reconciling(s)'
    <3>1. pc[s] \in {"transaction", "payment", "match"} \/ Committing(s, "reconcile") =>
            /\ cmd[s].transaction \in Transaction /\ cmd[s].transaction \in Lockable
            /\ cmd[s].payment \in Lockable
      BY FieldType DEF IInv, RightCommand, Committing, Lockable
    <3> QED
      BY <1>3, <1>8, <1>10, <3>1, OthersKeep DEF IInv, Reconciling
  <2> QED
    BY <1>3, <1>10, <2>1, <2>2, OthersKeep DEF Ready
<1>11. /\ account' \in [Code -> Usable \cup {None}]
       /\ batch' \in [Reference -> Seq(Transaction) \cup {None}]
       /\ imported' \in [Transaction -> Reference \cup {None}]
       /\ match' \in [Transaction -> Payment \cup {None}] /\ posted' \subseteq Payment
  BY <1>1, <1>3 DEF IInv, TypeOK, AreFunctions
<1> QED
  BY <1>7, <1>9, <1>10, <1>11, CommitStep

\* A match is committed while nobody else has the transaction or the payment.
LEMMA CommitMatchIInv ==
  ASSUME IInv, NEW r \in Request, Commit(r), Committing(r, "reconcile"), CommitMatch(r)
  PROVE  IInv' /\ match[cmd[r].transaction] = None
<1> DEFINE t == cmd[r].transaction
           p == cmd[r].payment
<1>1. /\ t \in Transaction /\ p \in Payment /\ imported[t] # None
      /\ lock[t] = r /\ match[t] = None /\ lock[p] = r /\ p \in posted
      /\ <<t, p>> \in Agree /\ \A u \in Transaction : match[u] # p
  BY CommitCases, FieldType DEF IInv, Reconciling, Committing
<1>2. match' = [match EXCEPT ![t] = p] /\ UNCHANGED <<account, batch, imported, posted>>
  BY DEF CommitMatch
<1>3. /\ match' \in [Transaction -> Payment \cup {None}] /\ match'[t] = p
      /\ \A u \in Transaction : u # t => match'[u] = match[u]
  BY <1>1, <1>2 DEF IInv, TypeOK
<1>4. MatchedOnce'
  BY <1>1, <1>3 DEF IInv, MatchedOnce
<1>5. MatchesAgree'
  BY <1>1, <1>2, <1>3 DEF IInv, MatchesAgree
<1>6. BatchesAreWhole'
  BY <1>2 DEF IInv, BatchesAreWhole
<1>7. ASSUME NEW s \in Request, s # r PROVE Ready(s)'
  <2>1. Reconciling(s)'
    <3>1. pc[s] \in {"transaction", "payment", "match"} \/ Committing(s, "reconcile") =>
            /\ cmd[s].transaction \in Transaction /\ cmd[s].transaction \in Lockable
            /\ cmd[s].payment \in Payment /\ cmd[s].payment \in Lockable
      BY FieldType DEF IInv, RightCommand, Committing, Lockable
    <3>2. pc[s] \in {"payment", "match"} \/ Committing(s, "reconcile") => cmd[s].transaction # t
      BY <1>1, <1>7 DEF IInv, Reconciling
    <3>3. Committing(s, "reconcile") => cmd[s].payment # p
      BY <1>1, <1>7 DEF IInv, Reconciling
    <3> QED
      BY <1>2, <1>3, <1>7, <3>1, <3>2, <3>3, OthersKeep DEF IInv, Reconciling
  <2> QED
    BY <1>2, <1>7, <2>1, OthersKeep DEF Ready
<1>8. /\ account' \in [Code -> Usable \cup {None}]
      /\ batch' \in [Reference -> Seq(Transaction) \cup {None}]
      /\ imported' \in [Transaction -> Reference \cup {None}] /\ posted' \subseteq Payment
  BY <1>2 DEF IInv, TypeOK, AreFunctions
<1> QED
  BY <1>1, <1>3, <1>4, <1>5, <1>6, <1>7, <1>8, CommitStep

\* A posting adds a payment to those that can be matched.
LEMMA CommitPostingIInv ==
  ASSUME IInv, NEW r \in Request, Commit(r), Committing(r, "postPayment"), CommitPosting(r)
  PROVE  IInv'
<1>1. cmd[r].payment \in Payment
  BY CommitCases, FieldType DEF Committing
<1>2. posted' = posted \cup {cmd[r].payment} /\ UNCHANGED <<account, batch, imported, match>>
  BY DEF CommitPosting
<1>3. BatchesAreWhole' /\ MatchedOnce' /\ MatchesAgree'
  BY <1>2 DEF IInv, BatchesAreWhole, MatchedOnce, MatchesAgree
<1>4. ASSUME NEW s \in Request, s # r PROVE Ready(s)'
  <2>1. pc[s] \in {"transaction", "payment", "match"} \/ Committing(s, "reconcile") =>
          cmd[s].transaction \in Lockable /\ cmd[s].payment \in Lockable
    BY FieldType DEF IInv, RightCommand, Committing, Lockable
  <2>2. Reconciling(s)'
    BY <1>2, <1>4, <2>1, OthersKeep DEF IInv, Reconciling
  <2> QED
    BY <1>2, <1>4, <2>2, OthersKeep DEF Ready
<1>5. /\ account' \in [Code -> Usable \cup {None}]
      /\ batch' \in [Reference -> Seq(Transaction) \cup {None}]
      /\ imported' \in [Transaction -> Reference \cup {None}]
      /\ match' \in [Transaction -> Payment \cup {None}] /\ posted' \subseteq Payment
  BY <1>1, <1>2 DEF IInv, TypeOK, AreFunctions
<1> QED
  BY <1>3, <1>4, <1>5, CommitStep

\* The step relation, one action at a time.
LEMMA StepIInv == IInv /\ [Next]_vars => IInv'
<1> SUFFICES ASSUME IInv, [Next]_vars PROVE IInv'
  OBVIOUS
<1>1. CASE UNCHANGED vars
  <2>1. \A r \in Request : Ready(r)'
    BY <1>1, OthersReady DEF IInv, Ready, vars
  <2> QED
    BY <1>1, <2>1 DEF IInv, Ready, TypeOK, AreFunctions, CodesDiffer, ImportsDiffer, BatchesAreWhole,
                      MatchedOnce, MatchesAgree, Committing, Inserting, vars, books
<1>2. ASSUME NEW r \in Request, Begin(r) PROVE IInv'
  BY <1>2, BeginIInv
<1>3. ASSUME NEW r \in Request, Step(r) PROVE IInv'
  <2>1. CASE CheckLedger(r) \/ SearchCode(r) \/ InsertAccount(r)
    BY <2>1, CreateIInv
  <2>2. CASE Search(r) \/ InsertBatch(r) \/ InsertRow(r)
    BY <2>2, SearchIInv, InsertBatchIInv, InsertRowIInv
  <2>3. CASE LockTransaction(r) \/ LockPayment(r) \/ Match(r) \/ LockDraft(r)
    BY <2>3, ReconcileIInv, LockDraftIInv
  <2>4. CASE Commit(r)
    BY <2>4, CommitCases, CommitAccountIInv, CommitImportIInv, CommitMatchIInv,
       CommitPostingIInv
  <2>5. CASE Rollback(r)
    BY <2>5, UndoIInv DEF Rollback
  <2> QED
    BY <1>3, <2>1, <2>2, <2>3, <2>4, <2>5 DEF Step
<1>4. ASSUME NEW r \in Request, Refuse(r) PROVE IInv'
  BY <1>4, UndoIInv DEF Refuse, Active, Terminal
<1>5. ASSUME NEW r \in Request, Timeout(r) PROVE IInv'
  BY <1>5, UndoIInv DEF Timeout, Waiting, WaitsFor
<1> QED
  BY <1>1, <1>2, <1>3, <1>4, <1>5 DEF Next

\* IInv is an invariant of banking.
THEOREM Inductive == Spec => []IInv
<1> QED
  BY InitIInv, StepIInv, PTL DEF Spec

-----------------------------------------------------------------------------
\* Every variable keeps its type; no import inserts more rows than it has.
THEOREM Typed == Spec => []TypeOK
<1>1. IInv => TypeOK
  BY DEF IInv
<1> QED
  BY <1>1, Inductive, PTL

\* A committed batch has exactly the transactions of its import
\* (import_transactions inserts them one by one, under the unique indexes).
THEOREM WholeBatches == Spec => []BatchesAreWhole
<1>1. IInv => BatchesAreWhole
  BY DEF IInv
<1> QED
  BY <1>1, Inductive, PTL

\* A payment is matched with one transaction at most (reconcile_transaction
\* looks for other matches while it holds the payment's lock).
THEOREM SingleMatches == Spec => []MatchedOnce
<1>1. IInv => MatchedOnce
  BY DEF IInv
<1> QED
  BY <1>1, Inductive, PTL

\* What is matched is imported, posted and agrees.
THEOREM AgreeingMatches == Spec => []MatchesAgree
<1>1. IInv => MatchesAgree
  BY DEF IInv
<1> QED
  BY <1>1, Inductive, PTL

\* Matches and ledger accounts, once committed, are never replaced.
THEOREM FinalMatches == Spec => MatchesAreFinal
<1>1. ASSUME IInv, [Next]_vars
      PROVE  /\ \A t \in Transaction : match[t] # None => match'[t] = match[t]
             /\ \A c \in Code : account[c] # None => account'[c] = account[c]
  <2>1. CASE UNCHANGED books
    BY <2>1 DEF books
  <2>2. ASSUME NEW r \in Request, Commit(r)
        PROVE  /\ \A t \in Transaction : match[t] # None => match'[t] = match[t]
               /\ \A c \in Code : account[c] # None => account'[c] = account[c]
    <3>1. CASE Committing(r, "createAccount") /\ CommitAccount(r)
      <4>1. account[cmd[r].code] = None
        BY <1>1, <2>2, <3>1, CommitAccountIInv
      <4> QED
        BY <1>1, <3>1, <4>1 DEF CommitAccount, IInv, TypeOK
    <3>2. CASE Committing(r, "reconcile") /\ CommitMatch(r)
      <4>1. match[cmd[r].transaction] = None
        BY <1>1, <2>2, <3>2, CommitMatchIInv
      <4> QED
        BY <1>1, <3>2, <4>1 DEF CommitMatch, IInv, TypeOK
    <3>3. CASE CommitImport(r) \/ CommitPosting(r)
      BY <3>3 DEF CommitImport, CommitPosting
    <3> QED
      BY <1>1, <2>2, <3>1, <3>2, <3>3, CommitCases
  <2>3. UNCHANGED books \/ \E r \in Request : Commit(r)
    <3>1. ASSUME NEW r \in Request, Begin(r) \/ Step(r) \/ Refuse(r) \/ Timeout(r), ~Commit(r)
          PROVE  UNCHANGED books
      BY <3>1 DEF Begin, Step, Refuse, Timeout, Undo, Rollback, CheckLedger, SearchCode,
                  InsertAccount, Search, InsertBatch, InsertRow, LockTransaction, LockPayment,
                  Match, LockDraft
    <3>2. CASE UNCHANGED vars
      BY <3>2 DEF vars
    <3> QED
      BY <1>1, <3>1, <3>2 DEF Next
  <2> QED
    BY <1>1, <2>1, <2>2, <2>3
<1>2. IInv /\ [Next]_vars =>
        [/\ \A t \in Transaction : match[t] # None => match'[t] = match[t]
         /\ \A c \in Code : account[c] # None => account'[c] = account[c]]_vars
  BY <1>1
<1> QED
  BY <1>2, Inductive, PTL DEF Spec, MatchesAreFinal

=============================================================================
