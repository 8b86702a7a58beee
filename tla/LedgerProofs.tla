---------------------------- MODULE LedgerProofs ----------------------------
(***************************************************************************)
(* Safety of the ledger for every set of requests, accounts, days and      *)
(* commands, and that it implements the indivisible books of Books.        *)
(*                                                                         *)
(* What a request has checked stays true until it commits because of the   *)
(* row locks that it holds: Ready says, for each statement, which locks    *)
(* those are and what has been checked under them.  What concerns          *)
(* reversals is kept apart (Reversing), because it holds only as long as   *)
(* reversals are made by reverse_journal_entry.                            *)
(*                                                                         *)
(* The last section is about the hierarchy of accounts (AccountTree).      *)
(***************************************************************************)
EXTENDS Ledger, Hierarchy, TLAPS

Holds(r, row) == Lock(r, row, "exclusive") \in held
Shares(r, row) == Lock(r, row, "share") \in held

\* No two requests hold a row, unless both share it.
LocksExclude ==
  \A l, m \in held : l.row = m.row /\ l.by # m.by => l.mode = "share" /\ m.mode = "share"

Committing(r, op) == pc[r] = "commit" /\ cmd[r].op = op

\* r has found the period that it posts into.
Targeting(r) == pc[r] \in {"accounts", "source", "reversed", "insert"} \/ Committing(r, "post")

\* The statement that r executes is one of its command.
RightCommand(r) ==
  /\ Active(r) => cmd[r] \in Command
  /\ pc[r] = "organization" => cmd[r].op = "createPeriod"
  /\ pc[r] = "lockPeriod" => cmd[r].op = "lockPeriod"
  /\ pc[r] = "account" => cmd[r].op = "updateAccount"
  /\ pc[r] \in {"period", "accounts", "source", "reversed", "insert"} => cmd[r].op = "post"
  /\ pc[r] = "reversed" => cmd[r].reversalOf # None
  /\ pc[r] \in {"original", "list", "lockOpen"} => cmd[r].op = "reverse"

CreationIsApart(r) ==
  Committing(r, "createPeriod") =>
    /\ Holds(r, Organization)
    /\ \A p \in Period : period[p] # "none" => ~Overlap(p, cmd[r].period)

LockingIsOpen(r) ==
  Committing(r, "lockPeriod") =>
    Holds(r, <<"period", cmd[r].period>>) /\ period[cmd[r].period] = "open"

UpdateIsCurrent(r) ==
  Committing(r, "updateAccount") =>
    /\ Holds(r, <<"account", cmd[r].account>>)
    /\ account[cmd[r].account].version = expected[r]
    /\ cmd[r].field = "is_control" => ~HasPostings(cmd[r].account)

TargetIsOpen(r) ==
  Targeting(r) =>
    /\ target[r] \in Period /\ period[target[r]] = "open"
    /\ Covers(target[r], cmd[r].date)
    /\ Holds(r, <<"period", target[r]>>)

\* The entry that r is about to reverse is there.
OriginalIsPosted(r) == pc[r] \in {"list", "lockOpen"} => cmd[r].entry \in Posted

DraftIsReady(r) ==
  /\ draft[r] # None <=> Committing(r, "post")
  /\ draft[r] # None =>
       /\ draft[r].period = target[r]
       /\ draft[r].date = cmd[r].date
       /\ draft[r].accounts = cmd[r].accounts
       /\ draft[r].source = cmd[r].source
       /\ draft[r].reversalOf = cmd[r].reversalOf
       /\ ~SourceUsed(draft[r].source)
       /\ \A a \in draft[r].accounts : Shares(r, <<"account", a>>)

Ready(r) ==
  /\ RightCommand(r)
  /\ CreationIsApart(r)
  /\ LockingIsOpen(r)
  /\ UpdateIsCurrent(r)
  /\ TargetIsOpen(r)
  /\ OriginalIsPosted(r)
  /\ DraftIsReady(r)

\* Two uncommitted entries never have the same source: the unique index.
DraftsDiffer ==
  \A r, s \in Request :
    draft[r] # None /\ draft[s] # None /\ draft[r].source # None
      /\ draft[r].source = draft[s].source => r = s

EntriesAreDone == \A e \in Posted : pc[e] = "done"

IInv ==
  /\ TypeOK
  /\ LocksExclude
  /\ PeriodsDisjoint
  /\ DraftsDiffer
  /\ EntriesAreDone
  /\ \A r \in Request : Ready(r)

-----------------------------------------------------------------------------
(* Commands, rows and locks.                                               *)

\* The operation of a command determines its fields.
LEMMA CommandType ==
  ASSUME NEW c \in Command
  PROVE  /\ c.op = "post" => c \in PostCommand
         /\ c.op = "reverse" => c \in ReverseCommand
         /\ c.op = "createPeriod" => c \in CreateCommand
         /\ c.op = "lockPeriod" => c \in LockCommand
         /\ c.op = "updateAccount" => c \in UpdateCommand
BY DEF Command, PostCommand, ReverseCommand, CreateCommand, LockCommand, UpdateCommand

\* The fields of a command have their types.
LEMMA FieldType ==
  ASSUME NEW c \in Command
  PROVE  /\ c.op = "post" =>
              /\ c.date \in Date /\ c.accounts \in SUBSET Account
              /\ c.source \in Source \cup {None} /\ c.reversalOf \in Entry \cup {None}
         /\ c.op = "reverse" => c.entry \in Entry
         /\ c.op \in {"createPeriod", "lockPeriod"} => c.period \in Period
         /\ c.op = "updateAccount" =>
              /\ c.account \in Account /\ c.field \in {"is_active", "is_control"}
              /\ c.value \in BOOLEAN
BY CommandType DEF PostCommand, ReverseCommand, CreateCommand, LockCommand, UpdateCommand

\* The fields of an entry have their types, and it is not None.
LEMMA EntryType ==
  ASSUME NEW e \in EntryRow
  PROVE  /\ e # None /\ e.period \in Period /\ e.date \in Date
         /\ e.accounts \in SUBSET Account /\ e.source \in Source \cup {None}
         /\ e.reversalOf \in Entry \cup {None}
BY NoneAssumption DEF EntryRow

\* The days of a period.
LEMMA PeriodType ==
  ASSUME NEW p \in Period
  PROVE  /\ p.first \in Nat /\ p.last \in Nat /\ p.first <= p.last
         /\ p.first \in Date /\ p.last \in Date /\ Overlap(p, p)
<1>1. p.first \in Date /\ p.last \in Date /\ p.first <= p.last
  BY DEF Period
<1> QED
  BY <1>1, DateAssumption DEF Overlap

\* What can be locked are rows.
LEMMA RowType ==
  /\ Organization \in Row
  /\ \A p \in Period : <<"period", p>> \in Row
  /\ \A e \in Entry : <<"entry", e>> \in Row
  /\ \A a \in Account : <<"account", a>> \in Row
BY DEF Row

\* Taking free locks leaves every lock where it is and keeps them exclusive.
LEMMA TakeLocks ==
  ASSUME TypeOK, LocksExclude, NEW r \in Request, NEW rows \in SUBSET Row,
         NEW mode \in {"share", "exclusive"},
         \A row \in rows : Free(r, row, mode),
         held' = held \cup {Lock(r, row, mode) : row \in rows}
  PROVE  /\ LocksExclude'
         /\ held' \subseteq [by : Request, row : Row, mode : {"share", "exclusive"}]
         /\ held \subseteq held'
         /\ \A row \in rows : Lock(r, row, mode) \in held'
<1>1. held \subseteq [by : Request, row : Row, mode : {"share", "exclusive"}]
  BY DEF TypeOK
<1>2. \A row \in rows : /\ Lock(r, row, mode) \in [by : Request, row : Row, mode : {"share", "exclusive"}]
                        /\ Lock(r, row, mode).by = r /\ Lock(r, row, mode).row = row
                        /\ Lock(r, row, mode).mode = mode
  BY DEF Lock
<1>3. \A l \in held' : l \in held \/ \E row \in rows : l = Lock(r, row, mode)
  OBVIOUS
<1>4. ASSUME NEW l \in held', NEW m \in held', l.row = m.row, l.by # m.by
      PROVE  l.mode = "share" /\ m.mode = "share"
  <2>1. CASE l \in held /\ m \in held
    BY <2>1, <1>4 DEF LocksExclude
  <2>2. CASE l \in held /\ m \notin held
    BY <2>2, <1>2, <1>3, <1>4 DEF Free
  <2>3. CASE l \notin held /\ m \in held
    BY <2>3, <1>2, <1>3, <1>4 DEF Free
  <2>4. CASE l \notin held /\ m \notin held
    BY <2>4, <1>2, <1>3, <1>4
  <2> QED
    BY <2>1, <2>2, <2>3, <2>4
<1>5. LocksExclude'
  BY <1>4 DEF LocksExclude
<1> QED
  BY <1>1, <1>2, <1>5

\* The same for SELECT ... FOR UPDATE of one row.
LEMMA TakeLock ==
  ASSUME TypeOK, LocksExclude, NEW r \in Request, NEW row \in Row, Acquire(r, row)
  PROVE  /\ LocksExclude'
         /\ held' \subseteq [by : Request, row : Row, mode : {"share", "exclusive"}]
         /\ held \subseteq held'
         /\ Holds(r, row)'
<1>1. held' = held \cup {Lock(r, x, "exclusive") : x \in {row}}
  BY DEF Acquire
<1>2. \A x \in {row} : Free(r, x, "exclusive")
  BY DEF Acquire
<1>3. {row} \in SUBSET Row
  OBVIOUS
<1> QED
  BY <1>1, <1>2, <1>3, TakeLocks DEF Holds

\* A row that one request holds nobody else holds or shares.
LEMMA Exclusive ==
  ASSUME LocksExclude, NEW r \in Request, NEW s \in Request, NEW row, Holds(r, row),
         Holds(s, row) \/ Shares(s, row)
  PROVE  r = s
BY DEF LocksExclude, Holds, Shares, Lock

-----------------------------------------------------------------------------
(* Every step preserves IInv.                                              *)

\* Initially nothing is in progress.
LEMMA InitIInv == Init => IInv
<1> SUFFICES ASSUME Init PROVE IInv
  OBVIOUS
<1>1. /\ pc \in [Request -> {"done", "idle"}]
      /\ cmd \in [Request -> Command \cup {None}]
      /\ expected \in [Request -> Nat]
      /\ target \in [Request -> Period \cup {None}]
      /\ todo \in [Request -> SUBSET Period]
      /\ draft \in [Request -> EntryRow \cup {None}]
      /\ period \in [Period -> {"none", "open", "locked"}]
  BY DEF Init
<1>2. account \in [Account -> AccountRow]
  BY DEF Init, AccountRow
<1>3. entry \in [Entry -> EntryRow \cup {None}]
  BY EntriesAssumption DEF Init
<1>4. TypeOK
  BY <1>1, <1>2, <1>3 DEF Init, TypeOK, Terminal
<1>5. LocksExclude
  BY DEF Init, LocksExclude
<1>6. PeriodsDisjoint
  BY PeriodsAssumption DEF Init, PeriodsDisjoint
<1>7. DraftsDiffer
  BY DEF Init, DraftsDiffer
<1>8. EntriesAreDone
  BY DEF Init, EntriesAreDone, Posted, Entry
<1>9. ASSUME NEW r \in Request PROVE Ready(r)
  <2>1. pc[r] \in {"done", "idle"} /\ draft[r] = None
    BY DEF Init
  <2>2. ~Active(r) /\ ~Targeting(r) /\ \A op : ~Committing(r, op)
    BY <2>1 DEF Active, Terminal, Targeting, Committing
  <2> QED
    BY <2>1, <2>2 DEF Ready, RightCommand, CreationIsApart, LockingIsOpen, UpdateIsCurrent,
                      TargetIsOpen, OriginalIsPosted, DraftIsReady
<1> QED
  BY <1>4, <1>5, <1>6, <1>7, <1>8, <1>9 DEF IInv

\* What s has checked stays so while the books and its own state do.
LEMMA OthersReady ==
  ASSUME NEW s \in Request, Ready(s),
         pc'[s] = pc[s], cmd'[s] = cmd[s], expected'[s] = expected[s],
         target'[s] = target[s], draft'[s] = draft[s],
         \A l \in held : l.by = s => l \in held',
         UNCHANGED books
  PROVE  Ready(s)'
<1>1. \A row : /\ Holds(s, row) => Holds(s, row)'
               /\ Shares(s, row) => Shares(s, row)'
  BY DEF Holds, Shares, Lock
<1>2. \A op : Committing(s, op)' = Committing(s, op)
  BY DEF Committing
<1>3. Targeting(s)' = Targeting(s) /\ Active(s)' = Active(s)
  BY <1>2 DEF Targeting, Active
<1>4. \A x : SourceUsed(x)' = SourceUsed(x)
  BY DEF books, SourceUsed, Posted
<1>5. \A a : HasPostings(a)' = HasPostings(a)
  BY DEF books, HasPostings, Posted
<1>6. RightCommand(s)'
  BY <1>3 DEF Ready, RightCommand
<1>7. CreationIsApart(s)'
  BY <1>1, <1>2 DEF Ready, CreationIsApart, books
<1>8. LockingIsOpen(s)'
  BY <1>1, <1>2 DEF Ready, LockingIsOpen, books
<1>9. UpdateIsCurrent(s)'
  BY <1>1, <1>2, <1>5 DEF Ready, UpdateIsCurrent, books
<1>10. TargetIsOpen(s)'
  BY <1>1, <1>3 DEF Ready, TargetIsOpen, books
<1>11. OriginalIsPosted(s)'
  BY DEF Ready, OriginalIsPosted, Posted, books
<1>12. DraftIsReady(s)'
  BY <1>1, <1>2, <1>4 DEF Ready, DraftIsReady
<1> QED
  BY <1>6, <1>7, <1>8, <1>9, <1>10, <1>11, <1>12 DEF Ready

\* A step of r before its commit that inserts nothing: it suffices to look at r.
LEMMA OwnStep ==
  ASSUME IInv, NEW r \in Request, NEW label,
         pc[r] # "done", pc[r] # "commit", Goto(r, label),
         \A s \in Request \ {r} :
           cmd'[s] = cmd[s] /\ expected'[s] = expected[s] /\ target'[s] = target[s],
         held \subseteq held', UNCHANGED <<draft, books>>,
         TypeOK', LocksExclude', Ready(r)'
  PROVE  IInv'
<1>1. \A s \in Request : s # r => pc'[s] = pc[s]
  BY DEF IInv, TypeOK, Goto
<1>2. PeriodsDisjoint'
  BY DEF IInv, PeriodsDisjoint, books
<1>3. DraftsDiffer'
  BY DEF IInv, DraftsDiffer
<1>4. EntriesAreDone'
  BY <1>1 DEF IInv, EntriesAreDone, Posted, Entry, books
<1>5. \A s \in Request : s # r => Ready(s)'
  BY <1>1, OthersReady DEF IInv
<1> QED
  BY <1>2, <1>3, <1>4, <1>5 DEF IInv

\* A client sends a command.
LEMMA BeginIInv == ASSUME IInv, NEW r \in Request, Begin(r) PROVE IInv'
<1>1. PICK c \in Commands :
        /\ cmd' = [cmd EXCEPT ![r] = c]
        /\ expected' = IF c.op = "updateAccount"
                       THEN [expected EXCEPT ![r] = account[c.account].version]
                       ELSE expected
  BY DEF Begin
<1>2. c \in Command
  BY CommandsAssumption
<1>3. cmd' \in [Request -> Command \cup {None}] /\ cmd'[r] = c
  BY <1>1, <1>2 DEF IInv, TypeOK
<1>4. expected' \in [Request -> Nat]
  <2>1. c.op = "updateAccount" => account[c.account].version \in Nat
    BY <1>2, FieldType DEF IInv, TypeOK, AccountRow
  <2> QED
    BY <1>1, <2>1 DEF IInv, TypeOK
<1>5. TypeOK'
  BY <1>3, <1>4 DEF IInv, TypeOK, Begin, Goto, books
<1>6. pc'[r] = "claim" /\ pc[r] = "idle" /\ draft'[r] = draft[r]
  BY DEF IInv, TypeOK, Begin, Goto
<1>7. draft[r] = None
  BY <1>6 DEF IInv, Ready, DraftIsReady, Committing
<1>8. Ready(r)'
  BY <1>2, <1>3, <1>6, <1>7
     DEF Ready, RightCommand, CreationIsApart, LockingIsOpen, UpdateIsCurrent, TargetIsOpen,
         OriginalIsPosted, DraftIsReady, Committing, Targeting
<1>9. LocksExclude'
  BY DEF IInv, LocksExclude, Begin
<1>10. \A s \in Request \ {r} :
         cmd'[s] = cmd[s] /\ expected'[s] = expected[s] /\ target'[s] = target[s]
  BY <1>1 DEF IInv, TypeOK, Begin
<1> QED
  BY <1>5, <1>6, <1>8, <1>9, <1>10, OwnStep DEF Begin

\* A step of r that has the right label and, of what Ready says, only its locks
\* and its target to account for.
LEMMA PlainStep ==
  ASSUME IInv, NEW r \in Request, NEW label,
         Active(r), pc[r] # "commit", Goto(r, label),
         UNCHANGED <<cmd, expected, draft, books>>,
         \A s \in Request \ {r} : target'[s] = target[s],
         target' \in [Request -> Period \cup {None}],
         todo' \in [Request -> SUBSET Period],
         held \subseteq held',
         held' \subseteq [by : Request, row : Row, mode : {"share", "exclusive"}],
         LocksExclude',
         label \in {"organization", "lockPeriod", "account", "period", "accounts", "source",
                    "reversed", "insert", "original", "list", "lockOpen", "commit", "rollback"},
         label = "commit" => cmd[r].op # "post",
         RightCommand(r)', CreationIsApart(r)', LockingIsOpen(r)', UpdateIsCurrent(r)',
         TargetIsOpen(r)', OriginalIsPosted(r)'
  PROVE  IInv'
<1>1. TypeOK'
  BY DEF IInv, TypeOK, Goto, books
<1>2. pc'[r] = label
  BY DEF IInv, TypeOK, Goto
<1>3. draft[r] = None
  BY DEF IInv, Ready, DraftIsReady, Committing
<1>4. DraftIsReady(r)'
  BY <1>2, <1>3 DEF DraftIsReady, Committing
<1>5. Ready(r)'
  BY <1>4 DEF Ready
<1>6. pc[r] # "done"
  BY DEF Active, Terminal
<1> QED
  BY <1>1, <1>5, <1>6, OwnStep

\* The claim locks the organization in share mode.
LEMMA ClaimIInv == ASSUME IInv, NEW r \in Request, Claim(r) PROVE IInv'
<1>1. /\ LocksExclude' /\ held \subseteq held'
      /\ held' \subseteq [by : Request, row : Row, mode : {"share", "exclusive"}]
  <2>1. held' = held \cup {Lock(r, x, "share") : x \in {Organization}}
    BY DEF Claim
  <2>2. \A x \in {Organization} : Free(r, x, "share")
    BY DEF Claim
  <2>3. {Organization} \in SUBSET Row
    BY RowType
  <2> QED
    BY <2>1, <2>2, <2>3, TakeLocks DEF IInv
<1>2. Active(r) /\ pc[r] = "claim"
  BY DEF Claim, Active, Terminal
<1>3. cmd[r] \in Command /\ cmd'[r] = cmd[r]
  BY <1>2 DEF IInv, Ready, RightCommand, Claim, local
<1>4. PICK label : /\ Goto(r, label)
                   /\ label = CASE cmd[r].op = "post"          -> "period"
                                [] cmd[r].op = "reverse"       -> "original"
                                [] cmd[r].op = "createPeriod"  -> "organization"
                                [] cmd[r].op = "lockPeriod"    -> "lockPeriod"
                                [] cmd[r].op = "updateAccount" -> "account"
  BY DEF Claim
<1>5. cmd[r].op \in {"post", "reverse", "createPeriod", "lockPeriod", "updateAccount"}
  BY <1>3 DEF Command, PostCommand, ReverseCommand, CreateCommand, LockCommand, UpdateCommand
<1>6. /\ \/ label = "period" /\ cmd[r].op = "post"
         \/ label = "original" /\ cmd[r].op = "reverse"
         \/ label = "organization" /\ cmd[r].op = "createPeriod"
         \/ label = "lockPeriod" /\ cmd[r].op = "lockPeriod"
         \/ label = "account" /\ cmd[r].op = "updateAccount"
      /\ pc'[r] = label
  BY <1>4, <1>5 DEF IInv, TypeOK, Goto
<1>7. RightCommand(r)'
  BY <1>3, <1>6 DEF RightCommand
<1>8. /\ CreationIsApart(r)' /\ LockingIsOpen(r)' /\ UpdateIsCurrent(r)'
      /\ TargetIsOpen(r)' /\ OriginalIsPosted(r)'
  BY <1>6 DEF CreationIsApart, LockingIsOpen, UpdateIsCurrent, TargetIsOpen, OriginalIsPosted,
              Committing, Targeting
<1>9. /\ UNCHANGED <<cmd, expected, target, todo, draft, books>>
      /\ target' \in [Request -> Period \cup {None}] /\ todo' \in [Request -> SUBSET Period]
  BY DEF IInv, TypeOK, Claim, local
<1> QED
  BY <1>1, <1>2, <1>4, <1>6, <1>7, <1>8, <1>9, PlainStep

\* create_period: its check is made under the organization's lock.
LEMMA CreatePeriodIInv == ASSUME IInv, NEW r \in Request, CreatePeriod(r) PROVE IInv'
<1>1. /\ LocksExclude' /\ held \subseteq held' /\ Holds(r, Organization)'
      /\ held' \subseteq [by : Request, row : Row, mode : {"share", "exclusive"}]
  BY RowType, TakeLock DEF CreatePeriod, IInv
<1>2. Active(r) /\ pc[r] = "organization"
  BY DEF CreatePeriod, Active, Terminal
<1>3. cmd[r] \in Command /\ cmd[r].op = "createPeriod"
  BY <1>2 DEF IInv, Ready, RightCommand
<1>4. /\ UNCHANGED <<cmd, expected, target, todo, draft, books>>
      /\ target' \in [Request -> Period \cup {None}] /\ todo' \in [Request -> SUBSET Period]
  BY DEF IInv, TypeOK, CreatePeriod, local
<1>5. PICK label : /\ Goto(r, label) /\ label \in {"commit", "rollback"}
                   /\ label = "commit" => \A p \in Period :
                        period[p] # "none" => ~Overlap(p, cmd[r].period)
  BY DEF CreatePeriod, Proceed
<1>6. pc'[r] = label
  BY <1>5 DEF IInv, TypeOK, Goto
<1>7. CreationIsApart(r)'
  BY <1>1, <1>4, <1>5, <1>6 DEF CreationIsApart, Committing, books
<1>8. /\ RightCommand(r)' /\ LockingIsOpen(r)' /\ UpdateIsCurrent(r)'
      /\ TargetIsOpen(r)' /\ OriginalIsPosted(r)'
  BY <1>3, <1>4, <1>5, <1>6
     DEF RightCommand, LockingIsOpen, UpdateIsCurrent, TargetIsOpen,
         OriginalIsPosted, Committing, Targeting
<1> QED
  BY <1>1, <1>2, <1>3, <1>4, <1>5, <1>7, <1>8, PlainStep

\* lock_period: it locks the row of an open period.
LEMMA LockPeriodIInv == ASSUME IInv, NEW r \in Request, LockPeriod(r) PROVE IInv'
<1>1. Active(r) /\ pc[r] = "lockPeriod"
  BY DEF LockPeriod, Active, Terminal
<1>2. cmd[r] \in Command /\ cmd[r].op = "lockPeriod"
  BY <1>1 DEF IInv, Ready, RightCommand
<1>3. <<"period", cmd[r].period>> \in Row
  BY <1>2, FieldType, RowType
<1>4. /\ LocksExclude' /\ held \subseteq held' /\ Holds(r, <<"period", cmd[r].period>>)'
      /\ held' \subseteq [by : Request, row : Row, mode : {"share", "exclusive"}]
  BY <1>3, TakeLock DEF LockPeriod, IInv, Holds, local
<1>5. /\ UNCHANGED <<cmd, expected, target, todo, draft, books>>
      /\ target' \in [Request -> Period \cup {None}] /\ todo' \in [Request -> SUBSET Period]
  BY DEF IInv, TypeOK, LockPeriod, local
<1>6. PICK label : /\ Goto(r, label) /\ label \in {"commit", "rollback"}
                   /\ label = "commit" => period[cmd[r].period] = "open"
  BY DEF LockPeriod, Proceed
<1>7. pc'[r] = label
  BY <1>6 DEF IInv, TypeOK, Goto
<1>8. LockingIsOpen(r)'
  BY <1>4, <1>5, <1>6, <1>7 DEF LockingIsOpen, Committing, books, Holds
<1>9. /\ RightCommand(r)' /\ CreationIsApart(r)' /\ UpdateIsCurrent(r)'
      /\ TargetIsOpen(r)' /\ OriginalIsPosted(r)'
  BY <1>2, <1>5, <1>6, <1>7
     DEF RightCommand, CreationIsApart, UpdateIsCurrent, TargetIsOpen,
         OriginalIsPosted, Committing, Targeting
<1> QED
  BY <1>1, <1>2, <1>4, <1>5, <1>6, <1>8, <1>9, PlainStep

\* update_account: it compares versions and looks for postings under the lock.
LEMMA UpdateAccountIInv == ASSUME IInv, NEW r \in Request, UpdateAccount(r) PROVE IInv'
<1>1. Active(r) /\ pc[r] = "account"
  BY DEF UpdateAccount, Active, Terminal
<1>2. cmd[r] \in Command /\ cmd[r].op = "updateAccount"
  BY <1>1 DEF IInv, Ready, RightCommand
<1>3. <<"account", cmd[r].account>> \in Row
  BY <1>2, FieldType, RowType
<1>4. /\ LocksExclude' /\ held \subseteq held' /\ Holds(r, <<"account", cmd[r].account>>)'
      /\ held' \subseteq [by : Request, row : Row, mode : {"share", "exclusive"}]
  BY <1>3, TakeLock DEF UpdateAccount, IInv, Holds, local
<1>5. /\ UNCHANGED <<cmd, expected, target, todo, draft, books>>
      /\ target' \in [Request -> Period \cup {None}] /\ todo' \in [Request -> SUBSET Period]
  BY DEF IInv, TypeOK, UpdateAccount, local
<1>6. PICK label : /\ Goto(r, label) /\ label \in {"commit", "rollback"}
                   /\ label = "commit" =>
                        /\ account[cmd[r].account].version = expected[r]
                        /\ cmd[r].field = "is_control" => ~HasPostings(cmd[r].account)
  BY DEF UpdateAccount, Proceed
<1>7. pc'[r] = label
  BY <1>6 DEF IInv, TypeOK, Goto
<1>8. UpdateIsCurrent(r)'
  BY <1>4, <1>5, <1>6, <1>7
     DEF UpdateIsCurrent, Committing, books, Holds, HasPostings, Posted
<1>9. /\ RightCommand(r)' /\ CreationIsApart(r)' /\ LockingIsOpen(r)'
      /\ TargetIsOpen(r)' /\ OriginalIsPosted(r)'
  BY <1>2, <1>5, <1>6, <1>7
     DEF RightCommand, CreationIsApart, LockingIsOpen, TargetIsOpen,
         OriginalIsPosted, Committing, Targeting
<1> QED
  BY <1>1, <1>2, <1>4, <1>5, <1>6, <1>8, <1>9, PlainStep

\* The period that covers the date is locked and found open.
LEMMA FindPeriodIInv == ASSUME IInv, NEW r \in Request, FindPeriod(r) PROVE IInv'
<1>1. Active(r) /\ pc[r] = "period"
  BY DEF FindPeriod, Active, Terminal
<1>2. cmd[r] \in Command /\ cmd[r].op = "post"
  BY <1>1 DEF IInv, Ready, RightCommand
<1>3. /\ UNCHANGED <<cmd, expected, todo, draft, books>>
      /\ todo' \in [Request -> SUBSET Period]
  BY DEF IInv, TypeOK, FindPeriod
<1>4. CASE Goto(r, "rollback") /\ UNCHANGED <<target, held>>
  <2>1. pc'[r] = "rollback"
    BY <1>4 DEF IInv, TypeOK, Goto
  <2>2. /\ LocksExclude' /\ held \subseteq held' /\ target' \in [Request -> Period \cup {None}]
        /\ held' \subseteq [by : Request, row : Row, mode : {"share", "exclusive"}]
    BY <1>4 DEF IInv, TypeOK, LocksExclude
  <2>3. /\ RightCommand(r)' /\ CreationIsApart(r)' /\ LockingIsOpen(r)'
        /\ UpdateIsCurrent(r)' /\ TargetIsOpen(r)' /\ OriginalIsPosted(r)'
    BY <1>2, <1>3, <2>1
       DEF RightCommand, CreationIsApart, LockingIsOpen, UpdateIsCurrent, TargetIsOpen,
           OriginalIsPosted, Committing, Targeting
  <2> QED
    BY <1>1, <1>3, <1>4, <2>2, <2>3, PlainStep
<1>5. CASE \E p \in Period :
             /\ period[p] # "none" /\ Covers(p, cmd[r].date)
             /\ Acquire(r, <<"period", p>>)
             /\ target' = [target EXCEPT ![r] = p]
             /\ Proceed(r, period[p] = "open", "accounts")
  <2>1. PICK p \in Period :
          /\ Covers(p, cmd[r].date)
          /\ Acquire(r, <<"period", p>>)
          /\ target' = [target EXCEPT ![r] = p]
          /\ Proceed(r, period[p] = "open", "accounts")
    BY <1>5
  <2>2. /\ LocksExclude' /\ held \subseteq held' /\ Holds(r, <<"period", p>>)'
        /\ held' \subseteq [by : Request, row : Row, mode : {"share", "exclusive"}]
    BY <2>1, RowType, TakeLock DEF IInv
  <2>3. /\ target' \in [Request -> Period \cup {None}] /\ target'[r] = p
        /\ \A s \in Request \ {r} : target'[s] = target[s]
    BY <2>1 DEF IInv, TypeOK
  <2>4. PICK label : /\ Goto(r, label) /\ label \in {"accounts", "rollback"}
                     /\ label = "accounts" => period[p] = "open"
    BY <2>1 DEF Proceed
  <2>5. pc'[r] = label
    BY <2>4 DEF IInv, TypeOK, Goto
  <2>6. TargetIsOpen(r)'
    BY <1>3, <2>1, <2>2, <2>3, <2>4, <2>5 DEF TargetIsOpen, Targeting, Committing, Holds, books
  <2>7. /\ RightCommand(r)' /\ CreationIsApart(r)' /\ LockingIsOpen(r)'
        /\ UpdateIsCurrent(r)' /\ OriginalIsPosted(r)'
    BY <1>2, <1>3, <2>4, <2>5
       DEF RightCommand, CreationIsApart, LockingIsOpen, UpdateIsCurrent, OriginalIsPosted,
           Committing
  <2> QED
    BY <1>1, <1>3, <2>2, <2>3, <2>4, <2>6, <2>7, PlainStep
<1> QED
  BY <1>4, <1>5 DEF FindPeriod

\* A posting that has its period moves to another statement before its insertion.
LEMMA CheckStep ==
  ASSUME IInv, NEW r \in Request, NEW label,
         pc[r] \in {"accounts", "source", "reversed", "insert"}, Goto(r, label),
         label \in {"source", "reversed", "insert", "rollback"},
         label = "reversed" => cmd[r].reversalOf # None,
         UNCHANGED <<local, books>>,
         held \subseteq held',
         held' \subseteq [by : Request, row : Row, mode : {"share", "exclusive"}],
         LocksExclude'
  PROVE  IInv'
<1>1. Active(r) /\ pc[r] # "commit"
  BY DEF Active, Terminal
<1>2. cmd[r] \in Command /\ cmd[r].op = "post" /\ TargetIsOpen(r) /\ Targeting(r)
  BY <1>1 DEF IInv, Ready, RightCommand, Targeting
<1>3. pc'[r] = label
  BY DEF IInv, TypeOK, Goto
<1>4. TargetIsOpen(r)'
  BY <1>2 DEF TargetIsOpen, local, books, Holds
<1>5. /\ RightCommand(r)' /\ CreationIsApart(r)' /\ LockingIsOpen(r)'
      /\ UpdateIsCurrent(r)' /\ OriginalIsPosted(r)'
  BY <1>2, <1>3 DEF RightCommand, CreationIsApart, LockingIsOpen, UpdateIsCurrent,
                    OriginalIsPosted, Committing, local
<1>6. /\ UNCHANGED <<cmd, expected, target, draft, books>>
      /\ target' \in [Request -> Period \cup {None}] /\ todo' \in [Request -> SUBSET Period]
  BY DEF IInv, TypeOK, local
<1> QED
  BY <1>1, <1>3, <1>4, <1>5, <1>6, PlainStep

\* The accounts are read.
LEMMA ReadAccountsIInv == ASSUME IInv, NEW r \in Request, ReadAccounts(r) PROVE IInv'
<1>1. PICK label \in {"source", "rollback"} : Goto(r, label)
  BY DEF ReadAccounts, Proceed
<1>2. /\ held \subseteq held' /\ LocksExclude'
      /\ held' \subseteq [by : Request, row : Row, mode : {"share", "exclusive"}]
  BY DEF IInv, TypeOK, LocksExclude, ReadAccounts
<1> QED
  BY <1>1, <1>2, CheckStep DEF ReadAccounts

\* The source is looked up.
LEMMA CheckSourceIInv == ASSUME IInv, NEW r \in Request, CheckSource(r) PROVE IInv'
<1>1. PICK label \in {"insert", "reversed", "rollback"} :
        Goto(r, label) /\ (label = "reversed" => cmd[r].reversalOf # None)
  BY DEF CheckSource, Proceed
<1>2. /\ held \subseteq held' /\ LocksExclude'
      /\ held' \subseteq [by : Request, row : Row, mode : {"share", "exclusive"}]
  BY DEF IInv, TypeOK, LocksExclude, CheckSource
<1> QED
  BY <1>1, <1>2, CheckStep DEF CheckSource

\* The entry that the posting says it reverses is locked.
LEMMA LockReversedIInv == ASSUME IInv, NEW r \in Request, LockReversed(r) PROVE IInv'
<1>1. PICK label \in {"insert", "rollback"} : Goto(r, label)
  BY DEF LockReversed, Proceed
<1>2. cmd[r].reversalOf \in Entry
  BY FieldType DEF IInv, Ready, RightCommand, LockReversed, Active, Terminal
<1>3. <<"entry", cmd[r].reversalOf>> \in Row
  BY <1>2, RowType
<1>4. /\ held \subseteq held' /\ LocksExclude'
      /\ held' \subseteq [by : Request, row : Row, mode : {"share", "exclusive"}]
  BY <1>3, TakeLock DEF LockReversed, IInv
<1> QED
  BY <1>1, <1>4, CheckStep DEF LockReversed

\* The entry is inserted under the unique index on its source.
LEMMA InsertIInv == ASSUME IInv, NEW r \in Request, Insert(r) PROVE IInv'
<1>1. Active(r) /\ pc[r] = "insert"
  BY DEF Insert, Active, Terminal
<1>2. cmd[r] \in Command /\ cmd[r].op = "post" /\ TargetIsOpen(r) /\ Targeting(r)
  BY <1>1 DEF IInv, Ready, RightCommand, Targeting
<1>3. UNCHANGED <<cmd, expected, target, todo, books>>
  BY DEF Insert
<1>4. CASE Goto(r, "rollback") /\ UNCHANGED <<draft, held>>
  <2>1. /\ LocksExclude' /\ held \subseteq held'
        /\ held' \subseteq [by : Request, row : Row, mode : {"share", "exclusive"}]
    BY <1>4 DEF IInv, TypeOK, LocksExclude
  <2> QED
    BY <1>1, <1>3, <1>4, <2>1, CheckStep DEF local
<1>5. CASE /\ ~SourceUsed(cmd[r].source)
           /\ \A row \in {<<"account", a>> : a \in cmd[r].accounts} : Free(r, row, "share")
           /\ held' = held \cup {Lock(r, row, "share") :
                                   row \in {<<"account", a>> : a \in cmd[r].accounts}}
           /\ draft' = [draft EXCEPT ![r] =
                          [period |-> target[r], date |-> cmd[r].date,
                           accounts |-> cmd[r].accounts, source |-> cmd[r].source,
                           reversalOf |-> cmd[r].reversalOf]]
           /\ Goto(r, "commit")
  <2> DEFINE rows == {<<"account", a>> : a \in cmd[r].accounts}
             row == [period |-> target[r], date |-> cmd[r].date,
                     accounts |-> cmd[r].accounts, source |-> cmd[r].source,
                     reversalOf |-> cmd[r].reversalOf]
  <2>1. rows \in SUBSET Row
    BY <1>2, FieldType, RowType
  <2>2. /\ LocksExclude' /\ held \subseteq held'
        /\ held' \subseteq [by : Request, row : Row, mode : {"share", "exclusive"}]
        /\ \A x \in rows : Lock(r, x, "share") \in held'
    BY <1>5, <2>1, TakeLocks DEF IInv
  <2>3. row \in EntryRow /\ row # None
    <3>1. row \in EntryRow
      BY <1>2, FieldType DEF EntryRow, TargetIsOpen
    <3> QED
      BY <3>1, EntryType
  <2>4. draft' = [draft EXCEPT ![r] = row]
    BY <1>5
  <2>5. /\ pc'[r] = "commit" /\ draft'[r] = row
        /\ \A s \in Request \ {r} : pc'[s] = pc[s] /\ draft'[s] = draft[s]
    BY <1>5, <2>4 DEF IInv, TypeOK, Goto
  <2>6. TypeOK'
    BY <1>3, <1>5, <2>2, <2>3, <2>4 DEF IInv, TypeOK, Goto, books
  <2>7. EntriesAreDone'
    BY <1>1, <1>3, <2>5 DEF IInv, EntriesAreDone, Posted, Entry, books
  <2>8. DraftsDiffer'
    BY <2>5 DEF Insert, SourceInFlight, Rivals, IInv, DraftsDiffer
  <2>9. PeriodsDisjoint'
    BY <1>3 DEF IInv, PeriodsDisjoint, books
  <2>10. TargetIsOpen(r)'
    BY <1>2, <1>3, <2>2 DEF TargetIsOpen, books, Holds
  <2>11. DraftIsReady(r)'
    <3>1. ~SourceUsed(row.source)'
      BY <1>3, <1>5 DEF SourceUsed, Posted, books
    <3>2. \A a \in row.accounts : Shares(r, <<"account", a>>)'
      BY <2>2 DEF Shares
    <3>3. Committing(r, "post")'
      BY <1>2, <1>3, <2>5 DEF Committing
    <3> QED
      BY <1>3, <2>3, <2>5, <3>1, <3>2, <3>3 DEF DraftIsReady
  <2>12. /\ RightCommand(r)' /\ CreationIsApart(r)' /\ LockingIsOpen(r)'
         /\ UpdateIsCurrent(r)' /\ OriginalIsPosted(r)'
    BY <1>2, <1>3, <2>5 DEF RightCommand, CreationIsApart, LockingIsOpen, UpdateIsCurrent,
                            OriginalIsPosted, Committing
  <2>13. Ready(r)'
    BY <2>10, <2>11, <2>12 DEF Ready
  <2>14. ASSUME NEW s \in Request, s # r PROVE Ready(s)'
    BY <1>3, <2>2, <2>5, <2>14, OthersReady DEF IInv
  <2> QED
    BY <2>2, <2>6, <2>7, <2>8, <2>9, <2>13, <2>14 DEF IInv
<1> QED
  BY <1>4, <1>5 DEF Insert

\* The original is locked and looked at.
LEMMA LockOriginalIInv == ASSUME IInv, NEW r \in Request, LockOriginal(r) PROVE IInv'
<1>1. Active(r) /\ pc[r] = "original"
  BY DEF LockOriginal, Active, Terminal
<1>2. cmd[r] \in Command /\ cmd[r].op = "reverse"
  BY <1>1 DEF IInv, Ready, RightCommand
<1>3. <<"entry", cmd[r].entry>> \in Row
  BY <1>2, FieldType, RowType
<1>4. /\ LocksExclude' /\ held \subseteq held'
      /\ held' \subseteq [by : Request, row : Row, mode : {"share", "exclusive"}]
  BY <1>3, TakeLock DEF LockOriginal, IInv
<1>5. /\ UNCHANGED <<cmd, expected, target, todo, draft, books>>
      /\ target' \in [Request -> Period \cup {None}] /\ todo' \in [Request -> SUBSET Period]
  BY DEF IInv, TypeOK, LockOriginal, local
<1>6. PICK label : /\ Goto(r, label) /\ label \in {"list", "rollback"}
                   /\ label = "list" => cmd[r].entry \in Posted
  BY DEF LockOriginal, Proceed
<1>7. pc'[r] = label
  BY <1>6 DEF IInv, TypeOK, Goto
<1>8. /\ RightCommand(r)' /\ CreationIsApart(r)' /\ LockingIsOpen(r)'
      /\ UpdateIsCurrent(r)' /\ TargetIsOpen(r)' /\ OriginalIsPosted(r)'
  BY <1>2, <1>5, <1>6, <1>7
     DEF RightCommand, CreationIsApart, LockingIsOpen, UpdateIsCurrent, TargetIsOpen,
         OriginalIsPosted, Committing, Targeting, Posted, books
<1> QED
  BY <1>1, <1>4, <1>5, <1>6, <1>8, PlainStep

\* The open periods are listed.
LEMMA ListPeriodsIInv == ASSUME IInv, NEW r \in Request, ListPeriods(r) PROVE IInv'
<1>1. Active(r) /\ pc[r] = "list"
  BY DEF ListPeriods, Active, Terminal
<1>2. cmd[r] \in Command /\ cmd[r].op = "reverse" /\ cmd[r].entry \in Posted
  BY <1>1 DEF IInv, Ready, RightCommand, OriginalIsPosted
<1>3. /\ LocksExclude' /\ held \subseteq held'
      /\ held' \subseteq [by : Request, row : Row, mode : {"share", "exclusive"}]
  BY DEF IInv, TypeOK, LocksExclude, ListPeriods
<1>4. /\ UNCHANGED <<cmd, expected, target, draft, books>>
      /\ target' \in [Request -> Period \cup {None}] /\ todo' \in [Request -> SUBSET Period]
  BY DEF IInv, TypeOK, ListPeriods
<1>5. PICK label \in {"lockOpen", "rollback"} : Goto(r, label)
  BY DEF ListPeriods, Proceed
<1>6. pc'[r] = label
  BY <1>5 DEF IInv, TypeOK, Goto
<1>7. /\ RightCommand(r)' /\ CreationIsApart(r)' /\ LockingIsOpen(r)'
      /\ UpdateIsCurrent(r)' /\ TargetIsOpen(r)' /\ OriginalIsPosted(r)'
  BY <1>2, <1>4, <1>6
     DEF RightCommand, CreationIsApart, LockingIsOpen, UpdateIsCurrent, TargetIsOpen,
         OriginalIsPosted, Committing, Targeting, Posted, books
<1> QED
  BY <1>1, <1>3, <1>4, <1>5, <1>7, PlainStep

\* One of the listed periods is locked.
LEMMA LockOpenIInv == ASSUME IInv, NEW r \in Request, LockOpen(r) PROVE IInv'
<1>1. Active(r) /\ pc[r] = "lockOpen" /\ pc' = pc
  BY DEF LockOpen, Active, Terminal
<1>2. cmd[r] \in Command /\ cmd[r].op = "reverse" /\ cmd[r].entry \in Posted
  BY <1>1 DEF IInv, Ready, RightCommand, OriginalIsPosted
<1>3. PICK p \in todo[r] :
        /\ Acquire(r, <<"period", p>>)
        /\ todo' = [todo EXCEPT ![r] = @ \ {p}]
        /\ target' = [target EXCEPT ![r] = IF @ = None /\ period[p] = "open" THEN p ELSE @]
  BY DEF LockOpen
<1>4. p \in Period
  BY DEF IInv, TypeOK
<1>5. /\ LocksExclude' /\ held \subseteq held'
      /\ held' \subseteq [by : Request, row : Row, mode : {"share", "exclusive"}]
  BY <1>3, <1>4, RowType, TakeLock DEF IInv
<1>6. /\ UNCHANGED <<cmd, expected, draft, books>>
      /\ target' \in [Request -> Period \cup {None}] /\ todo' \in [Request -> SUBSET Period]
      /\ \A s \in Request \ {r} : target'[s] = target[s]
  BY <1>3, <1>4 DEF IInv, TypeOK, LockOpen
<1>7. Goto(r, "lockOpen")
  BY <1>1 DEF IInv, TypeOK, Goto
<1>8. /\ RightCommand(r)' /\ CreationIsApart(r)' /\ LockingIsOpen(r)'
      /\ UpdateIsCurrent(r)' /\ TargetIsOpen(r)' /\ OriginalIsPosted(r)'
  BY <1>1, <1>2, <1>6
     DEF RightCommand, CreationIsApart, LockingIsOpen, UpdateIsCurrent, TargetIsOpen,
         OriginalIsPosted, Committing, Targeting, Posted, books
<1> QED
  BY <1>1, <1>5, <1>6, <1>7, <1>8, PlainStep

\* The command of a reversal becomes a posting.
LEMMA PostReversalIInv == ASSUME IInv, NEW r \in Request, PostReversal(r) PROVE IInv'
<1>1. Active(r) /\ pc[r] = "lockOpen" /\ pc[r] # "done" /\ pc[r] # "commit"
  BY DEF PostReversal, Active, Terminal
<1>2. cmd[r] \in Command /\ cmd[r].op = "reverse" /\ cmd[r].entry \in Posted
  BY <1>1 DEF IInv, Ready, RightCommand, OriginalIsPosted
<1>3. UNCHANGED <<expected, target, todo, draft, held, books>>
  BY DEF PostReversal
<1> DEFINE e == cmd[r].entry
           c == [op |-> "post", date |-> Later(entry[e].date, target[r]),
                 accounts |-> entry[e].accounts,
                 source |-> [type |-> "journal_reversal", id |-> e], reversalOf |-> e]
<1>4. e \in Entry /\ entry[e] \in EntryRow
  BY <1>2, FieldType DEF IInv, TypeOK, Posted
<1>5. PICK label : /\ Goto(r, label)
                   /\ \/ label = "rollback" /\ cmd' = cmd
                      \/ label = "period" /\ cmd' = [cmd EXCEPT ![r] = c] /\ target[r] # None
  BY DEF PostReversal, Proceed
<1>6. target[r] # None => c \in PostCommand
  <2>1. SUFFICES ASSUME target[r] # None PROVE c \in PostCommand
    OBVIOUS
  <2>2. target[r] \in Period
    BY <2>1 DEF IInv, TypeOK
  <2>3. c.date \in Date
    BY <1>4, <2>2, EntryType, PeriodType DEF Later
  <2>4. c.source \in Source
    BY <1>4 DEF Source
  <2>5. c.accounts \in SUBSET Account
    BY <1>4, EntryType
  <2> QED
    BY <1>4, <2>3, <2>4, <2>5 DEF PostCommand
<1>7. /\ cmd' \in [Request -> Command \cup {None}]
      /\ \A s \in Request \ {r} : cmd'[s] = cmd[s]
      /\ label = "period" => cmd'[r] \in Command /\ cmd'[r].op = "post"
      /\ label = "rollback" => cmd'[r] = cmd[r]
  BY <1>5, <1>6 DEF Command, IInv, TypeOK
<1>8. pc'[r] = label
  BY <1>5 DEF IInv, TypeOK, Goto
<1>9. TypeOK'
  BY <1>3, <1>5, <1>7 DEF IInv, TypeOK, Goto, books
<1>10. draft'[r] = None
  BY <1>1, <1>3 DEF IInv, Ready, DraftIsReady, Committing
<1>11. Ready(r)'
  BY <1>2, <1>5, <1>7, <1>8, <1>10
     DEF Ready, RightCommand, CreationIsApart, LockingIsOpen, UpdateIsCurrent, TargetIsOpen,
         OriginalIsPosted, DraftIsReady, Committing, Targeting
<1>12. LocksExclude'
  BY <1>3 DEF IInv, LocksExclude
<1> QED
  BY <1>1, <1>3, <1>5, <1>7, <1>9, <1>11, <1>12, OwnStep

\* The end of r's transaction releases its locks and leaves the others alone.
LEMMA FinishStep ==
  ASSUME IInv, NEW r \in Request, NEW label \in Terminal, Finish(r, label)
  PROVE  /\ pc'[r] = label /\ draft'[r] = None
         /\ \A s \in Request \ {r} : pc'[s] = pc[s] /\ draft'[s] = draft[s]
         /\ UNCHANGED <<cmd, expected, target, todo>>
         /\ \A l \in held : l.by # r => l \in held'
         /\ TypeOK /\ books' = books => TypeOK'
         /\ LocksExclude'
         /\ DraftsDiffer'
         /\ Ready(r)'
<1>1. /\ pc' = [pc EXCEPT ![r] = label] /\ draft' = [draft EXCEPT ![r] = None]
      /\ UNCHANGED <<cmd, expected, target, todo>>
      /\ held' = {l \in held : l.by # r}
  BY DEF Finish, Goto, Release
<1>2. /\ pc'[r] = label /\ draft'[r] = None
      /\ \A s \in Request \ {r} : pc'[s] = pc[s] /\ draft'[s] = draft[s]
  BY <1>1 DEF IInv, TypeOK
<1>3. books' = books => TypeOK'
  BY <1>1 DEF IInv, TypeOK, books
<1>4. LocksExclude'
  BY <1>1 DEF IInv, LocksExclude
<1>5. DraftsDiffer'
  BY <1>2 DEF IInv, DraftsDiffer
<1>6. Ready(r)'
  <2>1. ~Active(r)' /\ ~Targeting(r)' /\ \A op : ~Committing(r, op)'
    BY <1>2 DEF Active, Terminal, Targeting, Committing
  <2>2. pc'[r] \in {"done", "failed"}
    BY <1>2 DEF Terminal
  <2> QED
    BY <1>2, <2>1, <2>2
       DEF Ready, RightCommand, CreationIsApart, LockingIsOpen, UpdateIsCurrent, TargetIsOpen,
           OriginalIsPosted, DraftIsReady
<1> QED
  BY <1>1, <1>2, <1>3, <1>4, <1>5, <1>6

\* The other transactions keep their locks.
LEMMA FinishOthers ==
  ASSUME IInv, NEW r \in Request, NEW label \in Terminal, Finish(r, label),
         NEW s \in Request, s # r
  PROVE  /\ \A op : Committing(s, op)' = Committing(s, op)
         /\ Targeting(s)' = Targeting(s) /\ Active(s)' = Active(s)
         /\ \A row : /\ Holds(s, row) => Holds(s, row)'
                     /\ Shares(s, row) => Shares(s, row)'
<1>1. /\ pc'[s] = pc[s] /\ cmd'[s] = cmd[s]
      /\ \A l \in held : l.by # r => l \in held'
  BY FinishStep
<1> QED
  BY <1>1 DEF Committing, Targeting, Active, Holds, Shares, Lock

\* A transaction that is rolled back, ended by the database or lost.
LEMMA UndoIInv == ASSUME IInv, NEW r \in Request, pc[r] # "done", Undo(r) PROVE IInv'
<1>1. Finish(r, "failed") /\ UNCHANGED books /\ "failed" \in Terminal
  BY DEF Undo, Terminal
<1>2. /\ pc'[r] = "failed" /\ draft'[r] = None
      /\ \A s \in Request \ {r} : pc'[s] = pc[s] /\ draft'[s] = draft[s]
      /\ UNCHANGED <<cmd, expected, target, todo>>
      /\ \A l \in held : l.by # r => l \in held'
      /\ TypeOK' /\ LocksExclude' /\ DraftsDiffer' /\ Ready(r)'
  BY <1>1, FinishStep DEF IInv
<1>3. PeriodsDisjoint'
  BY <1>1 DEF IInv, PeriodsDisjoint, books
<1>4. EntriesAreDone'
  BY <1>1, <1>2 DEF IInv, EntriesAreDone, Posted, Entry, books
<1>5. ASSUME NEW s \in Request, s # r PROVE Ready(s)'
  BY <1>1, <1>2, <1>5, OthersReady DEF IInv
<1> QED
  BY <1>2, <1>3, <1>4, <1>5 DEF IInv

\* The row that r writes.
Updated(r) ==
  [account[cmd[r].account] EXCEPT ![cmd[r].field] = cmd[r].value, !.version = @ + 1]

\* A row of an account stays one when a flag is set and its version counted up.
LEMMA UpdatedType ==
  ASSUME TypeOK, NEW r \in Request, cmd[r] \in Command, cmd[r].op = "updateAccount"
  PROVE  /\ Updated(r) \in AccountRow
         /\ cmd[r].field = "is_active" =>
              Updated(r).is_control = account[cmd[r].account].is_control
<1> DEFINE row == account[cmd[r].account]
           field == cmd[r].field
           value == cmd[r].value
           flagged == [row EXCEPT ![field] = value]
           changed == [flagged EXCEPT !.version = @ + 1]
<1>0. row \in AccountRow /\ field \in {"is_active", "is_control"} /\ value \in BOOLEAN
  BY FieldType DEF TypeOK
<1>1. Updated(r) = changed
  BY <1>0 DEF Updated
<1> HIDE DEF row, field, value
<1>2. flagged \in AccountRow
  BY <1>0 DEF AccountRow
<1>3. changed \in AccountRow /\ changed.is_control = flagged.is_control
  <2> HIDE DEF flagged
  <2> QED
    BY <1>2 DEF AccountRow
<1>4. field = "is_active" => flagged.is_control = row.is_control
  BY <1>0 DEF AccountRow
<1> QED
  BY <1>1, <1>3, <1>4 DEF row, field

\* What a commit writes, and what r has checked before it.
LEMMA CommitCases ==
  ASSUME IInv, NEW r \in Request, Commit(r)
  PROVE  /\ pc[r] = "commit" /\ cmd[r] \in Command
         /\ \/ /\ Committing(r, "createPeriod") /\ cmd[r].period \in Period
               /\ period' = [period EXCEPT ![cmd[r].period] = "open"]
               /\ UNCHANGED <<account, entry>>
            \/ /\ Committing(r, "lockPeriod") /\ cmd[r].period \in Period
               /\ period' = [period EXCEPT ![cmd[r].period] = "locked"]
               /\ UNCHANGED <<account, entry>>
            \/ /\ Committing(r, "updateAccount") /\ cmd[r].account \in Account
               /\ account' = [account EXCEPT ![cmd[r].account] = Updated(r)]
               /\ UNCHANGED <<period, entry>>
            \/ /\ Committing(r, "post")
               /\ draft[r] \in EntryRow /\ draft[r] # None /\ entry[r] = None
               /\ entry' = [entry EXCEPT ![r] = draft[r]]
               /\ UNCHANGED <<period, account>>
<1>1. pc[r] = "commit" /\ cmd[r] \in Command
  BY DEF Commit, IInv, Ready, RightCommand, Active, Terminal
<1>2. /\ cmd[r].op = "createPeriod" \/ cmd[r].op = "lockPeriod" => cmd[r].period \in Period
      /\ cmd[r].op = "updateAccount" => cmd[r].account \in Account
  BY <1>1, FieldType
<1>3. cmd[r].op = "post" => draft[r] # None /\ draft[r] \in EntryRow
  BY <1>1 DEF IInv, TypeOK, Ready, DraftIsReady, Committing
<1>4. entry[r] = None
  BY <1>1 DEF IInv, EntriesAreDone, Posted, Entry
<1>5. CASE cmd[r].op = "updateAccount"
  BY <1>1, <1>2, <1>5 DEF Commit, Committing, Updated
<1>6. CASE cmd[r].op # "updateAccount"
  BY <1>1, <1>2, <1>3, <1>4, <1>6 DEF Commit, Committing
<1> QED
  BY <1>5, <1>6

\* The period whose creation commits is apart from the others.
LEMMA CommitCreate ==
  ASSUME IInv, NEW r \in Request, Commit(r), Committing(r, "createPeriod"),
         cmd[r].period \in Period,
         period' = [period EXCEPT ![cmd[r].period] = "open"],
         UNCHANGED <<account, entry>>
  PROVE  IInv'
<1> DEFINE p == cmd[r].period
<1>1. Finish(r, "done") /\ "done" \in Terminal
  BY DEF Commit, Terminal
<1>2. /\ pc'[r] = "done" /\ draft'[r] = None
      /\ \A s \in Request \ {r} : pc'[s] = pc[s] /\ draft'[s] = draft[s]
      /\ UNCHANGED <<cmd, expected, target, todo>>
      /\ \A l \in held : l.by # r => l \in held'
      /\ LocksExclude' /\ DraftsDiffer' /\ Ready(r)'
  BY <1>1, FinishStep
<1>3. /\ Holds(r, Organization)
      /\ \A q \in Period : period[q] # "none" => ~Overlap(q, p)
  BY DEF IInv, Ready, CreationIsApart
<1>4. /\ period[p] = "none" /\ period' \in [Period -> {"none", "open", "locked"}]
      /\ period'[p] = "open"
      /\ \A q \in Period : q # p => period'[q] = period[q]
  BY <1>3, PeriodType DEF IInv, TypeOK
<1>5. TypeOK'
  BY <1>1, <1>4 DEF IInv, TypeOK, Finish, Goto, Release, Terminal
<1>6. PeriodsDisjoint'
  <2>1. ASSUME NEW q \in Period, q # p, period'[q] # "none"
        PROVE  ~Overlap(q, p) /\ ~Overlap(p, q)
    BY <1>3, <1>4, <2>1, PeriodType DEF Overlap
  <2> QED
    BY <1>4, <2>1 DEF IInv, PeriodsDisjoint
<1>7. EntriesAreDone'
  BY <1>2 DEF IInv, EntriesAreDone, Posted, Entry
<1>8. ASSUME NEW s \in Request, s # r PROVE Ready(s)'
  <2>1. /\ \A op : Committing(s, op)' = Committing(s, op)
        /\ Targeting(s)' = Targeting(s) /\ Active(s)' = Active(s)
        /\ \A row : /\ Holds(s, row) => Holds(s, row)'
                    /\ Shares(s, row) => Shares(s, row)'
    BY <1>1, <1>8, FinishOthers
  <2>2. /\ \A x : SourceUsed(x)' = SourceUsed(x) /\ HasPostings(x)' = HasPostings(x)
        /\ Posted' = Posted
    BY DEF SourceUsed, HasPostings, Posted
  <2>3. RightCommand(s)' /\ UpdateIsCurrent(s)' /\ OriginalIsPosted(s)' /\ DraftIsReady(s)'
    BY <1>2, <1>8, <2>1, <2>2
       DEF IInv, Ready, RightCommand, UpdateIsCurrent, OriginalIsPosted, DraftIsReady
  <2>4. ~Committing(s, "createPeriod")
    BY <1>3, <1>8, Exclusive DEF IInv, Ready, CreationIsApart
  <2>5. CreationIsApart(s)'
    BY <2>1, <2>4 DEF CreationIsApart
  <2>6. LockingIsOpen(s)'
    <3>1. Committing(s, "lockPeriod") => cmd[s].period \in Period
      BY FieldType DEF IInv, Ready, RightCommand, Committing, Active, Terminal
    <3> QED
      BY <1>2, <1>4, <2>1, <3>1 DEF IInv, Ready, LockingIsOpen
  <2>7. TargetIsOpen(s)'
    BY <1>2, <1>4, <2>1 DEF IInv, Ready, TargetIsOpen
  <2> QED
    BY <2>3, <2>5, <2>6, <2>7 DEF Ready
<1> QED
  BY <1>2, <1>5, <1>6, <1>7, <1>8 DEF IInv

\* A period is locked while nobody posts into it.
LEMMA CommitLock ==
  ASSUME IInv, NEW r \in Request, Commit(r), Committing(r, "lockPeriod"),
         cmd[r].period \in Period,
         period' = [period EXCEPT ![cmd[r].period] = "locked"],
         UNCHANGED <<account, entry>>
  PROVE  IInv'
<1> DEFINE p == cmd[r].period
<1>1. Finish(r, "done") /\ "done" \in Terminal
  BY DEF Commit, Terminal
<1>2. /\ pc'[r] = "done" /\ draft'[r] = None
      /\ \A s \in Request \ {r} : pc'[s] = pc[s] /\ draft'[s] = draft[s]
      /\ UNCHANGED <<cmd, expected, target, todo>>
      /\ \A l \in held : l.by # r => l \in held'
      /\ LocksExclude' /\ DraftsDiffer' /\ Ready(r)'
  BY <1>1, FinishStep
<1>3. Holds(r, <<"period", p>>) /\ period[p] = "open"
  BY DEF IInv, Ready, LockingIsOpen
<1>4. /\ period' \in [Period -> {"none", "open", "locked"}] /\ period'[p] = "locked"
      /\ \A q \in Period : q # p => period'[q] = period[q]
      /\ \A q \in Period : period'[q] # "none" => period[q] # "none"
  BY <1>3 DEF IInv, TypeOK
<1>5. TypeOK'
  BY <1>1, <1>4 DEF IInv, TypeOK, Finish, Goto, Release, Terminal
<1>6. PeriodsDisjoint'
  BY <1>4 DEF IInv, PeriodsDisjoint
<1>7. EntriesAreDone'
  BY <1>2 DEF IInv, EntriesAreDone, Posted, Entry
<1>8. ASSUME NEW s \in Request, s # r PROVE Ready(s)'
  <2>1. /\ \A op : Committing(s, op)' = Committing(s, op)
        /\ Targeting(s)' = Targeting(s) /\ Active(s)' = Active(s)
        /\ \A row : /\ Holds(s, row) => Holds(s, row)'
                    /\ Shares(s, row) => Shares(s, row)'
    BY <1>1, <1>8, FinishOthers
  <2>2. /\ \A x : SourceUsed(x)' = SourceUsed(x) /\ HasPostings(x)' = HasPostings(x)
        /\ Posted' = Posted
    BY DEF SourceUsed, HasPostings, Posted
  <2>3. RightCommand(s)' /\ UpdateIsCurrent(s)' /\ OriginalIsPosted(s)' /\ DraftIsReady(s)'
    BY <1>2, <1>8, <2>1, <2>2
       DEF IInv, Ready, RightCommand, UpdateIsCurrent, OriginalIsPosted, DraftIsReady
  <2>4. ~Holds(s, <<"period", p>>)
    BY <1>3, <1>8, Exclusive DEF IInv
  <2>5. CreationIsApart(s)'
    BY <1>2, <1>4, <2>1 DEF IInv, Ready, CreationIsApart
  <2>6. LockingIsOpen(s)'
    <3>1. Committing(s, "lockPeriod") => cmd[s].period \in Period /\ cmd[s].period # p
      BY <2>4, FieldType
         DEF IInv, Ready, RightCommand, LockingIsOpen, Committing, Active, Terminal
    <3> QED
      BY <1>2, <1>4, <2>1, <3>1 DEF IInv, Ready, LockingIsOpen
  <2>7. TargetIsOpen(s)'
    BY <1>2, <1>4, <2>1, <2>4 DEF IInv, Ready, TargetIsOpen
  <2> QED
    BY <2>3, <2>5, <2>6, <2>7 DEF Ready
<1> QED
  BY <1>2, <1>5, <1>6, <1>7, <1>8 DEF IInv

\* An account is changed while nobody posts to it or changes it.
LEMMA CommitUpdate ==
  ASSUME IInv, NEW r \in Request, Commit(r), Committing(r, "updateAccount"),
         cmd[r].account \in Account,
         account' = [account EXCEPT ![cmd[r].account] = Updated(r)],
         UNCHANGED <<period, entry>>
  PROVE  IInv'
<1> DEFINE a == cmd[r].account
<1>1. Finish(r, "done") /\ "done" \in Terminal
  BY DEF Commit, Terminal
<1>2. /\ pc'[r] = "done" /\ draft'[r] = None
      /\ \A s \in Request \ {r} : pc'[s] = pc[s] /\ draft'[s] = draft[s]
      /\ UNCHANGED <<cmd, expected, target, todo>>
      /\ LocksExclude' /\ DraftsDiffer' /\ Ready(r)'
  BY <1>1, FinishStep
<1>3. Holds(r, <<"account", a>>)
  BY DEF IInv, Ready, UpdateIsCurrent
<1>4. /\ account' \in [Account -> AccountRow]
      /\ \A b \in Account : b # a => account'[b] = account[b]
  <2>1. Updated(r) \in AccountRow
    BY UpdatedType DEF IInv, Ready, RightCommand, Committing, Active, Terminal
  <2> QED
    BY <2>1 DEF IInv, TypeOK
<1>5. TypeOK'
  BY <1>1, <1>4 DEF IInv, TypeOK, Finish, Goto, Release, Terminal
<1>6. PeriodsDisjoint'
  BY DEF IInv, PeriodsDisjoint
<1>7. EntriesAreDone'
  BY <1>2 DEF IInv, EntriesAreDone, Posted, Entry
<1>8. ASSUME NEW s \in Request, s # r PROVE Ready(s)'
  <2>1. /\ \A op : Committing(s, op)' = Committing(s, op)
        /\ Targeting(s)' = Targeting(s) /\ Active(s)' = Active(s)
        /\ \A row : /\ Holds(s, row) => Holds(s, row)'
                    /\ Shares(s, row) => Shares(s, row)'
    BY <1>1, <1>8, FinishOthers
  <2>2. /\ \A x : SourceUsed(x)' = SourceUsed(x) /\ HasPostings(x)' = HasPostings(x)
        /\ Posted' = Posted
    BY DEF SourceUsed, HasPostings, Posted
  <2>3. /\ RightCommand(s)' /\ CreationIsApart(s)' /\ LockingIsOpen(s)' /\ TargetIsOpen(s)'
        /\ OriginalIsPosted(s)'
    BY <1>2, <1>8, <2>1, <2>2
       DEF IInv, Ready, RightCommand, CreationIsApart, LockingIsOpen, TargetIsOpen,
           OriginalIsPosted
  <2>4. DraftIsReady(s)'
    BY <1>2, <1>8, <2>1, <2>2 DEF IInv, Ready, DraftIsReady
  <2>5. UpdateIsCurrent(s)'
    <3>1. Committing(s, "updateAccount") => cmd[s].account \in Account /\ cmd[s].account # a
      BY <1>3, <1>8, Exclusive, FieldType
         DEF IInv, Ready, RightCommand, UpdateIsCurrent, Committing, Active, Terminal
    <3> QED
      BY <1>2, <1>4, <2>1, <2>2, <3>1 DEF IInv, Ready, UpdateIsCurrent
  <2> QED
    BY <2>3, <2>4, <2>5 DEF Ready
<1> QED
  BY <1>2, <1>5, <1>6, <1>7, <1>8 DEF IInv

\* An entry is posted while nobody changes its accounts or has its source.
LEMMA CommitPost ==
  ASSUME IInv, NEW r \in Request, Commit(r), Committing(r, "post"),
         draft[r] \in EntryRow, draft[r] # None, entry[r] = None,
         entry' = [entry EXCEPT ![r] = draft[r]],
         UNCHANGED <<period, account>>
  PROVE  IInv'
<1>1. Finish(r, "done") /\ "done" \in Terminal
  BY DEF Commit, Terminal
<1>2. /\ pc'[r] = "done" /\ draft'[r] = None
      /\ \A s \in Request \ {r} : pc'[s] = pc[s] /\ draft'[s] = draft[s]
      /\ UNCHANGED <<cmd, expected, target, todo>>
      /\ LocksExclude' /\ DraftsDiffer' /\ Ready(r)'
  BY <1>1, FinishStep
<1>3. /\ entry' \in [Entry -> EntryRow \cup {None}] /\ entry'[r] = draft[r]
      /\ \A e \in Entry : e # r => entry'[e] = entry[e]
      /\ Posted' = Posted \cup {r}
  BY DEF IInv, TypeOK, Entry, Posted
<1>4. TypeOK'
  BY <1>1, <1>3 DEF IInv, TypeOK, Finish, Goto, Release, Terminal
<1>5. PeriodsDisjoint'
  BY DEF IInv, PeriodsDisjoint
<1>6. EntriesAreDone'
  BY <1>2, <1>3 DEF IInv, EntriesAreDone, Posted, Entry
<1>7. ASSUME NEW s \in Request, s # r PROVE Ready(s)'
  <2>1. /\ \A op : Committing(s, op)' = Committing(s, op)
        /\ Targeting(s)' = Targeting(s) /\ Active(s)' = Active(s)
        /\ \A row : /\ Holds(s, row) => Holds(s, row)'
                    /\ Shares(s, row) => Shares(s, row)'
    BY <1>1, <1>7, FinishOthers
  <2>2. /\ RightCommand(s)' /\ CreationIsApart(s)' /\ LockingIsOpen(s)' /\ TargetIsOpen(s)'
        /\ OriginalIsPosted(s)'
    BY <1>2, <1>3, <1>7, <2>1
       DEF IInv, Ready, RightCommand, CreationIsApart, LockingIsOpen, TargetIsOpen,
           OriginalIsPosted
  <2>3. UpdateIsCurrent(s)'
    <3>1. ASSUME Committing(s, "updateAccount"), ~HasPostings(cmd[s].account)
          PROVE  ~HasPostings(cmd[s].account)'
      <4>1. \A b \in draft[r].accounts : Shares(r, <<"account", b>>)
        BY DEF IInv, Ready, DraftIsReady
      <4>2. cmd[s].account \notin draft[r].accounts
        BY <1>7, <3>1, <4>1, Exclusive DEF IInv, Ready, UpdateIsCurrent
      <4> QED
        BY <1>2, <1>3, <3>1, <4>2 DEF HasPostings, Posted
    <3> QED
      BY <1>2, <2>1, <3>1 DEF IInv, Ready, UpdateIsCurrent
  <2>4. DraftIsReady(s)'
    <3>1. ASSUME draft[s] # None PROVE ~SourceUsed(draft[s].source)'
      <4>1. draft[s].source # None => draft[s].source # draft[r].source
        BY <1>7, <3>1 DEF IInv, DraftsDiffer
      <4>2. ~SourceUsed(draft[s].source)
        BY <3>1 DEF IInv, Ready, DraftIsReady
      <4> QED
        BY <1>2, <1>3, <1>7, <4>1, <4>2 DEF SourceUsed, Posted
    <3> QED
      BY <1>2, <1>7, <2>1, <3>1 DEF IInv, Ready, DraftIsReady
  <2> QED
    BY <2>2, <2>3, <2>4 DEF Ready
<1> QED
  BY <1>2, <1>4, <1>5, <1>6, <1>7 DEF IInv

\* The step relation, one action at a time.
LEMMA StepIInv == IInv /\ [Next]_vars => IInv'
<1> SUFFICES ASSUME IInv, [Next]_vars PROVE IInv'
  OBVIOUS
<1>1. CASE UNCHANGED vars
  <2>1. \A r \in Request : Ready(r)'
    BY <1>1, OthersReady DEF IInv, vars, books
  <2> QED
    BY <1>1, <2>1 DEF IInv, TypeOK, LocksExclude, PeriodsDisjoint, DraftsDiffer, EntriesAreDone,
                      Posted, vars
<1>2. ASSUME NEW r \in Request, Begin(r) PROVE IInv'
  BY <1>2, BeginIInv
<1>3. ASSUME NEW r \in Request, Step(r) PROVE IInv'
  <2>1. CASE Claim(r)
    BY <2>1, ClaimIInv
  <2>2. CASE CreatePeriod(r)
    BY <2>2, CreatePeriodIInv
  <2>3. CASE LockPeriod(r)
    BY <2>3, LockPeriodIInv
  <2>4. CASE UpdateAccount(r)
    BY <2>4, UpdateAccountIInv
  <2>5. CASE FindPeriod(r)
    BY <2>5, FindPeriodIInv
  <2>6. CASE ReadAccounts(r)
    BY <2>6, ReadAccountsIInv
  <2>7. CASE CheckSource(r)
    BY <2>7, CheckSourceIInv
  <2>8. CASE LockReversed(r)
    BY <2>8, LockReversedIInv
  <2>9. CASE Insert(r)
    BY <2>9, InsertIInv
  <2>10. CASE LockOriginal(r)
    BY <2>10, LockOriginalIInv
  <2>11. CASE ListPeriods(r)
    BY <2>11, ListPeriodsIInv
  <2>12. CASE LockOpen(r)
    BY <2>12, LockOpenIInv
  <2>13. CASE PostReversal(r)
    BY <2>13, PostReversalIInv
  <2>14. CASE Commit(r)
    BY <2>14, CommitCases, CommitCreate, CommitLock, CommitUpdate, CommitPost
  <2>15. CASE Rollback(r)
    BY <2>15, UndoIInv DEF Rollback
  <2> QED
    BY <1>3, <2>1, <2>2, <2>3, <2>4, <2>5, <2>6, <2>7, <2>8, <2>9, <2>10, <2>11, <2>12, <2>13,
       <2>14, <2>15 DEF Step
<1>4. ASSUME NEW r \in Request, Crash(r) PROVE IInv'
  BY <1>4, UndoIInv DEF Crash, Active, Terminal
<1>5. ASSUME NEW r \in Request, Timeout(r) PROVE IInv'
  <2>1. pc[r] # "done"
    BY <1>5 DEF Timeout, Waiting, WaitsFor, Wanted
  <2> QED
    BY <1>5, <2>1, UndoIInv DEF Timeout
<1> QED
  BY <1>1, <1>2, <1>3, <1>4, <1>5 DEF Next

\* IInv is an invariant of the ledger.
THEOREM Inductive == Spec => []IInv
<1> QED
  BY InitIInv, StepIInv, PTL DEF Spec

-----------------------------------------------------------------------------
(* What IInv implies.                                                      *)

\* Every variable keeps its type.
THEOREM Typed == Spec => []TypeOK
<1>1. IInv => TypeOK
  BY DEF IInv
<1> QED
  BY <1>1, Inductive, PTL

\* Fiscal periods never overlap (the check of create_period runs under the
\* organization's lock).
THEOREM DisjointPeriods == Spec => []PeriodsDisjoint
<1>1. IInv => PeriodsDisjoint
  BY DEF IInv
<1> QED
  BY <1>1, Inductive, PTL

\* Only commits write to the books.
LEMMA OnlyCommitsWrite ==
  ASSUME [Next]_vars
  PROVE  UNCHANGED books \/ \E r \in Request : Commit(r)
<1>1. CASE UNCHANGED vars
  BY <1>1 DEF vars, books
<1>2. ASSUME NEW r \in Request, Begin(r) \/ Crash(r) \/ Timeout(r)
      PROVE  UNCHANGED books
  BY <1>2 DEF Begin, Crash, Timeout, Undo
<1>3. ASSUME NEW r \in Request, Step(r), ~Commit(r)
      PROVE  UNCHANGED books
  BY <1>3 DEF Step, Claim, CreatePeriod, LockPeriod, UpdateAccount, FindPeriod, ReadAccounts,
              CheckSource, LockReversed, Insert, LockOriginal, ListPeriods, LockOpen,
              PostReversal, Rollback, Undo
<1> QED
  BY <1>1, <1>2, <1>3 DEF Next

\* A locked period stays locked and no transaction posts into it any more
\* (lock_period and post_journal_entry take the period's row lock).
THEOREM FrozenPeriods == Spec => LockedPeriodsAreFrozen
<1>1. ASSUME IInv, [Next]_vars, NEW p \in Period, period[p] = "locked"
      PROVE  StaysFrozen(p)
  <2>1. CASE UNCHANGED books
    BY <1>1, <2>1 DEF StaysFrozen, EntriesOf, Posted, books
  <2>2. ASSUME NEW r \in Request, Commit(r)
        PROVE  StaysFrozen(p)
    <3>1. CASE /\ Committing(r, "createPeriod") /\ cmd[r].period \in Period
               /\ period' = [period EXCEPT ![cmd[r].period] = "open"]
               /\ UNCHANGED <<account, entry>>
      <4>1. cmd[r].period # p
        BY <1>1, <3>1, PeriodType DEF IInv, Ready, CreationIsApart
      <4> QED
        BY <1>1, <3>1, <4>1 DEF IInv, TypeOK, StaysFrozen, EntriesOf, Posted
    <3>2. CASE /\ Committing(r, "lockPeriod") /\ cmd[r].period \in Period
               /\ period' = [period EXCEPT ![cmd[r].period] = "locked"]
               /\ UNCHANGED <<account, entry>>
      BY <1>1, <3>2 DEF IInv, TypeOK, StaysFrozen, EntriesOf, Posted
    <3>3. CASE UNCHANGED <<period, entry>>
      BY <1>1, <3>3 DEF StaysFrozen, EntriesOf, Posted
    <3>4. CASE /\ Committing(r, "post") /\ draft[r] # None
               /\ entry' = [entry EXCEPT ![r] = draft[r]] /\ entry[r] = None
               /\ UNCHANGED <<period, account>>
      <4>1. draft[r].period # p
        BY <1>1, <3>4 DEF IInv, Ready, DraftIsReady, TargetIsOpen, Targeting
      <4> QED
        BY <1>1, <3>4, <4>1 DEF IInv, TypeOK, StaysFrozen, EntriesOf, Posted, Entry
    <3> QED
      BY <1>1, <2>2, <3>1, <3>2, <3>3, <3>4, CommitCases
  <2> QED
    BY <1>1, <2>1, <2>2, OnlyCommitsWrite
<1>2. IInv /\ [Next]_vars =>
        [\A p \in Period : period[p] = "locked" => StaysFrozen(p)]_vars
  BY <1>1
<1> QED
  BY <1>2, Inductive, PTL DEF Spec, LockedPeriodsAreFrozen

\* Whether an account is a control account is settled by its first posting.
THEOREM StructureIsKept == Spec => PostedAccountsKeepStructure
<1>1. ASSUME IInv, [Next]_vars, NEW a \in Account, HasPostings(a)
      PROVE  account'[a].is_control = account[a].is_control
  <2>1. CASE UNCHANGED books
    BY <2>1 DEF books
  <2>2. ASSUME NEW r \in Request, Commit(r)
        PROVE  account'[a].is_control = account[a].is_control
    <3>1. CASE UNCHANGED account
      BY <3>1
    <3>2. CASE /\ Committing(r, "updateAccount") /\ cmd[r].account \in Account
               /\ account' = [account EXCEPT ![cmd[r].account] = Updated(r)]
      <4>1. cmd[r].account = a => cmd[r].field = "is_active"
        BY <1>1, <3>2, FieldType
           DEF IInv, Ready, RightCommand, UpdateIsCurrent, Committing, Active, Terminal
      <4>2. cmd[r].account = a => Updated(r).is_control = account[a].is_control
        BY <1>1, <3>2, <4>1, UpdatedType
           DEF IInv, Ready, RightCommand, Committing, Active, Terminal
      <4> QED
        BY <3>2, <4>2 DEF IInv, TypeOK
    <3> QED
      BY <1>1, <2>2, <3>1, <3>2, CommitCases
  <2> QED
    BY <1>1, <2>1, <2>2, OnlyCommitsWrite
<1>2. IInv /\ [Next]_vars =>
        [\A a \in Account :
           HasPostings(a) => account'[a].is_control = account[a].is_control]_vars
  BY <1>1
<1> QED
  BY <1>2, Inductive, PTL DEF Spec, PostedAccountsKeepStructure

\* An account is only overwritten at the version that the client has read.
THEOREM NoUpdateIsLost == Spec => NoLostUpdate
<1>1. ASSUME IInv, [Next]_vars, NEW a \in Account, account'[a] # account[a]
      PROVE  \E r \in Request : /\ pc[r] = "commit" /\ pc'[r] = "done"
                                /\ cmd[r].account = a
                                /\ expected[r] = account[a].version
  <2>1. PICK r \in Request : Commit(r)
    BY <1>1, OnlyCommitsWrite DEF books
  <2>2. pc[r] = "commit" /\ pc'[r] = "done"
    BY <1>1, <2>1 DEF Commit, Finish, Goto, IInv, TypeOK
  <2>3. Committing(r, "updateAccount") /\ cmd[r].account = a
    BY <1>1, <2>1, CommitCases DEF IInv, TypeOK
  <2>4. expected[r] = account[a].version
    BY <1>1, <2>3 DEF IInv, Ready, UpdateIsCurrent
  <2> QED
    BY <2>2, <2>3, <2>4
<1>2. IInv /\ [Next]_vars =>
        [\A a \in Account :
           account'[a] # account[a] =>
             \E r \in Request : /\ pc[r] = "commit" /\ pc'[r] = "done"
                                /\ cmd[r].account = a
                                /\ expected[r] = account[a].version]_vars
  BY <1>1
<1> QED
  BY <1>2, Inductive, PTL DEF Spec, NoLostUpdate

-----------------------------------------------------------------------------
(* Reversals.                                                              *)

\* Clients post no entries that name an entry which they reverse.
NoDirectReversals == \A c \in Commands : c.op = "post" => c.reversalOf = None

\* The entry that r reverses can be reversed, and nobody else reverses it.
OriginalIsHeld(r, e) ==
  /\ e \in Posted /\ entry[e].reversalOf = None /\ ReversalsOf(e) = {}
  /\ Holds(r, <<"entry", e>>)

\* r has found an open period for the reversal of an entry of the given date.
TargetFits(r, date) ==
  /\ target[r] \in Period /\ period[target[r]] = "open"
  /\ Holds(r, <<"period", target[r]>>)
  /\ date <= target[r].last

Preparing(r) ==
  /\ pc[r] \in {"idle", "claim", "original", "list"} => target[r] = None
  /\ pc[r] \in {"list", "lockOpen"} => OriginalIsHeld(r, cmd[r].entry)
  /\ pc[r] = "lockOpen" =>
       /\ \A p \in todo[r] : entry[cmd[r].entry].date <= p.last
       /\ target[r] # None => TargetFits(r, entry[cmd[r].entry].date)

Reversing(r) ==
  /\ pc[r] = "claim" /\ cmd[r].op = "post" => cmd[r].reversalOf = None
  /\ pc[r] = "period" \/ Targeting(r) =>
       LET e == cmd[r].reversalOf
       IN e # None =>
            /\ OriginalIsHeld(r, e)
            /\ TargetFits(r, entry[e].date)
            /\ cmd[r].date = Later(entry[e].date, target[r])
            /\ cmd[r].accounts = entry[e].accounts
            /\ cmd[r].source = [type |-> "journal_reversal", id |-> e]

\* What is reversed has been posted before.
OriginalsArePosted ==
  \A e \in Posted : entry[e].reversalOf # None => entry[e].reversalOf \in Posted

RInv ==
  /\ \A r \in Request : Preparing(r) /\ Reversing(r)
  /\ OriginalsArePosted
  /\ ReversedOnce

\* What s has found about reversals stays so while the books and its own state do.
LEMMA OthersReversing ==
  ASSUME NEW s \in Request, Preparing(s), Reversing(s),
         pc'[s] = pc[s], cmd'[s] = cmd[s], target'[s] = target[s], todo'[s] = todo[s],
         \A l \in held : l.by = s => l \in held',
         UNCHANGED books
  PROVE  Preparing(s)' /\ Reversing(s)'
<1>1. \A row : Holds(s, row) => Holds(s, row)'
  BY DEF Holds, Lock
<1>2. Targeting(s)' = Targeting(s)
  BY DEF Targeting, Committing
<1>3. \A e : OriginalIsHeld(s, e) => OriginalIsHeld(s, e)'
  BY <1>1 DEF OriginalIsHeld, ReversalsOf, Posted, books
<1>4. \A d : TargetFits(s, d) => TargetFits(s, d)'
  BY <1>1 DEF TargetFits, books
<1>5. Preparing(s)'
  BY <1>3, <1>4 DEF Preparing, books
<1>6. Reversing(s)'
  BY <1>2, <1>3, <1>4 DEF Reversing, books
<1> QED
  BY <1>5, <1>6

\* A step of r that does not commit: it suffices to look at r.
LEMMA OwnReversal ==
  ASSUME IInv, RInv, NEW r \in Request,
         \A s \in Request \ {r} :
           /\ pc'[s] = pc[s] /\ cmd'[s] = cmd[s] /\ target'[s] = target[s] /\ todo'[s] = todo[s]
           /\ \A l \in held : l.by = s => l \in held',
         UNCHANGED books,
         Preparing(r)', Reversing(r)'
  PROVE  RInv'
<1>1. \A s \in Request : s # r => Preparing(s)' /\ Reversing(s)'
  BY OthersReversing DEF RInv
<1>2. OriginalsArePosted' /\ ReversedOnce'
  BY DEF RInv, OriginalsArePosted, ReversedOnce, ReversalsOf, Posted, books
<1> QED
  BY <1>1, <1>2 DEF RInv

\* Initially nothing is being reversed.
LEMMA InitRInv == Init => RInv
<1> SUFFICES ASSUME Init PROVE RInv
  OBVIOUS
<1>1. ASSUME NEW r \in Request PROVE Preparing(r) /\ Reversing(r)
  <2>1. pc[r] \in {"done", "idle"} /\ target[r] = None
    BY DEF Init
  <2>2. ~Targeting(r)
    BY <2>1 DEF Targeting, Committing
  <2> QED
    BY <2>1, <2>2 DEF Preparing, Reversing
<1>2. \A e \in Posted : entry[e].reversalOf = None
  BY EntriesAssumption DEF Init, Posted
<1>3. OriginalsArePosted
  BY <1>2 DEF OriginalsArePosted
<1>4. ReversedOnce
  BY <1>2, NoneAssumption DEF ReversedOnce, ReversalsOf, Posted
<1> QED
  BY <1>1, <1>3, <1>4 DEF RInv

\* Requests that reverse nothing, and the ends of transactions that write nothing.
LEMMA PlainReversal ==
  ASSUME IInv, RInv, NoDirectReversals, NEW r \in Request,
         \/ Begin(r) \/ Claim(r) \/ CreatePeriod(r) \/ LockPeriod(r) \/ UpdateAccount(r)
         \/ Rollback(r) \/ Crash(r) \/ Timeout(r)
  PROVE  RInv'
<1>1. CASE Begin(r)
  <2>1. PICK c \in Commands : cmd' = [cmd EXCEPT ![r] = c]
    BY <1>1 DEF Begin
  <2>2. pc'[r] = "claim" /\ target'[r] = None /\ cmd'[r] = c
    BY <1>1, <2>1 DEF Begin, Goto, IInv, TypeOK, RInv, Preparing
  <2>3. Preparing(r)' /\ Reversing(r)'
    BY <2>2 DEF NoDirectReversals, Preparing, Reversing, Targeting, Committing
  <2> QED
    BY <1>1, <2>1, <2>3, OwnReversal DEF Begin, Goto, IInv, TypeOK
<1>2. CASE Claim(r)
  <2>1. /\ \/ cmd[r].op = "post" /\ pc'[r] = "period"
           \/ pc'[r] \in {"original", "organization", "lockPeriod", "account"}
        /\ cmd'[r] = cmd[r] /\ target'[r] = target[r]
    <3>1. cmd[r].op \in {"post", "reverse", "createPeriod", "lockPeriod", "updateAccount"}
      BY <1>2 DEF IInv, Ready, RightCommand, Claim, Active, Terminal,
                  Command, PostCommand, ReverseCommand, CreateCommand, LockCommand, UpdateCommand
    <3> QED
      BY <1>2, <3>1 DEF Claim, Goto, IInv, TypeOK, local
  <2>2. target[r] = None /\ (cmd[r].op = "post" => cmd[r].reversalOf = None)
    BY <1>2 DEF Claim, RInv, Preparing, Reversing
  <2>3. Preparing(r)' /\ Reversing(r)'
    BY <2>1, <2>2 DEF Preparing, Reversing, Targeting, Committing
  <2> QED
    BY <1>2, <2>3, OwnReversal DEF Claim, Goto, IInv, TypeOK, local
<1>3. CASE CreatePeriod(r) \/ LockPeriod(r) \/ UpdateAccount(r)
  <2>1. /\ pc[r] \in {"organization", "lockPeriod", "account"}
        /\ Goto(r, "commit") \/ Goto(r, "rollback")
        /\ UNCHANGED <<local, books>> /\ held \subseteq held'
    BY <1>3 DEF CreatePeriod, LockPeriod, UpdateAccount, Proceed, Acquire
  <2>2. cmd[r].op # "post" /\ pc'[r] \in {"commit", "rollback"} /\ cmd'[r] = cmd[r]
    BY <2>1 DEF IInv, TypeOK, Ready, RightCommand, Goto, local
  <2>3. Preparing(r)' /\ Reversing(r)'
    BY <2>2 DEF Preparing, Reversing, Targeting, Committing
  <2> QED
    BY <2>1, <2>3, OwnReversal DEF Goto, IInv, TypeOK, local
<1>4. CASE Rollback(r) \/ Crash(r) \/ Timeout(r)
  <2>1. Finish(r, "failed") /\ UNCHANGED books /\ "failed" \in Terminal
    BY <1>4 DEF Rollback, Crash, Timeout, Undo, Terminal
  <2>2. /\ pc'[r] = "failed" /\ UNCHANGED <<cmd, target, todo>>
        /\ \A s \in Request \ {r} : pc'[s] = pc[s]
        /\ \A l \in held : l.by # r => l \in held'
    BY <2>1, FinishStep
  <2>3. Preparing(r)' /\ Reversing(r)'
    BY <2>2 DEF Preparing, Reversing, Targeting, Committing
  <2> QED
    BY <2>1, <2>2, <2>3, OwnReversal
<1> QED
  BY <1>1, <1>2, <1>3, <1>4

\* The period that a reversal finds is the one that was locked for it.
LEMMA FindPeriodRInv == ASSUME IInv, RInv, NEW r \in Request, FindPeriod(r) PROVE RInv'
<1>1. pc[r] = "period" /\ UNCHANGED <<cmd, todo, books>> /\ cmd[r] \in Command /\ cmd[r].op = "post"
  BY DEF FindPeriod, IInv, Ready, RightCommand, Active, Terminal
<1>2. held \subseteq held'
  BY DEF FindPeriod, Acquire
<1>3. \A s \in Request \ {r} : pc'[s] = pc[s] /\ target'[s] = target[s]
  BY DEF FindPeriod, Proceed, Goto, IInv, TypeOK
<1>4. CASE pc'[r] = "rollback"
  <2>1. Preparing(r)' /\ Reversing(r)'
    BY <1>4 DEF Preparing, Reversing, Targeting, Committing
  <2> QED
    BY <1>1, <1>2, <1>3, <2>1, OwnReversal
<1>5. CASE \E p \in Period :
             /\ period[p] # "none" /\ Covers(p, cmd[r].date)
             /\ target' = [target EXCEPT ![r] = p] /\ pc'[r] = "accounts"
  <2>1. PICK p \in Period : /\ period[p] # "none" /\ Covers(p, cmd[r].date)
                            /\ target'[r] = p /\ pc'[r] = "accounts"
    BY <1>5 DEF IInv, TypeOK
  <2>2. ASSUME cmd[r].reversalOf # None PROVE p = target[r]
    <3> DEFINE d == entry[cmd[r].reversalOf].date
               q == target[r]
    <3>1. TargetFits(r, d) /\ cmd[r].date = Later(d, q) /\ OriginalIsHeld(r, cmd[r].reversalOf)
      BY <1>1, <2>2 DEF RInv, Reversing
    <3>2. d \in Nat
      BY <3>1, EntryType, DateAssumption DEF OriginalIsHeld, Posted, IInv, TypeOK
    <3>3. q \in Period /\ period[q] = "open" /\ Covers(q, cmd[r].date)
      BY <3>1, <3>2, PeriodType DEF TargetFits, Later, Covers
    <3>4. Overlap(p, q)
      <4>1. cmd[r].date \in Nat
        BY <1>1, FieldType, DateAssumption
      <4> QED
        BY <2>1, <3>3, <4>1, PeriodType DEF Covers, Overlap
    <3> QED
      BY <2>1, <3>3, <3>4 DEF IInv, PeriodsDisjoint
  <2>3. cmd'[r] = cmd[r] /\ books' = books
    BY <1>1
  <2>4. ASSUME cmd[r].reversalOf # None
        PROVE  /\ OriginalIsHeld(r, cmd[r].reversalOf)'
               /\ TargetFits(r, entry[cmd[r].reversalOf].date)'
    BY <1>1, <1>2, <2>1, <2>2, <2>4
       DEF RInv, Reversing, OriginalIsHeld, TargetFits, Holds, ReversalsOf, Posted, books
  <2>5. Preparing(r)'
    BY <2>1 DEF Preparing
  <2>6. Reversing(r)'
    BY <1>1, <2>1, <2>2, <2>3, <2>4 DEF RInv, Reversing, books
  <2> QED
    BY <1>1, <1>2, <1>3, <2>5, <2>6, OwnReversal
<1>6. \/ pc'[r] = "rollback"
      \/ \E p \in Period :
           /\ period[p] # "none" /\ Covers(p, cmd[r].date)
           /\ target' = [target EXCEPT ![r] = p] /\ pc'[r] = "accounts"
  BY DEF FindPeriod, Proceed, Goto, IInv, TypeOK
<1> QED
  BY <1>4, <1>5, <1>6

\* The checks and the insertion of a reversal keep what has been found for it.
LEMMA CheckRInv ==
  ASSUME IInv, RInv, NEW r \in Request,
         ReadAccounts(r) \/ CheckSource(r) \/ LockReversed(r) \/ Insert(r)
  PROVE  RInv'
<1>1. /\ pc[r] \in {"accounts", "source", "reversed", "insert"}
      /\ UNCHANGED <<cmd, target, todo, books>> /\ held \subseteq held'
      /\ \E label : Goto(r, label) /\ label \in {"source", "reversed", "insert", "commit", "rollback"}
  BY DEF ReadAccounts, CheckSource, LockReversed, Insert, Acquire, Proceed, local
<1>2. /\ pc'[r] \in {"source", "reversed", "insert", "commit", "rollback"}
      /\ \A s \in Request \ {r} : pc'[s] = pc[s]
  BY <1>1 DEF Goto, IInv, TypeOK
<1>3. Preparing(r)'
  BY <1>2 DEF Preparing
<1>4. \A row : Holds(r, row) => Holds(r, row)'
  BY <1>1 DEF Holds
<1>5. \A e : OriginalIsHeld(r, e) => OriginalIsHeld(r, e)'
  BY <1>1, <1>4 DEF OriginalIsHeld, ReversalsOf, Posted, books
<1>6. \A d : TargetFits(r, d) => TargetFits(r, d)'
  BY <1>1, <1>4 DEF TargetFits, books
<1>7. Targeting(r)
  BY <1>1 DEF Targeting
<1>8. Reversing(r)'
  BY <1>1, <1>2, <1>5, <1>6, <1>7 DEF RInv, Reversing, books
<1> QED
  BY <1>1, <1>2, <1>3, <1>8, OwnReversal

\* reverse_journal_entry: its checks, its list of periods and their locks.
LEMMA PrepareRInv ==
  ASSUME IInv, RInv, NEW r \in Request,
         LockOriginal(r) \/ ListPeriods(r) \/ LockOpen(r) \/ PostReversal(r)
  PROVE  RInv'
<1>1. CASE LockOriginal(r)
  <2>1. /\ UNCHANGED <<cmd, target, todo, books>> /\ pc[r] = "original"
        /\ Acquire(r, <<"entry", cmd[r].entry>>)
    BY <1>1 DEF LockOriginal, local
  <2>2. /\ \A s \in Request \ {r} : pc'[s] = pc[s]
        /\ \/ pc'[r] = "rollback"
           \/ /\ pc'[r] = "list" /\ cmd[r].entry \in Posted
              /\ entry[cmd[r].entry].reversalOf = None /\ ReversalsOf(cmd[r].entry) = {}
    BY <1>1 DEF LockOriginal, Proceed, Goto, IInv, TypeOK
  <2>3. held \subseteq held' /\ Holds(r, <<"entry", cmd[r].entry>>)'
    BY <2>1 DEF Acquire, Holds
  <2>4. Preparing(r)'
    BY <2>1, <2>2, <2>3
       DEF RInv, Preparing, OriginalIsHeld, Holds, ReversalsOf, Posted, books
  <2>5. Reversing(r)'
    BY <2>2 DEF Reversing, Targeting, Committing
  <2> QED
    BY <2>1, <2>2, <2>3, <2>4, <2>5, OwnReversal
<1>2. CASE ListPeriods(r)
  <2>1. /\ UNCHANGED <<cmd, target, held, books>> /\ pc[r] = "list"
        /\ \A s \in Request \ {r} : pc'[s] = pc[s] /\ todo'[s] = todo[s]
        /\ pc'[r] \in {"lockOpen", "rollback"}
        /\ \A p \in todo'[r] : p \in Period /\ p.last >= entry[cmd[r].entry].date
    BY <1>2 DEF ListPeriods, Proceed, Goto, IInv, TypeOK
  <2>2. target[r] = None /\ OriginalIsHeld(r, cmd[r].entry)
    BY <2>1 DEF RInv, Preparing
  <2>3. entry[cmd[r].entry].date \in Nat
    BY <2>2, EntryType, DateAssumption DEF OriginalIsHeld, Posted, IInv, TypeOK
  <2>4. \A p \in todo'[r] : entry[cmd[r].entry].date <= p.last
    BY <2>1, <2>3, PeriodType
  <2>5. Preparing(r)'
    BY <2>1, <2>2, <2>4 DEF Preparing, OriginalIsHeld, Holds, ReversalsOf, Posted, books
  <2>6. Reversing(r)'
    BY <2>1 DEF Reversing, Targeting, Committing
  <2> QED
    BY <2>1, <2>5, <2>6, OwnReversal
<1>3. CASE LockOpen(r)
  <2>1. PICK p \in todo[r] :
          /\ Acquire(r, <<"period", p>>)
          /\ todo' = [todo EXCEPT ![r] = @ \ {p}]
          /\ target' = [target EXCEPT ![r] = IF @ = None /\ period[p] = "open" THEN p ELSE @]
    BY <1>3 DEF LockOpen
  <2>2. pc[r] = "lockOpen" /\ UNCHANGED <<pc, cmd, books>>
    BY <1>3 DEF LockOpen
  <2>3. held \subseteq held' /\ Holds(r, <<"period", p>>)'
    BY <2>1 DEF Acquire, Holds
  <2>4. /\ \A s \in Request \ {r} : target'[s] = target[s] /\ todo'[s] = todo[s]
        /\ todo'[r] \subseteq todo[r]
        /\ target'[r] = IF target[r] = None /\ period[p] = "open" THEN p ELSE target[r]
    BY <2>1 DEF IInv, TypeOK
  <2>5. p \in Period /\ entry[cmd[r].entry].date <= p.last
    BY <2>2 DEF RInv, Preparing, IInv, TypeOK
  <2>6. OriginalIsHeld(r, cmd[r].entry)'
    BY <2>2, <2>3 DEF RInv, Preparing, OriginalIsHeld, Holds, ReversalsOf, Posted, books
  <2>7. target'[r] # None => TargetFits(r, entry[cmd[r].entry].date)'
    BY <2>2, <2>3, <2>4, <2>5 DEF RInv, Preparing, TargetFits, Holds, books
  <2>8. Preparing(r)'
    BY <2>2, <2>4, <2>6, <2>7 DEF RInv, Preparing, books
  <2>9. Reversing(r)'
    BY <2>2 DEF Reversing, Targeting, Committing
  <2> QED
    BY <2>2, <2>3, <2>4, <2>8, <2>9, OwnReversal
<1>4. CASE PostReversal(r)
  <2>1. UNCHANGED <<target, todo, held, books>> /\ pc[r] = "lockOpen"
    BY <1>4 DEF PostReversal
  <2>2. \A s \in Request \ {r} : pc'[s] = pc[s] /\ cmd'[s] = cmd[s]
    BY <1>4 DEF PostReversal, Proceed, Goto, IInv, TypeOK
  <2>3. CASE pc'[r] = "rollback"
    <3>1. Preparing(r)' /\ Reversing(r)'
      BY <2>3 DEF Preparing, Reversing, Targeting, Committing
    <3> QED
      BY <2>1, <2>2, <3>1, OwnReversal
  <2>4. CASE /\ pc'[r] = "period" /\ target[r] # None
             /\ cmd'[r] = [op |-> "post",
                           date |-> Later(entry[cmd[r].entry].date, target[r]),
                           accounts |-> entry[cmd[r].entry].accounts,
                           source |-> [type |-> "journal_reversal", id |-> cmd[r].entry],
                           reversalOf |-> cmd[r].entry]
    <3>0. PICK e : e = cmd[r].entry
      OBVIOUS
    <3>1. OriginalIsHeld(r, e) /\ TargetFits(r, entry[e].date)
      BY <2>1, <2>4, <3>0 DEF RInv, Preparing
    <3>2. /\ cmd'[r].reversalOf = e /\ cmd'[r].date = Later(entry[e].date, target[r])
          /\ cmd'[r].accounts = entry[e].accounts
          /\ cmd'[r].source = [type |-> "journal_reversal", id |-> e]
      BY <2>4, <3>0
    <3>3. OriginalIsHeld(r, e)' /\ TargetFits(r, entry[e].date)'
      BY <2>1, <3>1, <2>2 DEF OriginalIsHeld, TargetFits, Holds, ReversalsOf, Posted, books
    <3> QED
      BY <2>1, <2>2, <2>4, <3>2, <3>3, OwnReversal DEF Preparing, Reversing, books
  <2> QED
    BY <1>4, <2>3, <2>4 DEF PostReversal, Proceed, Goto, IInv, TypeOK
<1> QED
  BY <1>1, <1>2, <1>3, <1>4

\* A commit writes the reversal that its request has prepared and no other.
LEMMA CommitRInv == ASSUME IInv, RInv, NEW r \in Request, Commit(r) PROVE RInv'
<1>1. Finish(r, "done") /\ "done" \in Terminal
  BY DEF Commit, Terminal
<1>2. /\ pc'[r] = "done" /\ UNCHANGED <<cmd, expected, target, todo>>
      /\ \A s \in Request \ {r} : pc'[s] = pc[s]
      /\ \A l \in held : l.by # r => l \in held'
  BY <1>1, FinishStep
<1>3. Preparing(r)' /\ Reversing(r)'
  BY <1>2 DEF Preparing, Reversing, Targeting, Committing
<1>4. \A s \in Request \ {r} :
        /\ \A row : Holds(s, row) => Holds(s, row)'
        /\ Targeting(s)' = Targeting(s)
  BY <1>1, FinishOthers
<1>5. CASE UNCHANGED <<period, entry>>
  <2>1. \A s \in Request \ {r} : \A e : OriginalIsHeld(s, e) => OriginalIsHeld(s, e)'
    BY <1>4, <1>5 DEF OriginalIsHeld, ReversalsOf, Posted
  <2>2. \A s \in Request \ {r} : \A d : TargetFits(s, d) => TargetFits(s, d)'
    BY <1>2, <1>4, <1>5 DEF TargetFits
  <2>3. OriginalsArePosted' /\ ReversedOnce'
    BY <1>5 DEF RInv, OriginalsArePosted, ReversedOnce, ReversalsOf, Posted
  <2>4. ASSUME NEW s \in Request, s # r PROVE Preparing(s)' /\ Reversing(s)'
    BY <1>2, <1>4, <1>5, <2>1, <2>2, <2>4 DEF RInv, Preparing, Reversing
  <2> QED
    BY <1>3, <2>3, <2>4 DEF RInv
<1>6. CASE /\ cmd[r].period \in Period /\ entry' = entry
           /\ \/ Committing(r, "createPeriod") /\ period' = [period EXCEPT ![cmd[r].period] = "open"]
              \/ Committing(r, "lockPeriod") /\ period' = [period EXCEPT ![cmd[r].period] = "locked"]
  <2>1. \A s \in Request \ {r} : \A e : OriginalIsHeld(s, e) => OriginalIsHeld(s, e)'
    BY <1>4, <1>6 DEF OriginalIsHeld, ReversalsOf, Posted
  <2>2. \A s \in Request \ {r} : \A d : TargetFits(s, d) => TargetFits(s, d)'
    <3>1. CASE Committing(r, "createPeriod")
      BY <1>2, <1>4, <1>6, <3>1 DEF TargetFits, IInv, TypeOK, Committing
    <3>2. CASE Committing(r, "lockPeriod")
      <4>1. Holds(r, <<"period", cmd[r].period>>)
        BY <3>2 DEF IInv, Ready, LockingIsOpen
      <4>2. \A s \in Request \ {r} : ~Holds(s, <<"period", cmd[r].period>>)
        BY <4>1, Exclusive DEF IInv
      <4> QED
        BY <1>2, <1>4, <1>6, <3>2, <4>2 DEF TargetFits, IInv, TypeOK, Committing
    <3> QED
      BY <1>6, <3>1, <3>2
  <2>3. OriginalsArePosted' /\ ReversedOnce'
    BY <1>6 DEF RInv, OriginalsArePosted, ReversedOnce, ReversalsOf, Posted
  <2>4. ASSUME NEW s \in Request, s # r PROVE Preparing(s)' /\ Reversing(s)'
    BY <1>2, <1>4, <1>6, <2>1, <2>2, <2>4 DEF RInv, Preparing, Reversing
  <2> QED
    BY <1>3, <2>3, <2>4 DEF RInv
<1>7. CASE /\ Committing(r, "post")
           /\ draft[r] \in EntryRow /\ draft[r] # None /\ entry[r] = None
           /\ entry' = [entry EXCEPT ![r] = draft[r]]
           /\ UNCHANGED <<period, account>>
  <2> DEFINE row == draft[r]
  <2>1. /\ r \notin Posted /\ Posted' = Posted \cup {r} /\ entry'[r] = row
        /\ \A e \in Posted : entry'[e] = entry[e] /\ e # r
    BY <1>7 DEF IInv, TypeOK, Entry, Posted
  <2>2. /\ row.date = cmd[r].date /\ row.accounts = cmd[r].accounts
        /\ row.reversalOf = cmd[r].reversalOf /\ row.reversalOf \in Entry \cup {None}
    BY <1>7, EntryType DEF IInv, Ready, DraftIsReady
  <2>3. row.reversalOf # None =>
          /\ OriginalIsHeld(r, row.reversalOf)
          /\ row.accounts = entry[row.reversalOf].accounts
          /\ row.date = Later(entry[row.reversalOf].date, target[r])
          /\ target[r] \in Period
    BY <1>7, <2>2 DEF RInv, Reversing, Targeting, TargetFits
  <2>4. \A e \in Posted : ReversalsOf(e)' = IF row.reversalOf = e THEN {r} ELSE ReversalsOf(e)
    <3>1. ASSUME NEW e \in Posted
          PROVE  ReversalsOf(e)' = ReversalsOf(e) \cup (IF row.reversalOf = e THEN {r} ELSE {})
      BY <2>1 DEF ReversalsOf
    <3>2. ASSUME NEW e \in Posted, row.reversalOf = e PROVE ReversalsOf(e) = {}
      BY <2>3, <3>2, NoneAssumption DEF OriginalIsHeld, Posted
    <3> QED
      BY <3>1, <3>2
  <2>5. ReversalsOf(r)' = {}
    BY <2>1, <2>3, NoneAssumption DEF ReversalsOf, OriginalIsHeld, RInv, OriginalsArePosted, Entry
  <2>6. OriginalsArePosted'
    BY <2>1, <2>3 DEF RInv, OriginalsArePosted, OriginalIsHeld
  <2>7. ReversedOnce'
    <3>1. ASSUME NEW e \in Posted, row.reversalOf = e
          PROVE  row.accounts = entry[e].accounts /\ row.date >= entry[e].date
      <4>1. /\ row.accounts = entry[e].accounts /\ target[r] \in Period
            /\ row.date = Later(entry[e].date, target[r])
        BY <2>3, <3>1, NoneAssumption DEF Posted
      <4>2. entry[e].date \in Nat
        BY EntryType, DateAssumption DEF Posted, IInv, TypeOK
      <4> QED
        BY <4>1, <4>2, PeriodType DEF Later
    <3>2. ASSUME NEW e \in Posted, NEW f \in ReversalsOf(e)', NEW g \in ReversalsOf(e)'
          PROVE  f = g /\ entry'[f].accounts = entry'[e].accounts /\ entry'[f].date >= entry'[e].date
      <4>1. CASE row.reversalOf = e
        BY <2>1, <2>4, <3>1, <4>1
      <4>2. CASE row.reversalOf # e
        <5>1. f \in ReversalsOf(e) /\ g \in ReversalsOf(e)
          BY <2>4, <4>2
        <5>2. f \in Posted
          BY <5>1 DEF ReversalsOf
        <5> QED
          BY <2>1, <5>1, <5>2 DEF RInv, ReversedOnce
      <4> QED
        BY <4>1, <4>2
    <3> QED
      BY <2>1, <2>5, <3>2 DEF ReversedOnce
  <2>8. ASSUME NEW s \in Request, s # r, NEW e, OriginalIsHeld(s, e)
        PROVE  OriginalIsHeld(s, e)' /\ entry'[e] = entry[e]
    <3>1. row.reversalOf # e
      <4>1. ~Holds(r, <<"entry", e>>)
        BY <2>8, Exclusive DEF IInv, OriginalIsHeld
      <4>2. e # None
        BY <2>8, NoneAssumption DEF OriginalIsHeld, Posted
      <4> QED
        BY <2>3, <4>1, <4>2 DEF OriginalIsHeld
    <3> QED
      BY <1>4, <2>1, <2>4, <2>8, <3>1 DEF OriginalIsHeld
  <2>9. \A s \in Request \ {r} : \A d : TargetFits(s, d) => TargetFits(s, d)'
    BY <1>2, <1>4, <1>7 DEF TargetFits
  <2>10. ASSUME NEW s \in Request, s # r PROVE Preparing(s)' /\ Reversing(s)'
    <3>1. Preparing(s) /\ Reversing(s)
      BY DEF RInv
    <3>2. Preparing(s)'
      BY <1>2, <2>8, <2>9, <2>10, <3>1 DEF Preparing
    <3>3. Reversing(s)'
      BY <1>2, <1>4, <2>8, <2>9, <2>10, <3>1 DEF Reversing
    <3> QED
      BY <3>2, <3>3
  <2> QED
    BY <1>3, <2>6, <2>7, <2>10 DEF RInv
<1> QED
  BY <1>5, <1>6, <1>7, CommitCases

\* The step relation preserves RInv.
LEMMA StepRInv == NoDirectReversals /\ IInv /\ RInv /\ [Next]_vars => RInv'
<1> SUFFICES ASSUME NoDirectReversals, IInv, RInv, [Next]_vars PROVE RInv'
  OBVIOUS
<1>1. CASE UNCHANGED vars
  <2>1. \A s \in Request : Preparing(s)' /\ Reversing(s)'
    BY <1>1, OthersReversing DEF RInv, vars, books
  <2> QED
    BY <1>1, <2>1 DEF RInv, OriginalsArePosted, ReversedOnce, ReversalsOf, Posted, vars
<1>2. CASE Next
  BY <1>2, PlainReversal, FindPeriodRInv, CheckRInv, PrepareRInv, CommitRInv DEF Next, Step
<1> QED
  BY <1>1, <1>2

\* An entry is reversed at most once, by an entry with its accounts that is not
\* dated before it, when reversals are made by reverse_journal_entry only.
THEOREM ReversalsAreSafe == NoDirectReversals => (Spec => []ReversedOnce)
<1> SUFFICES ASSUME NoDirectReversals PROVE Spec => []ReversedOnce
  OBVIOUS
<1>1. IInv /\ RInv /\ [Next]_vars => RInv'
  BY StepRInv
<1>2. RInv => ReversedOnce
  BY DEF RInv
<1> QED
  BY <1>1, <1>2, InitRInv, Inductive, PTL DEF Spec

-----------------------------------------------------------------------------
(* The ledger implements the indivisible books of Books.                   *)

\* A commit is one step of the books, or none when only is_active changes.
LEMMA CommitImplements ==
  ASSUME IInv, RInv, NEW r \in Request, Commit(r)
  PROVE  Promise!Next \/ UNCHANGED Promise!vars
<1> DEFINE control == [a \in Account |-> account[a].is_control]
<1>1. CASE /\ Committing(r, "createPeriod") /\ cmd[r].period \in Period
           /\ period' = [period EXCEPT ![cmd[r].period] = "open"]
           /\ UNCHANGED <<account, entry>>
  <2>1. \A q \in Period : period[q] # "none" =>
          cmd[r].period.last < q.first \/ q.last < cmd[r].period.first
    BY <1>1, PeriodType DEF IInv, Ready, CreationIsApart, Overlap
  <2>2. Promise!Open(cmd[r].period)
    BY <1>1, <2>1 DEF Promise!Open, Promise!Period, Period
  <2> QED
    BY <1>1, <2>2 DEF Promise!Next, Promise!Period, Period
<1>2. CASE /\ Committing(r, "lockPeriod") /\ cmd[r].period \in Period
           /\ period' = [period EXCEPT ![cmd[r].period] = "locked"]
           /\ UNCHANGED <<account, entry>>
  <2>1. Promise!Close(cmd[r].period)
    BY <1>2 DEF Promise!Close, IInv, Ready, LockingIsOpen
  <2> QED
    BY <1>2, <2>1 DEF Promise!Next, Promise!Period, Period
<1>3. CASE /\ Committing(r, "updateAccount") /\ cmd[r].account \in Account
           /\ account' = [account EXCEPT ![cmd[r].account] = Updated(r)]
           /\ UNCHANGED <<period, entry>>
  <2>0. PICK b \in Account : b = cmd[r].account
    BY <1>3
  <2>1. /\ cmd[r] \in Command /\ cmd[r].op = "updateAccount"
        /\ cmd[r].field \in {"is_active", "is_control"}
        /\ Updated(r) \in AccountRow
    BY <1>3, FieldType, UpdatedType DEF IInv, Ready, RightCommand, Committing, Active, Terminal
  <2>2. control' = [control EXCEPT ![b] = Updated(r).is_control]
    BY <1>3, <2>0 DEF IInv, TypeOK
  <2>3. CASE cmd[r].field = "is_active"
    <3>1. Updated(r).is_control = account[b].is_control
      BY <2>0, <2>1, <2>3, UpdatedType DEF IInv
    <3>2. control' = control
      BY <1>3, <2>2, <3>1
    <3> QED
      BY <1>3, <3>2 DEF Promise!vars
  <2>4. CASE cmd[r].field = "is_control"
    <3>1. \A e \in Promise!Made : b \notin entry[e].accounts
      BY <1>3, <2>0, <2>4 DEF IInv, Ready, UpdateIsCurrent, HasPostings, Posted, Promise!Made, Entry
    <3>2. Updated(r).is_control \in BOOLEAN
      BY <2>1 DEF AccountRow
    <3>3. Promise!Restructure(b)
      BY <1>3, <2>2, <3>1, <3>2 DEF Promise!Restructure
    <3> QED
      BY <3>3 DEF Promise!Next
  <2> QED
    BY <2>1, <2>3, <2>4
<1>4. CASE /\ Committing(r, "post")
           /\ draft[r] \in EntryRow /\ draft[r] # None /\ entry[r] = None
           /\ entry' = [entry EXCEPT ![r] = draft[r]]
           /\ UNCHANGED <<period, account>>
  <2> DEFINE row == draft[r]
             f == row.reversalOf
  <2>1. /\ row.period = target[r] /\ row.date = cmd[r].date /\ row.accounts = cmd[r].accounts
        /\ row.source = cmd[r].source /\ f = cmd[r].reversalOf /\ ~SourceUsed(row.source)
    BY <1>4 DEF IInv, Ready, DraftIsReady
  <2>2. entry'[r] = row /\ r \in Entry /\ entry' = [entry EXCEPT ![r] = entry'[r]]
    BY <1>4 DEF IInv, TypeOK, Entry
  <2>3. period[row.period] = "open" /\ row.period.first <= row.date /\ row.date <= row.period.last
    BY <1>4, <2>1 DEF IInv, Ready, TargetIsOpen, Targeting, Covers
  <2>4. row.source # None => \A g \in Promise!Made : entry[g].source # row.source
    BY <2>1 DEF SourceUsed, Posted, Promise!Made, Entry
  <2>5. Promise!Make(r)
    BY <1>4, <2>2, <2>3, <2>4 DEF Promise!Make, Promise!Made
  <2>6. CASE f = None
    BY <2>2, <2>5, <2>6 DEF Promise!Next, Promise!Post, Entry
  <2>7. CASE f # None
    <3>1. /\ OriginalIsHeld(r, f)
          /\ row.date = Later(entry[f].date, target[r])
          /\ row.accounts = entry[f].accounts
          /\ row.source = [type |-> "journal_reversal", id |-> f]
          /\ target[r] \in Period
      BY <1>4, <2>1, <2>7 DEF RInv, Reversing, Targeting, TargetFits
    <3>2. entry[f].date \in Nat
      BY <3>1, EntryType, DateAssumption DEF OriginalIsHeld, Posted, IInv, TypeOK
    <3>3. \/ row.date = entry[f].date
          \/ row.date > entry[f].date /\ row.date = row.period.first
      BY <2>1, <3>1, <3>2, PeriodType DEF Later
    <3>4. f \in Promise!Made /\ \A g \in Promise!Made : entry[g].reversalOf # f
      BY <3>1 DEF OriginalIsHeld, ReversalsOf, Posted, Promise!Made
    <3>5. Promise!Reverse(r, f)
      BY <2>2, <2>5, <3>1, <3>3, <3>4 DEF Promise!Reverse, OriginalIsHeld
    <3> QED
      BY <2>2, <3>4, <3>5 DEF Promise!Next
  <2> QED
    BY <2>6, <2>7
<1> QED
  BY <1>1, <1>2, <1>3, <1>4, CommitCases

\* Whatever the interleaving of their statements, requests have the effect of
\* indivisible steps on the books, as long as reversals are made by
\* reverse_journal_entry.
THEOREM Refinement == NoDirectReversals => (Spec => ImplementsBooks)
<1> SUFFICES ASSUME NoDirectReversals PROVE Spec => ImplementsBooks
  OBVIOUS
<1>1. Init => Promise!Init
  <2>1. Init => [a \in Account |-> account[a].is_control] = [a \in Account |-> FALSE]
    BY DEF Init
  <2> QED
    BY <2>1 DEF Init, Promise!Init, Promise!Period, Period
<1>2. ASSUME IInv, RInv, [Next]_vars
      PROVE  [Promise!Next]_(Promise!vars)
  <2>1. CASE UNCHANGED books
    BY <2>1 DEF books, Promise!vars
  <2>2. CASE \E r \in Request : Commit(r)
    BY <1>2, <2>2, CommitImplements
  <2> QED
    BY <1>2, <2>1, <2>2, OnlyCommitsWrite
<1>3. IInv /\ RInv /\ [Next]_vars => RInv'
  BY StepRInv
<1> QED
  BY <1>1, <1>2, <1>3, InitRInv, Inductive, PTL DEF Spec, ImplementsBooks, Promise!Spec

-----------------------------------------------------------------------------
(* The hierarchy of the chart of accounts, for every set of requests,      *)
(* accounts and commands: two accounts never become each other's parent,   *)
(* and a code is created once.  (That longer circles do appear is in the   *)
(* run of Acyclic.)                                                        *)
(*                                                                         *)
(* The walk of a move reads rows that nobody locks.  What it has learned   *)
(* of the new parent stays true because the move holds its own account,    *)
(* so that nobody can put another account below it (Learned).              *)
(*                                                                         *)
(* AccountTree is a specification of its own, about the same requests and  *)
(* accounts: no theorem is about Spec and Tree!Spec at once.               *)

CONSTANTS TreeCommands, Parent0
VARIABLES current, seen, version

Tree == INSTANCE AccountTree WITH Commands <- TreeCommands

\* What AccountTree assumes of its constants.
TreeAssumption ==
  /\ Tree!NoneAssumption
  /\ Tree!CommandsAssumption
  /\ Tree!ParentAssumption

TreeLabel == {"idle", "code", "account", "walk", "commit", "rollback", "done", "failed"}
TreeLock == [by : Request, account : Account, mode : {"share", "exclusive"}]

TreeTypeOK ==
  /\ pc \in [Request -> TreeLabel]
  /\ cmd \in [Request -> Tree!Command \cup {None}]
  /\ current \in [Request -> Account \cup {None}]
  /\ seen \in [Request -> SUBSET Account]
  /\ held \subseteq TreeLock
  /\ created \subseteq Account
  /\ parent \in [Account -> Account \cup {None}]

HoldsAccount(r, a) == Tree!Lock(r, a, "exclusive") \in held
SharesAccount(r, a) == Tree!Lock(r, a, "share") \in held

\* No two requests hold a row, unless both share it.
AccountLocksExclude ==
  \A l, m \in held :
    l.account = m.account /\ l.by # m.by => l.mode = "share" /\ m.mode = "share"

ParentsExist == \A a \in created : parent[a] \in created \cup {None}

\* The account that a request of the operation writes, and its parent.
Operates(r, op) == Tree!Active(r) /\ cmd[r].op = op
Moves(r) == Operates(r, "move")
Creates(r) == Operates(r, "create")

RightTreeCommand(r) ==
  /\ Tree!Active(r) => cmd[r] \in Tree!Command /\ cmd[r].parent \in created \cup {None}
  /\ Moves(r) => cmd[r].account \in created
  /\ pc[r] = "code" => cmd[r].op = "create"
  /\ pc[r] = "account" => cmd[r].op = "move"

MoveIsLocked(r) == pc[r] \in {"walk", "commit"} /\ Moves(r) => HoldsAccount(r, cmd[r].account)

\* The walk of a move starts at the new parent.
Begun(r) ==
  pc[r] = "account" => seen[r] = {cmd[r].account} /\ current[r] = cmd[r].parent

\* Once the walk has read the new parent's row, it is about to find the account
\* that moves, or that account is neither the new parent nor the parent's parent.
Learned(r) ==
  pc[r] = "walk" /\ Moves(r) /\ cmd[r].parent # None =>
    /\ cmd[r].account \in seen[r]
    /\ current[r] = cmd[r].parent \/ cmd[r].parent \in seen[r]
    /\ \/ cmd[r].parent \notin seen[r]
       \/ current[r] = cmd[r].account
       \/ cmd[r].parent # cmd[r].account /\ parent[cmd[r].parent] # cmd[r].account

\* The parent that is written is locked, unless it was the parent before.
MoveIsSafe(r) ==
  pc[r] = "commit" /\ Moves(r) /\ cmd[r].parent # None =>
    /\ cmd[r].parent # cmd[r].account
    /\ parent[cmd[r].parent] # cmd[r].account
    /\ SharesAccount(r, cmd[r].parent) \/ parent[cmd[r].account] = cmd[r].parent

CodeIsNew(r) == pc[r] = "commit" /\ Creates(r) => cmd[r].account \notin created

CodeIsTaken(r) == pc[r] = "done" /\ cmd[r].op = "create" => cmd[r].account \in created

TreeReady(r) ==
  /\ RightTreeCommand(r)
  /\ MoveIsLocked(r)
  /\ Begun(r)
  /\ Learned(r)
  /\ MoveIsSafe(r)
  /\ CodeIsNew(r)
  /\ CodeIsTaken(r)

\* Two uncommitted accounts never have the same code: the unique index.
InsertionsDiffer ==
  \A r, s \in Request :
    (/\ pc[r] = "commit" /\ pc[s] = "commit"
     /\ Creates(r) /\ Creates(s)
     /\ cmd[r].account = cmd[s].account) => r = s

TreeInv ==
  /\ TreeTypeOK
  /\ AccountLocksExclude
  /\ ParentsExist
  /\ NoMutualParents
  /\ CreatedOnce
  /\ InsertionsDiffer
  /\ \A r \in Request : TreeReady(r)

-----------------------------------------------------------------------------
(* Commands and locks.                                                     *)

LEMMA TreeFieldType ==
  ASSUME NEW c \in Tree!Command
  PROVE  c.op \in {"create", "move"} /\ c.account \in Account /\ c.parent \in Account \cup {None}
BY DEF Tree!Command

\* Taking locks leaves every lock where it is and keeps them exclusive.
LEMMA TakeAccountLocks ==
  ASSUME TreeTypeOK, AccountLocksExclude, NEW r \in Request, NEW accounts \in SUBSET Account,
         NEW mode \in {"share", "exclusive"},
         \A a \in accounts : Tree!Free(r, a, mode),
         held' = held \cup {Tree!Lock(r, a, mode) : a \in accounts}
  PROVE  /\ AccountLocksExclude' /\ held' \subseteq TreeLock /\ held \subseteq held'
         /\ \A a \in accounts : Tree!Lock(r, a, mode) \in held'
<1>1. \A a \in accounts : /\ Tree!Lock(r, a, mode) \in TreeLock
                          /\ Tree!Lock(r, a, mode).by = r /\ Tree!Lock(r, a, mode).account = a
                          /\ Tree!Lock(r, a, mode).mode = mode
  BY DEF Tree!Lock, TreeLock
<1>2. \A l \in held' : l \in held \/ \E a \in accounts : l = Tree!Lock(r, a, mode)
  OBVIOUS
<1>3. ASSUME NEW l \in held', NEW m \in held', l.account = m.account, l.by # m.by
      PROVE  l.mode = "share" /\ m.mode = "share"
  <2>1. CASE l \in held /\ m \in held
    BY <2>1, <1>3 DEF AccountLocksExclude
  <2>2. CASE l \in held /\ m \notin held
    BY <2>2, <1>1, <1>2, <1>3 DEF Tree!Free
  <2>3. CASE l \notin held /\ m \in held
    BY <2>3, <1>1, <1>2, <1>3 DEF Tree!Free
  <2>4. CASE l \notin held /\ m \notin held
    BY <2>4, <1>1, <1>2, <1>3
  <2> QED
    BY <2>1, <2>2, <2>3, <2>4
<1>4. AccountLocksExclude'
  BY <1>3 DEF AccountLocksExclude
<1> QED
  BY <1>1, <1>4 DEF TreeTypeOK

\* An account that one request holds nobody else holds or shares.
LEMMA ExclusiveAccount ==
  ASSUME AccountLocksExclude, NEW r \in Request, NEW s \in Request, NEW a, HoldsAccount(r, a),
         HoldsAccount(s, a) \/ SharesAccount(s, a)
  PROVE  r = s
BY DEF AccountLocksExclude, HoldsAccount, SharesAccount, Tree!Lock

-----------------------------------------------------------------------------
(* Every step preserves TreeInv.                                              *)

\* Initially nothing is in progress, and the chart goes round in no circle.
LEMMA InitTreeInv == TreeAssumption /\ Tree!Init => TreeInv
<1> SUFFICES ASSUME TreeAssumption, Tree!Init PROVE TreeInv
  OBVIOUS
<1>1. \A a \in created : parent[a] = Parent0[a] /\ a \in Account
  BY TreeAssumption DEF TreeAssumption, Tree!ParentAssumption, Tree!Init
<1>2. created = Tree!Created0 /\ \A a \in created : parent[a] \in created \cup {None}
  BY <1>1, TreeAssumption DEF TreeAssumption, Tree!ParentAssumption, Tree!Init
<1>3. TreeTypeOK
  BY <1>1, <1>2 DEF Tree!Init, TreeTypeOK, TreeLabel
<1>4. NoMutualParents
  <2>1. ASSUME NEW a \in created, NEW b \in created, parent[a] = b, parent[b] = a
        PROVE  FALSE
    <3>1. {a, b} \in SUBSET Tree!Created0 /\ {a, b} # {}
      BY <1>2
    <3>2. \A x \in {a, b} : Parent0[x] \in {a, b}
      BY <1>1, <2>1
    <3> QED
      BY <3>1, <3>2, TreeAssumption DEF TreeAssumption, Tree!ParentAssumption, Tree!Circular
  <2> QED
    BY <2>1 DEF NoMutualParents
<1>5. \A r \in Request : pc[r] = "idle"
  BY DEF Tree!Init
<1>6. AccountLocksExclude /\ ParentsExist /\ CreatedOnce /\ InsertionsDiffer
  BY <1>2, <1>5 DEF Tree!Init, AccountLocksExclude, ParentsExist, CreatedOnce,
                    InsertionsDiffer
<1>7. \A r \in Request : TreeReady(r)
  BY <1>5 DEF TreeReady, RightTreeCommand, MoveIsLocked, Begun, Learned, MoveIsSafe,
              CodeIsNew, CodeIsTaken, Moves, Creates, Operates, Tree!Active, Tree!Terminal
<1> QED
  BY <1>3, <1>4, <1>6, <1>7 DEF TreeInv

\* What s has checked stays so while the tree and its own state do.
LEMMA OthersTreeReady ==
  ASSUME NEW s \in Request, TreeReady(s),
         pc'[s] = pc[s], cmd'[s] = cmd[s], current'[s] = current[s], seen'[s] = seen[s],
         \A l \in held : l.by = s => l \in held',
         UNCHANGED Tree!tree
  PROVE  TreeReady(s)'
<1>1. \A a : /\ HoldsAccount(s, a) => HoldsAccount(s, a)'
             /\ SharesAccount(s, a) => SharesAccount(s, a)'
  BY DEF HoldsAccount, SharesAccount, Tree!Lock
<1>2. Tree!Active(s)' = Tree!Active(s) /\ Moves(s)' = Moves(s) /\ Creates(s)' = Creates(s)
  BY DEF Tree!Active, Moves, Creates, Operates
<1>3. UNCHANGED <<created, parent>>
  BY DEF Tree!tree
<1>4. RightTreeCommand(s)'
  BY <1>2, <1>3 DEF TreeReady, RightTreeCommand
<1>5. MoveIsLocked(s)' /\ Begun(s)'
  BY <1>1, <1>2 DEF TreeReady, MoveIsLocked, Begun
<1>6. Learned(s)'
  BY <1>2, <1>3 DEF TreeReady, Learned
<1>7. MoveIsSafe(s)'
  BY <1>1, <1>2, <1>3 DEF TreeReady, MoveIsSafe
<1>8. CodeIsNew(s)' /\ CodeIsTaken(s)'
  BY <1>2, <1>3 DEF TreeReady, CodeIsNew, CodeIsTaken
<1> QED
  BY <1>4, <1>5, <1>6, <1>7, <1>8 DEF TreeReady

\* A step of r other than its commit: it suffices to look at r.
LEMMA OwnTreeStep ==
  ASSUME TreeInv, NEW r \in Request, NEW label \in TreeLabel, Tree!Goto(r, label), label # "done",
         \A s \in Request \ {r} :
           cmd'[s] = cmd[s] /\ current'[s] = current[s] /\ seen'[s] = seen[s],
         cmd' \in [Request -> Tree!Command \cup {None}],
         current' \in [Request -> Account \cup {None}],
         seen' \in [Request -> SUBSET Account],
         \A l \in held : l.by # r => l \in held',
         held' \subseteq TreeLock, AccountLocksExclude',
         UNCHANGED Tree!tree,
         label = "commit" /\ cmd'[r].op = "create" =>
           \A s \in Request \ {r} :
             pc[s] = "commit" /\ cmd[s].op = "create" => cmd[s].account # cmd'[r].account,
         TreeReady(r)'
  PROVE  TreeInv'
<1>1. UNCHANGED <<created, parent>>
  BY DEF Tree!tree
<1>2. pc'[r] = label /\ \A s \in Request \ {r} : pc'[s] = pc[s]
  BY DEF TreeInv, TreeTypeOK, Tree!Goto
<1>3. TreeTypeOK' /\ ParentsExist' /\ NoMutualParents'
  BY <1>1 DEF TreeInv, TreeTypeOK, Tree!Goto, ParentsExist, NoMutualParents
<1>4. CreatedOnce'
  BY <1>2 DEF TreeInv, CreatedOnce
<1>5. InsertionsDiffer'
  <2>1. \A s \in Request \ {r} : Creates(s)' = Creates(s)
    BY <1>2 DEF Creates, Operates, Tree!Active
  <2>2. \A s \in Request : Creates(s) => cmd[s].op = "create"
    BY DEF Creates, Operates
  <2>3. Creates(r)' => cmd'[r].op = "create"
    BY DEF Creates, Operates
  <2> QED
    BY <1>2, <2>1, <2>2, <2>3 DEF TreeInv, InsertionsDiffer
<1>6. ASSUME NEW s \in Request, s # r PROVE TreeReady(s)'
  BY <1>2, <1>6, OthersTreeReady DEF TreeInv
<1> QED
  BY <1>3, <1>4, <1>5, <1>6 DEF TreeInv

\* A client sends a command.
LEMMA BeginTreeInv ==
  ASSUME TreeAssumption, TreeInv, NEW r \in Request, Tree!Begin(r)
  PROVE  TreeInv'
<1>1. PICK c \in TreeCommands :
        /\ c.parent \in created \cup {None}
        /\ c.op = "move" => c.account \in created
        /\ cmd' = [cmd EXCEPT ![r] = c]
        /\ current' = [current EXCEPT ![r] = c.parent]
        /\ seen' = [seen EXCEPT ![r] = IF c.op = "move" THEN {c.account} ELSE {}]
        /\ Tree!Goto(r, IF c.op = "move" THEN "account" ELSE "code")
  BY DEF Tree!Begin
<1> DEFINE label == IF c.op = "move" THEN "account" ELSE "code"
<1>2. /\ c \in Tree!Command /\ c.account \in Account /\ c.parent \in Account \cup {None}
      /\ c.op \in {"create", "move"}
  BY TreeAssumption, TreeFieldType DEF TreeAssumption, Tree!CommandsAssumption
<1>3. /\ cmd' \in [Request -> Tree!Command \cup {None}] /\ cmd'[r] = c
      /\ current' \in [Request -> Account \cup {None}] /\ current'[r] = c.parent
      /\ seen' \in [Request -> SUBSET Account]
      /\ c.op = "move" => seen'[r] = {c.account}
      /\ pc'[r] = label /\ label \in TreeLabel
      /\ \A s \in Request \ {r} :
           cmd'[s] = cmd[s] /\ current'[s] = current[s] /\ seen'[s] = seen[s]
  BY <1>1, <1>2 DEF TreeInv, TreeTypeOK, Tree!Goto, TreeLabel
<1>4. held' = held /\ UNCHANGED Tree!tree /\ UNCHANGED <<created, parent>>
  BY DEF Tree!Begin, Tree!tree
<1>5. TreeReady(r)'
  BY <1>1, <1>2, <1>3, <1>4 DEF TreeReady, RightTreeCommand, MoveIsLocked, Begun, Learned,
                                MoveIsSafe, CodeIsNew, CodeIsTaken, Moves, Creates,
                                Operates
<1>6. AccountLocksExclude' /\ held' \subseteq TreeLock
  BY <1>4 DEF TreeInv, TreeTypeOK, AccountLocksExclude
<1> QED
  BY <1>1, <1>3, <1>4, <1>5, <1>6, OwnTreeStep

\* The code is looked up before the walk.
LEMMA CheckCodeTreeInv == ASSUME TreeInv, NEW r \in Request, Tree!CheckCode(r) PROVE TreeInv'
<1>1. PICK label \in {"walk", "rollback"} : Tree!Goto(r, label)
  BY DEF Tree!CheckCode, Tree!Proceed
<1>2. /\ pc[r] = "code" /\ Tree!Active(r) /\ pc'[r] = label /\ label \in TreeLabel
      /\ UNCHANGED <<cmd, current, seen, held, created, parent>> /\ UNCHANGED Tree!tree
  BY <1>1 DEF Tree!CheckCode, Tree!Active, Tree!Terminal, Tree!local, Tree!tree, TreeInv,
              TreeTypeOK, Tree!Goto, TreeLabel
<1>3. cmd[r] \in Tree!Command /\ cmd[r].op = "create" /\ cmd[r].parent \in created \cup {None}
  BY <1>2 DEF TreeInv, TreeReady, RightTreeCommand
<1>4. TreeReady(r)'
  BY <1>2, <1>3 DEF TreeReady, RightTreeCommand, MoveIsLocked, Begun, Learned, MoveIsSafe,
                    CodeIsNew, CodeIsTaken, Moves, Creates, Operates
<1>5. /\ cmd' \in [Request -> Tree!Command \cup {None}]
      /\ current' \in [Request -> Account \cup {None}]
      /\ seen' \in [Request -> SUBSET Account]
      /\ held' \subseteq TreeLock /\ AccountLocksExclude'
  BY <1>2 DEF TreeInv, TreeTypeOK, AccountLocksExclude
<1> QED
  BY <1>1, <1>2, <1>4, <1>5, OwnTreeStep

\* A move locks its account before the walk.
LEMMA LockAccountTreeInv ==
  ASSUME TreeInv, NEW r \in Request, Tree!LockAccount(r)
  PROVE  TreeInv'
<1> DEFINE a == cmd[r].account
           b == cmd[r].parent
<1>1. PICK label \in {"walk", "rollback"} : Tree!Goto(r, label)
  BY DEF Tree!LockAccount, Tree!Proceed
<1>2. /\ pc[r] = "account" /\ Tree!Active(r) /\ pc'[r] = label /\ label \in TreeLabel
      /\ UNCHANGED <<cmd, current, seen, created, parent>> /\ UNCHANGED Tree!tree
  BY <1>1 DEF Tree!LockAccount, Tree!Active, Tree!Terminal, Tree!local, Tree!tree, TreeInv,
              TreeTypeOK, Tree!Goto, TreeLabel
<1>3. /\ cmd[r] \in Tree!Command /\ cmd[r].op = "move" /\ b \in created \cup {None}
      /\ a \in created /\ a \in Account
      /\ seen[r] = {a} /\ current[r] = b
  BY <1>2, TreeFieldType DEF TreeInv, TreeReady, RightTreeCommand, Begun, Moves, Operates
<1>4. /\ AccountLocksExclude' /\ held' \subseteq TreeLock /\ held \subseteq held'
      /\ Tree!Lock(r, a, "exclusive") \in held'
  <2>1. held' = held \cup {Tree!Lock(r, x, "exclusive") : x \in {a}}
    BY DEF Tree!LockAccount
  <2>2. {a} \in SUBSET Account /\ \A x \in {a} : Tree!Free(r, x, "exclusive")
    BY <1>3 DEF Tree!LockAccount
  <2> QED
    BY <2>1, <2>2, TakeAccountLocks DEF TreeInv
<1>5. RightTreeCommand(r)' /\ MoveIsLocked(r)' /\ Begun(r)'
  BY <1>2, <1>3, <1>4 DEF RightTreeCommand, MoveIsLocked, Begun, Moves, Operates,
                          HoldsAccount
<1>6. Learned(r)'
  BY <1>2, <1>3 DEF Learned, Moves, Operates
<1>7. MoveIsSafe(r)' /\ CodeIsNew(r)' /\ CodeIsTaken(r)'
  BY <1>2 DEF MoveIsSafe, CodeIsNew, CodeIsTaken
<1>8. TreeReady(r)'
  BY <1>5, <1>6, <1>7 DEF TreeReady
<1>9. /\ cmd' \in [Request -> Tree!Command \cup {None}]
      /\ current' \in [Request -> Account \cup {None}]
      /\ seen' \in [Request -> SUBSET Account]
  BY <1>2 DEF TreeInv, TreeTypeOK
<1> QED
  BY <1>1, <1>2, <1>4, <1>8, <1>9, OwnTreeStep

\* A turn of the walk.
LEMMA WalkTreeInv == ASSUME TreeInv, NEW r \in Request, Tree!Walk(r) PROVE TreeInv'
<1> DEFINE a == cmd[r].account
           b == cmd[r].parent
           x == current[r]
<1>1. PICK label \in {"walk", "rollback"} :
        Tree!Goto(r, label) /\ (label = "walk" => x \notin seen[r])
  BY DEF Tree!Walk, Tree!Proceed
<1>2. /\ pc[r] = "walk" /\ Tree!Active(r) /\ pc'[r] = label /\ label \in TreeLabel
      /\ UNCHANGED <<cmd, held, created, parent>> /\ UNCHANGED Tree!tree
  BY <1>1 DEF Tree!Walk, Tree!Active, Tree!Terminal, Tree!tree, TreeInv, TreeTypeOK,
              Tree!Goto, TreeLabel
<1>3. /\ x \in Account
      /\ seen' \in [Request -> SUBSET Account] /\ seen'[r] = seen[r] \cup {x}
      /\ current' \in [Request -> Account \cup {None}] /\ current'[r] = parent[x]
      /\ \A s \in Request \ {r} : current'[s] = current[s] /\ seen'[s] = seen[s]
  BY DEF Tree!Walk, TreeInv, TreeTypeOK
<1>4. cmd[r] \in Tree!Command /\ b \in created \cup {None} /\ (Moves(r) => a \in created)
  BY <1>2 DEF TreeInv, TreeReady, RightTreeCommand
<1>5. RightTreeCommand(r)' /\ MoveIsLocked(r)' /\ Begun(r)'
  BY <1>2, <1>4 DEF TreeInv, TreeReady, RightTreeCommand, MoveIsLocked, Begun, Moves,
                    Operates, HoldsAccount, Tree!Active
<1>6. Learned(r)'
  <2>1. SUFFICES ASSUME label = "walk", Moves(r), b # None
                 PROVE  /\ a \in seen'[r]
                        /\ current'[r] = b \/ b \in seen'[r]
                        /\ b \notin seen'[r] \/ current'[r] = a \/ (b # a /\ parent[b] # a)
    BY <1>2 DEF Learned, Moves, Operates, Tree!Active
  <2>2. /\ a \in seen[r] /\ (x = b \/ b \in seen[r])
        /\ b \notin seen[r] \/ x = a \/ (b # a /\ parent[b] # a)
    BY <1>2, <2>1 DEF TreeInv, TreeReady, Learned
  <2>3. x \notin seen[r] /\ x # a
    BY <1>1, <2>1, <2>2
  <2> QED
    BY <1>3, <2>2, <2>3
<1>7. MoveIsSafe(r)' /\ CodeIsNew(r)' /\ CodeIsTaken(r)'
  BY <1>2 DEF MoveIsSafe, CodeIsNew, CodeIsTaken
<1>8. TreeReady(r)'
  BY <1>5, <1>6, <1>7 DEF TreeReady
<1>9. /\ cmd' \in [Request -> Tree!Command \cup {None}]
      /\ held' \subseteq TreeLock /\ AccountLocksExclude'
  BY <1>2 DEF TreeInv, TreeTypeOK, AccountLocksExclude
<1> QED
  BY <1>1, <1>2, <1>3, <1>8, <1>9, OwnTreeStep

\* The flush of a move shares the new parent, unless it was the parent before.
LEMMA WriteParentTreeInv ==
  ASSUME TreeAssumption, TreeInv, NEW r \in Request, Tree!WriteParent(r)
  PROVE  TreeInv'
<1> DEFINE a == cmd[r].account
           b == cmd[r].parent
<1>1. /\ pc[r] = "walk" /\ current[r] = None /\ cmd[r].op = "move" /\ Moves(r) /\ Tree!Active(r)
      /\ Tree!Goto(r, "commit") /\ pc'[r] = "commit" /\ "commit" \in TreeLabel
      /\ UNCHANGED <<cmd, current, seen, created, parent>> /\ UNCHANGED Tree!tree
  BY DEF Tree!WriteParent, Tree!Reached, Moves, Operates, Tree!Active, Tree!Terminal,
         Tree!local, Tree!tree, TreeInv, TreeTypeOK, Tree!Goto, TreeLabel
<1>2. /\ cmd[r] \in Tree!Command /\ b \in created \cup {None} /\ a \in created
      /\ a \in Account /\ b \in Account \cup {None} /\ HoldsAccount(r, a)
  BY <1>1, TreeFieldType DEF TreeInv, TreeReady, RightTreeCommand, MoveIsLocked
<1>3. Tree!NewParent(r) \in SUBSET Account
  BY <1>2 DEF Tree!NewParent, Tree!RefersTo
<1>4. /\ AccountLocksExclude' /\ held' \subseteq TreeLock /\ held \subseteq held'
      /\ \A x \in Tree!NewParent(r) : Tree!Lock(r, x, "share") \in held'
  BY <1>3, TakeAccountLocks DEF Tree!WriteParent, Tree!Refer, TreeInv
<1>5. b # None => b # a /\ parent[b] # a
  BY <1>1, <1>2, TreeAssumption
     DEF TreeAssumption, Tree!NoneAssumption, TreeInv, TreeReady, Learned
<1>6. b # None => Tree!Lock(r, b, "share") \in held' \/ parent[a] = b
  BY <1>4 DEF Tree!NewParent, Tree!RefersTo
<1>7. MoveIsSafe(r)'
  BY <1>1, <1>5, <1>6 DEF MoveIsSafe, SharesAccount
<1>8. RightTreeCommand(r)' /\ MoveIsLocked(r)'
  BY <1>1, <1>2, <1>4 DEF RightTreeCommand, MoveIsLocked, Moves, Operates, HoldsAccount
<1>9. Begun(r)' /\ Learned(r)' /\ CodeIsNew(r)' /\ CodeIsTaken(r)'
  BY <1>1 DEF Begun, Learned, CodeIsNew, CodeIsTaken, Creates, Operates
<1>10. TreeReady(r)'
  BY <1>7, <1>8, <1>9 DEF TreeReady
<1>11. /\ cmd' \in [Request -> Tree!Command \cup {None}]
      /\ current' \in [Request -> Account \cup {None}]
       /\ seen' \in [Request -> SUBSET Account]
  BY <1>1 DEF TreeInv, TreeTypeOK
<1> QED
  BY <1>1, <1>4, <1>10, <1>11, OwnTreeStep

\* An insertion comes after every other one of the same code.
LEMMA InsertAccountTreeInv ==
  ASSUME TreeInv, NEW r \in Request, Tree!InsertAccount(r)
  PROVE  TreeInv'
<1>1. /\ pc[r] = "walk" /\ cmd[r].op = "create" /\ Tree!Active(r)
      /\ UNCHANGED <<cmd, current, seen, created, parent>> /\ UNCHANGED Tree!tree
  BY DEF Tree!InsertAccount, Tree!Reached, Tree!Active, Tree!Terminal, Tree!local, Tree!tree
<1>2. /\ cmd[r] \in Tree!Command /\ cmd[r].parent \in created \cup {None}
      /\ cmd[r].parent \in Account \cup {None}
  BY <1>1, TreeFieldType DEF TreeInv, TreeReady, RightTreeCommand
<1>3. PICK label \in {"commit", "rollback"} :
        /\ Tree!Goto(r, label)
        /\ label = "commit" => cmd[r].account \notin created /\ Tree!Refer(r, Tree!RefersTo(r))
        /\ label = "rollback" => held' = held
  BY DEF Tree!InsertAccount, Tree!CodeInUse
<1>4. pc'[r] = label /\ label \in TreeLabel
  BY <1>3 DEF TreeInv, TreeTypeOK, Tree!Goto, TreeLabel
<1>5. AccountLocksExclude' /\ held' \subseteq TreeLock /\ held \subseteq held'
  <2>1. CASE label = "commit"
    <3>1. Tree!RefersTo(r) \in SUBSET Account
      BY <1>2 DEF Tree!RefersTo
    <3> QED
      BY <1>3, <2>1, <3>1, TakeAccountLocks DEF Tree!Refer, TreeInv
  <2>2. CASE label = "rollback"
    BY <1>3, <2>2 DEF TreeInv, TreeTypeOK, AccountLocksExclude
  <2> QED
    BY <2>1, <2>2
<1>6. TreeReady(r)'
  BY <1>1, <1>2, <1>3, <1>4 DEF TreeReady, RightTreeCommand, MoveIsLocked, Begun, Learned,
                                MoveIsSafe, CodeIsNew, CodeIsTaken, Moves, Creates,
                                Operates
<1>7. /\ cmd' \in [Request -> Tree!Command \cup {None}]
      /\ current' \in [Request -> Account \cup {None}]
      /\ seen' \in [Request -> SUBSET Account]
  BY <1>1 DEF TreeInv, TreeTypeOK
<1>8. \A s \in Request \ {r} :
        pc[s] = "commit" /\ cmd[s].op = "create" => cmd[s].account # cmd'[r].account
  BY <1>1 DEF Tree!InsertAccount, Tree!InsertInFlight, Tree!HasCode
<1> QED
  BY <1>1, <1>3, <1>4, <1>5, <1>6, <1>7, <1>8, OwnTreeStep

\* A transaction that is rolled back, ended by the database or lost.
LEMMA UndoTreeInv == ASSUME TreeInv, NEW r \in Request, Tree!Undo(r) PROVE TreeInv'
<1>1. /\ Tree!Goto(r, "failed") /\ pc'[r] = "failed" /\ "failed" \in TreeLabel
      /\ UNCHANGED <<cmd, current, seen>> /\ UNCHANGED Tree!tree
      /\ held' = {l \in held : l.by # r}
  BY DEF Tree!Undo, Tree!Finish, Tree!local, TreeInv, TreeTypeOK, Tree!Goto, TreeLabel
<1>2. TreeReady(r)'
  BY <1>1 DEF TreeReady, RightTreeCommand, MoveIsLocked, Begun, Learned, MoveIsSafe,
              CodeIsNew, CodeIsTaken, Moves, Creates, Operates, Tree!Active, Tree!Terminal
<1>3. /\ cmd' \in [Request -> Tree!Command \cup {None}]
      /\ current' \in [Request -> Account \cup {None}]
      /\ seen' \in [Request -> SUBSET Account]
      /\ held' \subseteq TreeLock /\ AccountLocksExclude'
  BY <1>1 DEF TreeInv, TreeTypeOK, AccountLocksExclude
<1> QED
  BY <1>1, <1>2, <1>3, OwnTreeStep

\* What r knows when it commits: of a move, that its account is in the tree and
\* held, and of a creation, that the account is new.
LEMMA CommitTreeFacts ==
  ASSUME TreeInv, NEW r \in Request, pc[r] = "commit"
  PROVE  /\ cmd[r].account \in Account
         /\ cmd[r].parent \in created \cup {None}
         /\ \/ /\ Moves(r) /\ ~Creates(r) /\ cmd[r].op = "move"
               /\ cmd[r].account \in created /\ HoldsAccount(r, cmd[r].account)
               /\ cmd[r].parent # None =>
                    /\ cmd[r].parent # cmd[r].account
                    /\ parent[cmd[r].parent] # cmd[r].account
                    /\ \/ SharesAccount(r, cmd[r].parent)
                       \/ parent[cmd[r].account] = cmd[r].parent
            \/ /\ Creates(r) /\ ~Moves(r) /\ cmd[r].op = "create"
               /\ cmd[r].account \notin created
<1>1. Tree!Active(r) /\ cmd[r] \in Tree!Command
  BY DEF TreeInv, TreeReady, RightTreeCommand, Tree!Active, Tree!Terminal
<1>2. /\ cmd[r].op \in {"create", "move"} /\ cmd[r].account \in Account
      /\ cmd[r].parent \in created \cup {None}
  BY <1>1, TreeFieldType DEF TreeInv, TreeReady, RightTreeCommand
<1>3. CASE cmd[r].op = "move"
  BY <1>1, <1>2, <1>3 DEF TreeInv, TreeReady, RightTreeCommand, MoveIsLocked, MoveIsSafe,
                          Moves, Creates, Operates
<1>4. CASE cmd[r].op = "create"
  BY <1>1, <1>2, <1>4 DEF TreeInv, TreeReady, CodeIsNew, Moves, Creates, Operates
<1> QED
  BY <1>2, <1>3, <1>4

\* A commit puts nothing below an account that another move holds, and writes
\* no account that another move holds or names as its parent.
LEMMA CommitKeepsTree ==
  ASSUME TreeAssumption, TreeInv, NEW r \in Request, pc[r] = "commit",
         NEW s \in Request, s # r, Moves(s), pc[s] \in {"walk", "commit"},
         parent' = [parent EXCEPT ![cmd[r].account] = cmd[r].parent]
  PROVE  /\ parent'[cmd[s].account] = parent[cmd[s].account]
         /\ cmd[s].parent # None /\ parent[cmd[s].parent] # cmd[s].account =>
              parent'[cmd[s].parent] # cmd[s].account
<1> DEFINE a == cmd[r].account
           b == cmd[r].parent
           c == cmd[s].account
           d == cmd[s].parent
<1>1. /\ c \in created /\ HoldsAccount(s, c) /\ d \in created \cup {None}
  BY DEF TreeInv, TreeReady, RightTreeCommand, MoveIsLocked, Moves, Operates
<1>2. /\ parent'[a] = b /\ \A x \in Account \ {a} : parent'[x] = parent[x]
      /\ created \subseteq Account
  BY CommitTreeFacts DEF TreeInv, TreeTypeOK
<1>3. c # a
  BY <1>1, CommitTreeFacts, ExclusiveAccount DEF TreeInv
<1>4. d # None /\ d = a => b # c \/ parent[a] = c
  <2>1. SUFFICES ASSUME d # None, d = a, b = c PROVE parent[a] = c
    OBVIOUS
  <2>2. b # None /\ a \in created
    BY <1>1, <2>1, TreeAssumption
       DEF TreeAssumption, Tree!NoneAssumption, TreeInv, TreeTypeOK
  <2>3. SharesAccount(r, b) \/ parent[a] = b
    BY <2>2, CommitTreeFacts
  <2> QED
    BY <1>1, <2>1, <2>3, ExclusiveAccount DEF TreeInv
<1> QED
  BY <1>1, <1>2, <1>3, <1>4

LEMMA CommitTreeInv ==
  ASSUME TreeAssumption, TreeInv, NEW r \in Request, Tree!Commit(r)
  PROVE  TreeInv'
<1> DEFINE a == cmd[r].account
           b == cmd[r].parent
<1>1. /\ pc[r] = "commit" /\ held' = {l \in held : l.by # r}
      /\ UNCHANGED <<cmd, current, seen>>
      /\ pc' \in [Request -> TreeLabel] /\ pc'[r] = "done"
      /\ \A s \in Request \ {r} : pc'[s] = pc[s]
      /\ created' = created \cup {a}
      /\ parent' = [parent EXCEPT ![cmd[r].account] = cmd[r].parent]
  BY DEF Tree!Commit, Tree!Finish, Tree!Goto, Tree!local, TreeInv, TreeTypeOK, TreeLabel
<1>2. a \in Account /\ b \in created \cup {None} /\ b \in Account \cup {None}
  BY <1>1, CommitTreeFacts DEF TreeInv, TreeTypeOK
<1>3. /\ parent' \in [Account -> Account \cup {None}] /\ parent'[a] = b
      /\ \A x \in Account \ {a} : parent'[x] = parent[x]
  BY <1>1, <1>2 DEF TreeInv, TreeTypeOK
<1>4. TreeTypeOK' /\ AccountLocksExclude'
  BY <1>1, <1>2, <1>3 DEF TreeInv, TreeTypeOK, AccountLocksExclude
<1>5. ParentsExist'
  BY <1>1, <1>2, <1>3 DEF TreeInv, TreeTypeOK, ParentsExist
<1>6. NoMutualParents'
  <2>1. b # None => b # a /\ parent[b] # a
    <3>1. a \notin created /\ b # None => b # a /\ parent[b] # a
      BY <1>2, TreeAssumption DEF TreeAssumption, Tree!NoneAssumption, TreeInv, ParentsExist
    <3> QED
      BY <1>1, <3>1, CommitTreeFacts
  <2>2. \A x \in created' : parent'[a] = x => parent'[x] # a
    BY <1>1, <1>2, <1>3, <2>1, TreeAssumption
       DEF TreeAssumption, Tree!NoneAssumption, TreeInv, TreeTypeOK
  <2>3. \A x, y \in created : x # a /\ y # a /\ parent'[x] = y => parent'[y] # x
    BY <1>3 DEF TreeInv, TreeTypeOK, NoMutualParents
  <2> QED
    BY <1>1, <2>2, <2>3 DEF NoMutualParents
<1>7. CreatedOnce'
  <2>1. ASSUME NEW s \in Request \ {r}, pc[s] = "done", cmd[s].op = "create"
        PROVE  cmd[s].account \in created
    BY <2>1 DEF TreeInv, TreeReady, CodeIsTaken
  <2>2. cmd[r].op = "create" => a \notin created
    BY <1>1, CommitTreeFacts
  <2> QED
    BY <1>1, <2>1, <2>2 DEF TreeInv, CreatedOnce
<1>8. InsertionsDiffer'
  BY <1>1 DEF TreeInv, InsertionsDiffer, Creates, Operates, Tree!Active
<1>9. ASSUME NEW s \in Request, s # r PROVE TreeReady(s)'
  <2>1. /\ pc'[s] = pc[s] /\ cmd'[s] = cmd[s] /\ Tree!Active(s)' = Tree!Active(s)
        /\ Moves(s)' = Moves(s) /\ Creates(s)' = Creates(s)
        /\ seen'[s] = seen[s] /\ current'[s] = current[s]
    BY <1>1, <1>9 DEF Tree!Active, Moves, Creates, Operates
  <2>2. \A x : /\ HoldsAccount(s, x) => HoldsAccount(s, x)'
               /\ SharesAccount(s, x) => SharesAccount(s, x)'
    BY <1>1, <1>9 DEF HoldsAccount, SharesAccount, Tree!Lock
  <2>3. RightTreeCommand(s)' /\ MoveIsLocked(s)' /\ Begun(s)' /\ CodeIsTaken(s)'
    BY <1>1, <2>1, <2>2 DEF TreeInv, TreeReady, RightTreeCommand, MoveIsLocked, Begun,
                            CodeIsTaken
  <2>4. Moves(s) /\ pc[s] \in {"walk", "commit"} =>
          /\ parent'[cmd[s].account] = parent[cmd[s].account]
          /\ cmd[s].parent # None /\ parent[cmd[s].parent] # cmd[s].account =>
               parent'[cmd[s].parent] # cmd[s].account
    BY <1>1, <1>9, CommitKeepsTree
  <2>5. Learned(s)'
    BY <2>1, <2>4 DEF TreeInv, TreeReady, Learned
  <2>6. MoveIsSafe(s)'
    BY <2>1, <2>2, <2>4 DEF TreeInv, TreeReady, MoveIsSafe
  <2>7. CodeIsNew(s)'
    <3>1. SUFFICES ASSUME pc[s] = "commit", Creates(s) PROVE cmd[s].account \notin created'
      BY <2>1 DEF CodeIsNew
    <3>2. cmd[s].account \notin created
      BY <3>1 DEF TreeInv, TreeReady, CodeIsNew
    <3>3. cmd[s].account # a
      BY <1>1, <1>9, <3>1, <3>2, CommitTreeFacts DEF TreeInv, InsertionsDiffer
    <3> QED
      BY <1>1, <3>2, <3>3
  <2> QED
    BY <2>3, <2>5, <2>6, <2>7 DEF TreeReady
<1>10. TreeReady(r)'
  BY <1>1 DEF TreeReady, RightTreeCommand, MoveIsLocked, Begun, Learned, MoveIsSafe,
              CodeIsNew, CodeIsTaken, Moves, Creates, Operates, Tree!Active, Tree!Terminal
<1> QED
  BY <1>4, <1>5, <1>6, <1>7, <1>8, <1>9, <1>10 DEF TreeInv

\* TreeInv is an invariant.
THEOREM TreeInductive == TreeAssumption => (Tree!Spec => []TreeInv)
<1> SUFFICES ASSUME TreeAssumption PROVE Tree!Spec => []TreeInv
  OBVIOUS
<1>1. TreeInv /\ [Tree!Next]_(Tree!vars) => TreeInv'
  <2> SUFFICES ASSUME TreeInv, [Tree!Next]_(Tree!vars) PROVE TreeInv'
    OBVIOUS
  <2>1. ASSUME NEW r \in Request, Tree!Begin(r) PROVE TreeInv'
    BY <2>1, BeginTreeInv
  <2>2. ASSUME NEW r \in Request, Tree!Step(r) PROVE TreeInv'
    BY <2>2, CheckCodeTreeInv, LockAccountTreeInv, WalkTreeInv, WriteParentTreeInv,
       InsertAccountTreeInv, CommitTreeInv, UndoTreeInv
       DEF Tree!Step, Tree!Rollback
  <2>3. ASSUME NEW r \in Request, Tree!Crash(r) \/ Tree!Timeout(r) PROVE TreeInv'
    BY <2>3, UndoTreeInv DEF Tree!Crash, Tree!Timeout
  <2>4. CASE UNCHANGED Tree!vars
    <3>1. UNCHANGED <<pc, cmd, current, seen, held, created, parent>> /\ UNCHANGED Tree!tree
      BY <2>4 DEF Tree!vars, Tree!local, Tree!tree
    <3>2. \A r \in Request : TreeReady(r)'
      BY <3>1, OthersTreeReady DEF TreeInv
    <3>3. \A r \in Request : Creates(r)' = Creates(r)
      BY <3>1 DEF Creates, Operates, Tree!Active
    <3> QED
      BY <3>1, <3>2, <3>3 DEF TreeInv, TreeTypeOK, AccountLocksExclude, ParentsExist,
                              NoMutualParents, CreatedOnce, InsertionsDiffer
  <2> QED
    BY <2>1, <2>2, <2>3, <2>4 DEF Tree!Next
<1>2. Tree!Init => TreeInv
  BY InitTreeInv
<1> QED
  BY <1>1, <1>2, PTL DEF Tree!Spec

\* Two accounts never become each other's parent, although the walks of moves
\* read rows that nobody locks (_assert_no_parent_cycle).
THEOREM NoTwoCircle == TreeAssumption => (Tree!Spec => []NoMutualParents)
BY TreeInductive, PTL DEF TreeInv

\* One creation of a code succeeds (create_account).
THEOREM OneCreation == TreeAssumption => (Tree!Spec => []CreatedOnce)
BY TreeInductive, PTL DEF TreeInv
=============================================================================
