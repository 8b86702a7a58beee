------------------------------- MODULE Ledger -------------------------------
(***************************************************************************)
(* The general ledger of one organization: posting and reversing journal   *)
(* entries (app/domains/ledger/service.py), creating and locking fiscal    *)
(* periods and changing the flags of an account                            *)
(* (app/domains/accounting/service.py), by requests that run concurrently. *)
(*                                                                         *)
(* A request is one PostgreSQL transaction at READ COMMITTED.  An action   *)
(* is one statement of it that takes a lock or reads what it has not       *)
(* locked: a statement sees the rows committed when it runs, SELECT ...    *)
(* FOR UPDATE waits for the row and then reads its latest version, an      *)
(* INSERT locks the rows its foreign keys name in share mode (FOR KEY      *)
(* SHARE) and waits for an uncommitted row that would violate a unique     *)
(* index.  Writes become visible, and locks are released, at commit.       *)
(*                                                                         *)
(* Amounts are abstracted: a JournalPostCommand that reaches the service   *)
(* is balanced by validation.  The idempotency claim is in Idempotency;    *)
(* here it matters only as the first insertion of a transaction, which     *)
(* locks the organization's row in share mode.  Every request that changes *)
(* anything carries a key that is new.                                     *)
(***************************************************************************)
EXTENDS Requests, Integers, Waits

CONSTANTS
  Account,         \* accounts of the chart
  Date,            \* calendar days, a set of naturals
  Commands,        \* what clients may ask for
  InitialPeriods,  \* periods already open
  InitialEntries,  \* a function: the requests served before, with their entries
  None             \* absence of a value

Period == {p \in [first : Date, last : Date] : p.first <= p.last}
Entry == Request   \* the entry that r posts is called r

Covers(p, date) == p.first <= date /\ date <= p.last
Overlap(p, q) == p.first <= q.last /\ q.first <= p.last

\* source_type and source_id of an entry: a reversal names the entry that it
\* reverses; clients that post by hand may name anything or nothing.
Source == [type : {"manual", "journal_reversal"}, id : Entry]

PostCommand ==
  [op : {"post"}, date : Date, accounts : SUBSET Account,
   source : Source \cup {None}, reversalOf : Entry \cup {None}]
ReverseCommand == [op : {"reverse"}, entry : Entry]
CreateCommand == [op : {"createPeriod"}, period : Period]
LockCommand == [op : {"lockPeriod"}, period : Period]
UpdateCommand ==
  [op : {"updateAccount"}, account : Account,
   field : {"is_active", "is_control"}, value : BOOLEAN]

Command ==
  PostCommand \cup ReverseCommand \cup CreateCommand \cup LockCommand
    \cup UpdateCommand

EntryRow == [period : Period, date : Date, accounts : SUBSET Account,
             source : Source \cup {None}, reversalOf : Entry \cup {None}]

ASSUME DateAssumption == Date \subseteq Nat
ASSUME CommandsAssumption == Commands \subseteq Command
ASSUME PeriodsAssumption ==
  /\ InitialPeriods \subseteq Period
  /\ \A p, q \in InitialPeriods : p # q => ~Overlap(p, q)
ASSUME EntriesAssumption ==
  \A e \in DOMAIN InitialEntries :
    /\ e \in Entry /\ InitialEntries[e] \in EntryRow
    /\ InitialEntries[e].period \in InitialPeriods
    /\ Covers(InitialEntries[e].period, InitialEntries[e].date)
    /\ InitialEntries[e].source = None /\ InitialEntries[e].reversalOf = None
ASSUME NoneAssumption ==
  /\ None \notin Entry /\ None \notin Period /\ None \notin Source
  /\ None \notin EntryRow

VARIABLES
  expected,  \* expected[r]: the account version the client of r has read
  target,    \* target[r]: the period r posts into
  todo,      \* todo[r]: periods that r's SELECT ... FOR UPDATE has yet to lock
  draft,     \* draft[r]: the entry r has inserted and not committed
  held,      \* row locks: the holder, the row and the mode
  period,    \* period[p]: "none", "open" or "locked"
  account,   \* account[a]: flags and version of the row
  entry      \* entry[e]: the posted entry e, or None

vars == <<pc, cmd, expected, target, todo, draft, held, period, account, entry>>
local == <<cmd, expected, target, todo, draft>>
books == <<period, account, entry>>

AccountRow == [is_active : BOOLEAN, is_control : BOOLEAN, version : Nat]

Organization == <<"organization", None>>
Row == {Organization} \cup ({"period"} \X Period) \cup ({"entry"} \X Entry)
         \cup ({"account"} \X Account)

Init ==
  /\ pc = [r \in Request |-> IF r \in DOMAIN InitialEntries THEN "done" ELSE "idle"]
  /\ cmd = [r \in Request |-> None]
  /\ expected = [r \in Request |-> 0]
  /\ target = [r \in Request |-> None]
  /\ todo = [r \in Request |-> {}]
  /\ draft = [r \in Request |-> None]
  /\ held = {}
  /\ period = [p \in Period |-> IF p \in InitialPeriods THEN "open" ELSE "none"]
  /\ account = [a \in Account |->
                  [is_active |-> TRUE, is_control |-> FALSE, version |-> 1]]
  /\ entry = [e \in Entry |-> IF e \in DOMAIN InitialEntries THEN InitialEntries[e] ELSE None]

-----------------------------------------------------------------------------
(* Row locks.                                                              *)

Lock(r, row, mode) == [by |-> r, row |-> row, mode |-> mode]

\* Share locks are compatible with each other and with one's own locks.
Free(r, row, mode) ==
  \A l \in held : l.row = row /\ l.by # r => mode = "share" /\ l.mode = "share"

\* SELECT ... FOR UPDATE of one row.
Acquire(r, row) ==
  /\ Free(r, row, "exclusive")
  /\ held' = held \cup {Lock(r, row, "exclusive")}

Release(r) == held' = {l \in held : l.by # r}

-----------------------------------------------------------------------------
Posted == {e \in Entry : entry[e] # None}
ReversalsOf(e) == {f \in Posted : entry[f].reversalOf = e}
HasPostings(a) == \E e \in Posted : a \in entry[e].accounts

\* A client names only what it has seen committed.
Known(c) ==
  CASE c.op = "post"    -> c.reversalOf \in Posted \cup {None}
    [] c.op = "reverse" -> c.entry \in Posted
    [] OTHER            -> TRUE

Begin(r) ==
  /\ pc[r] = "idle"
  /\ \E c \in Commands :
       /\ Known(c)
       /\ cmd' = [cmd EXCEPT ![r] = c]
       /\ expected' = IF c.op = "updateAccount"
                      THEN [expected EXCEPT ![r] = account[c.account].version]
                      ELSE expected
  /\ Goto(r, "claim")
  /\ UNCHANGED <<target, todo, draft, held, books>>

\* The idempotency record is inserted: its foreign key locks the organization.
Claim(r) ==
  /\ pc[r] = "claim"
  /\ Free(r, Organization, "share")
  /\ held' = held \cup {Lock(r, Organization, "share")}
  /\ Goto(r, CASE cmd[r].op = "post"          -> "period"
               [] cmd[r].op = "reverse"       -> "original"
               [] cmd[r].op = "createPeriod"  -> "organization"
               [] cmd[r].op = "lockPeriod"    -> "lockPeriod"
               [] cmd[r].op = "updateAccount" -> "account")
  /\ UNCHANGED <<local, books>>

-----------------------------------------------------------------------------
(* create_period, lock_period, update_account.                             *)

\* The overlap check without the organization's lock.
CreatePeriod_Unlocked(r) ==
  /\ pc[r] = "organization"
  /\ Proceed(r, \A p \in Period :
                  period[p] # "none" => ~Overlap(p, cmd[r].period), "commit")
  /\ UNCHANGED <<local, held, books>>

\* The overlap check runs while the organization's row is locked.
CreatePeriod(r) ==
  /\ pc[r] = "organization"
  /\ Acquire(r, Organization)
  /\ Proceed(r, \A p \in Period :
                  period[p] # "none" => ~Overlap(p, cmd[r].period), "commit")
  /\ UNCHANGED <<local, books>>

LockPeriod(r) ==
  /\ pc[r] = "lockPeriod"
  /\ Acquire(r, <<"period", cmd[r].period>>)
  /\ Proceed(r, period[cmd[r].period] = "open", "commit")
  /\ UNCHANGED <<local, books>>

\* The account is checked without its lock.
UpdateAccount_Unlocked(r) ==
  LET a == cmd[r].account
  IN /\ pc[r] = "account"
     /\ Proceed(r, /\ account[a].version = expected[r]
                   /\ cmd[r].field = "is_control" => ~HasPostings(a), "commit")
     /\ UNCHANGED <<local, held, books>>

\* The version is compared, and postings are looked for, under the row lock.
UpdateAccount(r) ==
  LET a == cmd[r].account
  IN /\ pc[r] = "account"
     /\ Acquire(r, <<"account", a>>)
     /\ Proceed(r, /\ account[a].version = expected[r]
                   /\ cmd[r].field = "is_control" => ~HasPostings(a), "commit")
     /\ UNCHANGED <<local, books>>

-----------------------------------------------------------------------------
(* post_journal_entry.                                                     *)

\* The period is read without a lock.
FindPeriod_Unlocked(r) ==
  /\ pc[r] = "period"
  /\ \E p \in Period :
       /\ period[p] # "none" /\ Covers(p, cmd[r].date)
       /\ target' = [target EXCEPT ![r] = p]
       /\ Proceed(r, period[p] = "open", "accounts")
  /\ UNCHANGED <<cmd, expected, todo, draft, held, books>>

\* SELECT ... FOR UPDATE of the period that covers the date; the status is
\* tested on the version that was locked.
FindPeriod(r) ==
  /\ pc[r] = "period"
  /\ \/ /\ \A p \in Period : period[p] # "none" => ~Covers(p, cmd[r].date)
        /\ Goto(r, "rollback")
        /\ UNCHANGED <<target, held>>
     \/ \E p \in Period :
          /\ period[p] # "none" /\ Covers(p, cmd[r].date)
          /\ Acquire(r, <<"period", p>>)
          /\ target' = [target EXCEPT ![r] = p]
          /\ Proceed(r, period[p] = "open", "accounts")
  /\ UNCHANGED <<cmd, expected, todo, draft, books>>

\* The accounts are read without a lock.
ReadAccounts(r) ==
  /\ pc[r] = "accounts"
  /\ Proceed(r, \A a \in cmd[r].accounts :
                  account[a].is_active /\ ~account[a].is_control, "source")
  /\ UNCHANGED <<local, held, books>>

SourceUsed(s) == s # None /\ \E e \in Posted : entry[e].source = s

\* The duplicate checks, without a lock.
CheckSource(r) ==
  /\ pc[r] = "source"
  /\ Proceed(r, ~SourceUsed(cmd[r].source),
             IF cmd[r].reversalOf = None THEN "insert" ELSE "reversed")
  /\ UNCHANGED <<local, held, books>>

\* A posting that says it reverses an entry locks that entry.
LockReversed(r) ==
  /\ pc[r] = "reversed"
  /\ Acquire(r, <<"entry", cmd[r].reversalOf>>)
  /\ Proceed(r, cmd[r].reversalOf \in Posted, "insert")
  /\ UNCHANGED <<local, books>>

\* Other transactions that are about to commit an entry with the same source.
Rivals(r) ==
  {s \in Request \ {r} : /\ cmd[r].source # None /\ draft[s] # None
                         /\ draft[s].source = cmd[r].source}

SourceInFlight(r) == Rivals(r) # {}

\* There is no unique index on the source.
Insert_NoIndex(r) ==
  LET accounts == {<<"account", a>> : a \in cmd[r].accounts}
  IN /\ pc[r] = "insert"
     /\ \A row \in accounts : Free(r, row, "share")
     /\ held' = held \cup {Lock(r, row, "share") : row \in accounts}
     /\ draft' = [draft EXCEPT ![r] =
                    [period |-> target[r], date |-> cmd[r].date,
                     accounts |-> cmd[r].accounts, source |-> cmd[r].source,
                     reversalOf |-> cmd[r].reversalOf]]
     /\ Goto(r, "commit")
     /\ UNCHANGED <<cmd, expected, target, todo, books>>

\* The entry and its lines are inserted: the unique index on the source, and
\* share locks on the accounts.
Insert(r) ==
  LET accounts == {<<"account", a>> : a \in cmd[r].accounts}
  IN /\ pc[r] = "insert"
     /\ ~SourceInFlight(r)
     /\ \/ /\ SourceUsed(cmd[r].source)
           /\ Goto(r, "rollback")
           /\ UNCHANGED <<draft, held>>
        \/ /\ ~SourceUsed(cmd[r].source)
           /\ \A row \in accounts : Free(r, row, "share")
           /\ held' = held \cup {Lock(r, row, "share") : row \in accounts}
           /\ draft' = [draft EXCEPT ![r] =
                          [period |-> target[r], date |-> cmd[r].date,
                           accounts |-> cmd[r].accounts, source |-> cmd[r].source,
                           reversalOf |-> cmd[r].reversalOf]]
           /\ Goto(r, "commit")
     /\ UNCHANGED <<cmd, expected, target, todo, books>>

-----------------------------------------------------------------------------
(* reverse_journal_entry.                                                  *)

\* The original is locked; it must not be a reversal nor have been reversed.
LockOriginal(r) ==
  LET e == cmd[r].entry
  IN /\ pc[r] = "original"
     /\ Acquire(r, <<"entry", e>>)
     /\ Proceed(r, /\ e \in Posted
                   /\ entry[e].reversalOf = None
                   /\ ReversalsOf(e) = {}, "list")
     /\ UNCHANGED <<local, books>>

\* The statement's snapshot: open periods that end on the original's date or
\* later.
ListPeriods(r) ==
  LET open == {p \in Period : period[p] = "open" /\ p.last >= entry[cmd[r].entry].date}
  IN /\ pc[r] = "list"
     /\ Proceed(r, open # {}, "lockOpen")
     /\ todo' = [todo EXCEPT ![r] = open]
     /\ UNCHANGED <<cmd, expected, target, draft, held, books>>

\* ORDER BY start_date is missing, and a plan may return the periods in any order.
LockOpen_AnyOrder(r) ==
  \E p \in todo[r] :
    /\ pc[r] = "lockOpen"
    /\ Acquire(r, <<"period", p>>)
    /\ todo' = [todo EXCEPT ![r] = @ \ {p}]
    /\ target' = [target EXCEPT ![r] = IF @ = None /\ period[p] = "open" THEN p ELSE @]
    /\ UNCHANGED <<pc, cmd, expected, draft, books>>

\* The rows are locked in the order of their start date, and one that is no
\* longer open when it has been locked is dropped from the result.
LockOpen(r) ==
  \E p \in todo[r] :
    /\ pc[r] = "lockOpen"
    /\ \A q \in todo[r] : p.first <= q.first
    /\ Acquire(r, <<"period", p>>)
    /\ todo' = [todo EXCEPT ![r] = @ \ {p}]
    /\ target' = [target EXCEPT ![r] = IF @ = None /\ period[p] = "open" THEN p ELSE @]
    /\ UNCHANGED <<pc, cmd, expected, draft, books>>

\* A reversal is dated on the first day of its period.
Later_PeriodStart(d, p) == p.first

\* The first day, from date d on, that is not before period p.
Later(d, p) == IF d >= p.first THEN d ELSE p.first

\* The reversal is posted by post_journal_entry in the same transaction, on
\* the original's date or the first day of the target period.
PostReversal(r) ==
  LET e == cmd[r].entry
      ok == target[r] # None
  IN /\ pc[r] = "lockOpen" /\ todo[r] = {}
     /\ Proceed(r, ok, "period")
     /\ cmd' = IF ok
               THEN [cmd EXCEPT ![r] =
                       [op |-> "post",
                        date |-> Later(entry[e].date, target[r]),
                        accounts |-> entry[e].accounts,
                        source |-> [type |-> "journal_reversal", id |-> e],
                        reversalOf |-> e]]
               ELSE cmd
     /\ UNCHANGED <<expected, target, todo, draft, held, books>>

-----------------------------------------------------------------------------
(* The end of a transaction.                                               *)

Finish(r, label) ==
  /\ Release(r)
  /\ draft' = [draft EXCEPT ![r] = None]
  /\ Goto(r, label)
  /\ UNCHANGED <<cmd, expected, target, todo>>

Commit(r) ==
  /\ pc[r] = "commit"
  /\ Finish(r, "done")
  /\ \/ /\ cmd[r].op = "createPeriod"
        /\ period' = [period EXCEPT ![cmd[r].period] = "open"]
        /\ UNCHANGED <<account, entry>>
     \/ /\ cmd[r].op = "lockPeriod"
        /\ period' = [period EXCEPT ![cmd[r].period] = "locked"]
        /\ UNCHANGED <<account, entry>>
     \/ /\ cmd[r].op = "updateAccount"
        /\ account' = [account EXCEPT ![cmd[r].account] =
                         [account[cmd[r].account] EXCEPT ![cmd[r].field] = cmd[r].value,
                                                         !.version = @ + 1]]
        /\ UNCHANGED <<period, entry>>
     \/ /\ cmd[r].op = "post"
        /\ entry' = [entry EXCEPT ![r] = draft[r]]
        /\ UNCHANGED <<period, account>>

Undo(r) == Finish(r, "failed") /\ UNCHANGED books

Rollback(r) == pc[r] = "rollback" /\ Undo(r)

\* A reference already in use, a lost connection, a failing commit.
Crash(r) == Active(r) /\ Undo(r)

\* The row locks that r's next statement has to take.
Wanted(r) ==
  LET Exclusive(rows) == {Lock(r, row, "exclusive") : row \in rows}
  IN CASE pc[r] = "claim"        -> {Lock(r, Organization, "share")}
       [] pc[r] = "insert"       -> {Lock(r, <<"account", a>>, "share") : a \in cmd[r].accounts}
       [] pc[r] = "organization" -> Exclusive({Organization})
       [] pc[r] = "lockPeriod"   -> Exclusive({<<"period", cmd[r].period>>})
       [] pc[r] = "account"      -> Exclusive({<<"account", cmd[r].account>>})
       [] pc[r] = "period"       -> Exclusive({<<"period", p>> : p \in {q \in Period :
                                       period[q] # "none" /\ Covers(q, cmd[r].date)}})
       [] pc[r] = "original"     -> Exclusive({<<"entry", cmd[r].entry>>})
       [] pc[r] = "reversed"     -> Exclusive({<<"entry", cmd[r].reversalOf>>})
       [] pc[r] = "lockOpen"     -> Exclusive({<<"period", p>> : p \in {q \in todo[r] :
                                       \A s \in todo[r] : q.first <= s.first}})
       [] OTHER                  -> {}

\* Whose locks, or whose uncommitted entry, r waits for.
WaitsFor(r) ==
  {l.by : l \in {m \in held : /\ m.by # r
                              /\ \E w \in Wanted(r) : /\ w.row = m.row
                                                      /\ {w.mode, m.mode} # {"share"}}}
    \cup (IF pc[r] = "insert" THEN Rivals(r) ELSE {})

Waiting(r) == WaitsFor(r) # {}

\* The deadlock detector and statement_timeout may end a wait.
Timeout(r) == Waiting(r) /\ Undo(r)

Step(r) ==
  \/ Claim(r) \/ CreatePeriod(r) \/ LockPeriod(r) \/ UpdateAccount(r)
  \/ FindPeriod(r) \/ ReadAccounts(r) \/ CheckSource(r) \/ LockReversed(r)
  \/ Insert(r) \/ LockOriginal(r) \/ ListPeriods(r) \/ LockOpen(r)
  \/ PostReversal(r) \/ Commit(r) \/ Rollback(r)

Next == \E r \in Request : Begin(r) \/ Step(r) \/ Crash(r) \/ Timeout(r)

Spec == Init /\ [][Next]_vars

\* Threads keep executing the requests they serve; nothing makes the database
\* end a wait.
Fairness == \A r \in Request : WF_vars(Step(r))

FairSpec == Spec /\ Fairness
-----------------------------------------------------------------------------
TypeOK ==
  /\ pc \in [Request -> {"idle", "claim", "organization", "lockPeriod",
                         "account", "period", "accounts", "source",
                         "reversed", "insert", "original", "list", "lockOpen",
                         "commit", "rollback"} \cup Terminal]
  /\ cmd \in [Request -> Command \cup {None}]
  /\ expected \in [Request -> Nat]
  /\ target \in [Request -> Period \cup {None}]
  /\ todo \in [Request -> SUBSET Period]
  /\ draft \in [Request -> EntryRow \cup {None}]
  /\ held \subseteq [by : Request, row : Row, mode : {"share", "exclusive"}]
  /\ period \in [Period -> {"none", "open", "locked"}]
  /\ account \in [Account -> AccountRow]
  /\ entry \in [Entry -> EntryRow \cup {None}]

\* Fiscal periods of an organization never overlap, however their creations
\* interleave, so that a date has at most one period.
PeriodsDisjoint ==
  \A p, q \in Period :
    period[p] # "none" /\ period[q] # "none" /\ p # q => ~Overlap(p, q)

EntriesOf(p) == {e \in Posted : entry[e].period = p}

StaysFrozen(p) == period'[p] = "locked" /\ EntriesOf(p)' = EntriesOf(p)

\* Once a period is locked nothing is posted into it and it stays locked, not
\* even by a transaction that had found it open ("period is locked").
LockedPeriodsAreFrozen ==
  [][\A p \in Period : period[p] = "locked" => StaysFrozen(p)]_vars

\* A reversal entry carries the accounts of the entry it reverses, is not
\* dated before it, and is the only one of it, as long as reversals are made
\* by reverse_journal_entry ("journal entry has already been reversed").
ReversedOnce ==
  \A e \in Posted : \A f, g \in ReversalsOf(e) :
    /\ f = g
    /\ entry[f].accounts = entry[e].accounts
    /\ entry[f].date >= entry[e].date

\* Whether an account is a control account does not change after something
\* has been posted to it ("posted account structure cannot be changed").
PostedAccountsKeepStructure ==
  [][\A a \in Account :
       HasPostings(a) => account'[a].is_control = account[a].is_control]_vars

\* An update replaces the version that its client has read, so concurrent
\* updates of an account are never silently lost.
NoLostUpdate ==
  [][\A a \in Account :
       account'[a] # account[a] =>
         \E r \in Request : /\ pc[r] = "commit" /\ pc'[r] = "done"
                            /\ cmd[r].account = a
                            /\ expected[r] = account[a].version]_vars

Promise ==
  INSTANCE Books WITH control <- [a \in Account |-> account[a].is_control]

\* The ledger implements the indivisible books of Books, as long as reversals are
\* made by reverse_journal_entry: what a transaction has checked when it commits
\* is still so, the uniqueness of its source included.
ImplementsBooks == Promise!Spec

\* The circles that the order of the locks allows.  Two creations of periods have
\* both inserted their claims, which lock the organization in share mode, and want
\* its row; and a posting that names an entry as reversed locks its period first,
\* reverse_journal_entry locks the entry first.
KnownCircle(C) ==
  \/ \A r \in C : pc[r] = "organization"
  \/ /\ \E r \in C : pc[r] = "reversed"
     /\ \E r \in C : pc[r] = "lockOpen"

\* Every request that starts ends although no timeout ends a wait, unless it waits
\* for such a circle: postings, reversals that lock several periods, closings and
\* changes of accounts never make a deadlock among themselves.
EveryRequestEnds ==
  \A r \in Request :
    pc[r] = "claim" ~> \/ pc[r] \in Terminal
                       \/ Stuck([q \in Request |-> WaitsFor(q)], r, KnownCircle)

\* A control account receives no posting ("control account cannot receive
\* posting").
ControlAccountsAreEmpty == \A a \in Account : account[a].is_control => ~HasPostings(a)
=============================================================================
