---------------------------- MODULE AccountTree ----------------------------
(***************************************************************************)
(* The hierarchy of the chart of accounts                                  *)
(* (app/domains/accounting/service.py): creating an account under a        *)
(* parent, and moving an account under another parent.                     *)
(*                                                                         *)
(* A move locks the account that moves, and walks from the new parent to   *)
(* the root to see that it does not come by that account.  The walk reads  *)
(* one committed row after the other and locks none of them.  Writing the  *)
(* parent locks the parent's row in share mode (its foreign key takes FOR  *)
(* KEY SHARE), which waits for a transaction that moves the parent itself. *)
(*                                                                         *)
(* Flags and postings of accounts are in Ledger; the accounts here have no *)
(* postings.                                                               *)
(***************************************************************************)
EXTENDS Hierarchy, Naturals, Waits

CONSTANTS
  Account,    \* account codes
  Commands,   \* what clients may ask for
  Parent0,    \* a function: the accounts there are, with their parents
  None        \* no parent, no lock

Created0 == DOMAIN Parent0

Command == [op : {"create", "move"}, account : Account, parent : Account \cup {None}]

ASSUME NoneAssumption == None \notin Account /\ None \notin Request
ASSUME CommandsAssumption == Commands \subseteq Command
ASSUME ParentAssumption ==
  /\ Created0 \subseteq Account
  /\ \A a \in Created0 : Parent0[a] \in Created0 \cup {None}
  /\ \A accounts \in SUBSET Created0 : ~Circular(accounts, Parent0)

VARIABLES
  expected,  \* expected[r]: the version of the account that r's client has read
  current,   \* current[r]: the account that r's walk looks at next
  seen,      \* seen[r]: the accounts that r's walk must not meet
  held,      \* row locks: by whom, on which account, in which mode
  version    \* version[a]: how often a was written

local == <<cmd, expected, current, seen>>
tree == <<created, parent, version>>
vars == <<pc, local, held, tree>>

Init ==
  /\ pc = [r \in Request |-> "idle"]
  /\ cmd = [r \in Request |-> None]
  /\ expected = [r \in Request |-> 0]
  /\ current = [r \in Request |-> None]
  /\ seen = [r \in Request |-> {}]
  /\ held = {}
  /\ created = Created0
  /\ parent = [a \in Account |-> IF a \in Created0 THEN Parent0[a] ELSE None]
  /\ version = [a \in Account |-> IF a \in Created0 THEN 1 ELSE 0]

Lock(r, a, mode) == [by |-> r, account |-> a, mode |-> mode]

\* Share locks are compatible with each other and with one's own locks.
Free(r, a, mode) ==
  \A l \in held : l.account = a /\ l.by # r => mode = "share" /\ l.mode = "share"

\* A client names only what it has seen committed, and a new code.
Begin(r) ==
  /\ pc[r] = "idle"
  /\ \E c \in Commands :
       /\ c.parent \in created \cup {None}
       /\ c.op = "move" => c.account \in created
       /\ cmd' = [cmd EXCEPT ![r] = c]
       /\ expected' = [expected EXCEPT ![r] = version[c.account]]
       /\ current' = [current EXCEPT ![r] = c.parent]
       /\ seen' = [seen EXCEPT ![r] = IF c.op = "move" THEN {c.account} ELSE {}]
       /\ Goto(r, IF c.op = "move" THEN "account" ELSE "code")
  /\ UNCHANGED <<held, tree>>

\* create_account: the code must be new; the index decides again at the end.
CheckCode(r) ==
  /\ pc[r] = "code"
  /\ Proceed(r, cmd[r].account \notin created, "walk")
  /\ UNCHANGED <<local, held, tree>>

\* The account is checked without its lock.
LockAccount_Unlocked(r) ==
  /\ pc[r] = "account"
  /\ Proceed(r, version[cmd[r].account] = expected[r], "walk")
  /\ UNCHANGED <<local, held, tree>>

\* update_account: the account is locked, and its version compared.
LockAccount(r) ==
  LET a == cmd[r].account
  IN /\ pc[r] = "account"
     /\ Free(r, a, "exclusive")
     /\ held' = held \cup {Lock(r, a, "exclusive")}
     /\ Proceed(r, version[a] = expected[r], "walk")
     /\ UNCHANGED <<local, tree>>

\* The walk looks for the moving account only.
Walk_ForgetsSeen(r) ==
  /\ pc[r] = "walk" /\ current[r] # None
  /\ Proceed(r, current[r] \notin seen[r], "walk")
  /\ current' = [current EXCEPT ![r] = parent[@]]
  /\ UNCHANGED <<cmd, expected, seen, held, tree>>

\* One turn of the loop of _assert_no_parent_cycle.
Walk(r) ==
  /\ pc[r] = "walk" /\ current[r] # None
  /\ Proceed(r, current[r] \notin seen[r], "walk")
  /\ seen' = [seen EXCEPT ![r] = @ \cup {current[r]}]
  /\ current' = [current EXCEPT ![r] = parent[@]]
  /\ UNCHANGED <<cmd, expected, held, tree>>

Reached(r) == pc[r] = "walk" /\ current[r] = None

\* The foreign key locks the parent that is written.
RefersTo(r) == IF cmd[r].parent = None THEN {} ELSE {cmd[r].parent}

Refer(r, accounts) ==
  /\ \A a \in accounts : Free(r, a, "share")
  /\ held' = held \cup {Lock(r, a, "share") : a \in accounts}

\* The new parent, if the flush has to write one.
NewParent(r) == IF parent[cmd[r].account] = cmd[r].parent THEN {} ELSE RefersTo(r)

WriteParent(r) ==
  /\ Reached(r) /\ cmd[r].op = "move"
  /\ Refer(r, NewParent(r))
  /\ Goto(r, "commit")
  /\ UNCHANGED <<local, tree>>

\* The code is not unique in the table.
CodeInUse_Never(r) == FALSE

CodeInUse(r) == cmd[r].account \in created

\* The unique index makes an insertion wait for another one of the same code.
HasCode(s, r) ==
  pc[s] = "commit" /\ cmd[s].op = "create" /\ cmd[s].account = cmd[r].account

InsertInFlight(r) == \E s \in Request \ {r} : HasCode(s, r)

InsertAccount(r) ==
  /\ Reached(r) /\ cmd[r].op = "create"
  /\ ~InsertInFlight(r)
  /\ IF CodeInUse(r)
     THEN Goto(r, "rollback") /\ UNCHANGED held
     ELSE Refer(r, RefersTo(r)) /\ Goto(r, "commit")
  /\ UNCHANGED <<local, tree>>

Finish(r, label) ==
  /\ held' = {l \in held : l.by # r}
  /\ Goto(r, label)
  /\ UNCHANGED local

Commit(r) ==
  LET a == cmd[r].account
  IN /\ pc[r] = "commit"
     /\ Finish(r, "done")
     /\ created' = created \cup {a}
     /\ parent' = [parent EXCEPT ![a] = cmd[r].parent]
     /\ version' = [version EXCEPT ![a] = IF cmd[r].op = "move" THEN @ + 1 ELSE 1]

Undo(r) == Finish(r, "failed") /\ UNCHANGED tree

Rollback(r) == pc[r] = "rollback" /\ Undo(r)

\* The worker or its connection dies.
Crash(r) == Active(r) /\ Undo(r)

\* The row locks that r's next statement has to take.
Wanted(r) ==
  IF pc[r] = "account" THEN {Lock(r, cmd[r].account, "exclusive")}
  ELSE {Lock(r, a, "share") : a \in IF Reached(r) THEN NewParent(r) ELSE {}}

\* Whose lock or uncommitted account r waits for.
WaitsFor(r) ==
  {l.by : l \in {m \in held : /\ m.by # r
                              /\ \E w \in Wanted(r) : /\ w.account = m.account
                                                      /\ {w.mode, m.mode} # {"share"}}}
    \cup {s \in Request \ {r} : Reached(r) /\ cmd[r].op = "create" /\ HasCode(s, r)}

Waiting(r) == WaitsFor(r) # {}

\* The deadlock detector and statement_timeout may end a wait.
Timeout(r) == Waiting(r) /\ Undo(r)

Step(r) ==
  \/ CheckCode(r) \/ LockAccount(r) \/ Walk(r) \/ WriteParent(r)
  \/ InsertAccount(r) \/ Commit(r) \/ Rollback(r)

Next == \E r \in Request : Begin(r) \/ Step(r) \/ Crash(r) \/ Timeout(r)

Spec == Init /\ [][Next]_vars

\* Threads keep executing the requests they serve; nothing makes the database
\* end a wait.
Fairness == \A r \in Request : WF_vars(Step(r))

FairSpec == Spec /\ Fairness
-----------------------------------------------------------------------------
\* The circles that the order of the locks allows: moves that would together close
\* a circle of parents.
CircularMoves(C) ==
  /\ \A r \in C : Reached(r) /\ cmd[r].op = "move"
  /\ {cmd[r].account : r \in C} = {cmd[r].parent : r \in C}

\* Every request that starts ends although no timeout ends a wait, unless it
\* waits for moves that would close a circle: a walk ends on any hierarchy, one
\* that goes round in a circle included, and a move that makes no circle is never
\* in a deadlock.
EveryRequestEnds ==
  \A r \in Request :
    Active(r) ~> \/ pc[r] \in Terminal
                 \/ Stuck([q \in Request |-> WaitsFor(q)], r, CircularMoves)
=============================================================================
