----------------------------- MODULE Invoicing -----------------------------
(***************************************************************************)
(* Tax rates, business partners, and the invoices and bills drawn up with  *)
(* them (app/domains/tax/service.py, app/domains/partners/service.py,      *)
(* app/domains/documents/service.py), by requests that run concurrently.   *)
(*                                                                         *)
(* A request is one transaction at READ COMMITTED, as in Ledger: its       *)
(* idempotency record locks the organization in share mode, a document's   *)
(* foreign key locks its partner in share mode, SELECT ... FOR UPDATE      *)
(* locks a row, and an insertion waits for an uncommitted row with the     *)
(* same key.  Rates and partners are read without locks by documents and   *)
(* payments.                                                               *)
(*                                                                         *)
(* Amounts are in cents, quantities in thousandths, tax rates in           *)
(* hundredths of a percent.  A document's settlement is in Settlement; the *)
(* ledger's rules for its entry are in Ledger, and among the reasons for   *)
(* which Refuse ends a request, like the currency.  Tax rates have no      *)
(* operation that changes them, and partners none that restores them.      *)
(***************************************************************************)
EXTENDS Requests, Integers, Sequences, FiniteSetsExt, Waits

CONSTANTS
  Day,        \* calendar days, a set of naturals
  Code,       \* codes of tax rates
  Partner,    \* partner codes
  Number,     \* document numbers
  Length,     \* Length[n]: the characters of number n
  Commands,   \* what clients may ask for
  Rules0,     \* tax rates that exist
  Partners0,  \* a function: partners that exist, with their types
  None        \* absence of a value

DocumentType == {"sales_invoice", "vendor_bill"}
PartnerType == {"customer", "vendor", "both"}

Rate == 0 .. 10000

\* The last day of a rate may be left open.
Rule == [type : {"vat", "withholding"}, code : Code, rate : Rate,
         first : Day, last : Day \cup {None}]

PartnerRow == [type : PartnerType, is_active : BOOLEAN, version : Nat]

DocumentRow == [partner : Partner, issued : Day, status : {"draft", "posted"},
                rates : SUBSET (Rate \ {0}), nets : Seq(Nat), tax : Nat, total : Nat]

Line == [quantity : Nat \ {0}, price : Nat \ {0}, rate : Rate]

\* A document is identified by its type and number.
Document == DocumentType \X Number

CreateRate == [op : {"createRate"}, rule : Rule]
CreatePartner == [op : {"createPartner"}, partner : Partner, type : PartnerType]
ChangePartner == [op : {"updatePartner", "archivePartner"}, partner : Partner]
CreateDocument == [op : {"createDocument"}, document : Document, partner : Partner,
                   issued : Day, lines : Seq(Line)]
PostDocument == [op : {"postDocument"}, document : Document]
\* A payment for documents of the given type.
PostPayment == [op : {"postPayment"}, type : DocumentType, partner : Partner]

Command == CreateRate \cup CreatePartner \cup ChangePartner
             \cup CreateDocument \cup PostDocument \cup PostPayment

\* _overlaps.
Overlaps(left, right) ==
  /\ left.type = right.type /\ left.code = right.code
  /\ right.last = None \/ left.first <= right.last
  /\ left.last = None \/ right.first <= left.last

Covers(rule, day) == rule.first <= day /\ (rule.last = None \/ day <= rule.last)

ASSUME DayAssumption == Day \subseteq Nat
ASSUME LengthAssumption == Length \in [Number -> 1 .. 100]
ASSUME CommandsAssumption == Commands \subseteq Command
ASSUME RulesAssumption ==
  /\ Rules0 \subseteq Rule
  /\ \A x, y \in Rules0 : x # y => ~Overlaps(x, y)
ASSUME PartnersAssumption ==
  \A p \in DOMAIN Partners0 : p \in Partner /\ Partners0[p] \in PartnerType
ASSUME NoneAssumption ==
  /\ None \notin Request \cup Day \cup Command
  /\ None \notin PartnerRow /\ None \notin DocumentRow

VARIABLES
  expected,  \* expected[r]: the version of the partner that r's client has read
  gone,      \* history: gone[r] are the partners archived before r began
  held,      \* row locks: the holder, the row and the mode
  rules,     \* the committed tax rates
  partner,   \* partner[p]: the committed row of partner p, or None
  document   \* document[d]: the committed row of document d, or None

vars == <<pc, cmd, expected, gone, held, rules, partner, document>>
local == <<cmd, expected, gone>>
rows == <<rules, partner, document>>

NewPartner(type) == [type |-> type, is_active |-> TRUE, version |-> 1]

Init ==
  /\ pc = [r \in Request |-> "idle"]
  /\ cmd = [r \in Request |-> None]
  /\ expected = [r \in Request |-> 0]
  /\ gone = [r \in Request |-> {}]
  /\ held = {}
  /\ rules = Rules0
  /\ partner = [p \in Partner |->
                  IF p \in DOMAIN Partners0 THEN NewPartner(Partners0[p]) ELSE None]
  /\ document = [d \in Document |-> None]

Organization == <<"organization", None>>
Lock(r, row, mode) == [by |-> r, row |-> row, mode |-> mode]

\* Share locks are compatible with each other and with one's own locks.
Free(r, row, mode) ==
  \A l \in held : l.row = row /\ l.by # r => mode = "share" /\ l.mode = "share"

Acquire(r, row, mode) ==
  /\ Free(r, row, mode)
  /\ held' = held \cup {Lock(r, row, mode)}

\* A client names only what it has seen committed.
Known(c) ==
  CASE c.op \in {"updatePartner", "archivePartner", "createDocument", "postPayment"} ->
         partner[c.partner] # None
    [] c.op = "postDocument" -> document[c.document] # None
    [] OTHER                 -> TRUE

\* create_document looks at the tax rates before it claims its key.
Begin(r) ==
  /\ pc[r] = "idle"
  /\ \E c \in Commands :
       /\ Known(c)
       /\ cmd' = [cmd EXCEPT ![r] = c]
       /\ expected' = IF c.op \in {"updatePartner", "archivePartner"}
                      THEN [expected EXCEPT ![r] = partner[c.partner].version]
                      ELSE expected
       /\ Goto(r, IF c.op = "createDocument" THEN "rates" ELSE "claim")
  /\ gone' = [gone EXCEPT ![r] = {p \in Partner : partner[p] # None /\ ~partner[p].is_active}]
  /\ UNCHANGED <<held, rows>>

\* The idempotency record is inserted: its foreign key locks the organization.
Claim(r) ==
  /\ pc[r] = "claim"
  /\ Acquire(r, Organization, "share")
  /\ Goto(r, CASE cmd[r].op = "createRate"                          -> "organization"
               [] cmd[r].op = "createPartner"                       -> "newPartner"
               [] cmd[r].op \in {"updatePartner", "archivePartner"} -> "lockPartner"
               [] cmd[r].op \in {"createDocument", "postPayment"}   -> "partner"
               [] cmd[r].op = "postDocument"                        -> "document")
  /\ UNCHANGED <<local, rows>>

-----------------------------------------------------------------------------
(* Tax rates.                                                              *)

\* The organization is read without its lock.
LockOrganization_Unlocked(r) ==
  /\ pc[r] = "organization"
  /\ Goto(r, "overlap")
  /\ UNCHANGED <<local, held, rows>>

\* create_rate: SELECT ... FOR UPDATE of the organization.
LockOrganization(r) ==
  /\ pc[r] = "organization"
  /\ Acquire(r, Organization, "exclusive")
  /\ Goto(r, "overlap")
  /\ UNCHANGED <<local, rows>>

\* The rates of the same code, which nobody else locks, and their overlap.
CheckOverlap(r) ==
  /\ pc[r] = "overlap"
  /\ Proceed(r, \A x \in rules : ~Overlaps(x, cmd[r].rule), "commit")
  /\ UNCHANGED <<local, held, rows>>

-----------------------------------------------------------------------------
(* Partners.                                                               *)

\* The organization is locked first, as by create_rate.
InsertPartner_LocksOrganization(r) ==
  /\ pc[r] = "newPartner"
  /\ Free(r, Organization, "exclusive")
  /\ Free(r, <<"partner", cmd[r].partner>>, "exclusive")
  /\ held' = held \cup {Lock(r, Organization, "exclusive"),
                        Lock(r, <<"partner", cmd[r].partner>>, "exclusive")}
  /\ Proceed(r, partner[cmd[r].partner] = None, "commit")
  /\ UNCHANGED <<local, rows>>

\* create_partner: the unique index on the code decides.
InsertPartner(r) ==
  /\ pc[r] = "newPartner"
  /\ Acquire(r, <<"partner", cmd[r].partner>>, "exclusive")
  /\ Proceed(r, partner[cmd[r].partner] = None, "commit")
  /\ UNCHANGED <<local, rows>>

\* The version is compared with a row that is not locked.
LockPartner_Unlocked(r) ==
  /\ pc[r] = "lockPartner"
  /\ Proceed(r, partner[cmd[r].partner].version = expected[r], "commit")
  /\ UNCHANGED <<local, held, rows>>

\* update_partner, archive_partner: the version is compared, and an archived
\* partner is not archived again, under the row lock.
LockPartner(r) ==
  LET p == cmd[r].partner
  IN /\ pc[r] = "lockPartner"
     /\ Acquire(r, <<"partner", p>>, "exclusive")
     /\ Proceed(r, /\ partner[p].version = expected[r]
                   /\ cmd[r].op = "archivePartner" => partner[p].is_active, "commit")
     /\ UNCHANGED <<local, rows>>

Required(type) == IF type = "sales_invoice" THEN "customer" ELSE "vendor"

\* Archived partners are accepted.
Accepts_Archived(p, type) == partner[p].type \in {Required(type), "both"}

Accepts(p, type) ==
  partner[p].type \in {Required(type), "both"} /\ partner[p].is_active

\* _partner_for_document and the first check of _validate_persisted_allocations.
CheckPartner(r) ==
  LET c == cmd[r]
      type == IF c.op = "createDocument" THEN c.document[1] ELSE c.type
  IN /\ pc[r] = "partner"
     /\ Proceed(r, Accepts(c.partner, type),
                IF c.op = "createDocument" THEN "newDocument" ELSE "commit")
     /\ UNCHANGED <<local, held, rows>>

-----------------------------------------------------------------------------
(* Documents.                                                              *)

\* _money rounds half up.
Net(line) == (line.quantity * line.price + 500) \div 1000
Tax(line) == (Net(line) * line.rate + 5000) \div 10000

\* The row and its lines, as create_document computes them.
NewDocument(c) ==
  LET nets == [i \in DOMAIN c.lines |-> Net(c.lines[i])]
      taxes == [i \in DOMAIN c.lines |-> Tax(c.lines[i])]
  IN [partner |-> c.partner, issued |-> c.issued, status |-> "draft",
      rates |-> {c.lines[i].rate : i \in DOMAIN c.lines} \ {0},
      nets |-> nets, tax |-> SumFunction(taxes),
      total |-> SumFunction(nets) + SumFunction(taxes)]

\* _validate_vat_rates.
Authorized(rates, day) ==
  \A rate \in rates : \E x \in rules :
    x.type = "vat" /\ x.rate = rate /\ Covers(x, day)

CheckRates(r) ==
  LET row == IF cmd[r].op = "createDocument" THEN NewDocument(cmd[r])
             ELSE document[cmd[r].document]
  IN /\ pc[r] = "rates"
     /\ Proceed(r, Authorized(row.rates, row.issued),
                IF cmd[r].op = "createDocument" THEN "claim" ELSE "post")
     /\ UNCHANGED <<local, held, rows>>

\* create_document: the number is unique for the type of the document.
InsertDocument(r) ==
  /\ pc[r] = "newDocument"
  /\ Acquire(r, <<"document", cmd[r].document>>, "exclusive")
  /\ Proceed(r, document[cmd[r].document] = None, "refer")
  /\ UNCHANGED <<local, rows>>

\* The foreign key of the document that has been inserted.
ReferToPartner(r) ==
  /\ pc[r] = "refer"
  /\ Acquire(r, <<"partner", cmd[r].partner>>, "share")
  /\ Goto(r, "commit")
  /\ UNCHANGED <<local, rows>>

\* post_document: the row is locked and must be a draft.
LockDocument(r) ==
  /\ pc[r] = "document"
  /\ Acquire(r, <<"document", cmd[r].document>>, "exclusive")
  /\ Proceed(r, document[cmd[r].document].status = "draft", "rates")
  /\ UNCHANGED <<local, rows>>

\* Lines of no value are kept.
Valued_All(amounts) == DOMAIN amounts

Valued(amounts) == {i \in DOMAIN amounts : amounts[i] > 0}

\* _posting_command: a line for each line of the document that is worth anything,
\* for the tax, and for the control account.  They are numbered by what they are
\* for; nothing depends on their order.
PostingLines(type, row) ==
  LET debit(x) == [debit |-> x, credit |-> 0]
      credit(x) == [debit |-> 0, credit |-> x]
      invoice == type = "sales_invoice"
      amounts == Append(row.nets, row.tax)
      control == Len(amounts) + 1
  IN [i \in Valued(amounts) \cup {control} |->
        IF i = control
        THEN IF invoice THEN debit(row.total) ELSE credit(row.total)
        ELSE IF invoice THEN credit(amounts[i]) ELSE debit(amounts[i])]

\* The validators of JournalLineInput, JournalPostCommand and JournalEntry.
Valid(lines) ==
  /\ Cardinality(DOMAIN lines) >= 2
  /\ \A i \in DOMAIN lines : (lines[i].debit > 0) # (lines[i].credit > 0)
  /\ SumFunction([i \in DOMAIN lines |-> lines[i].debit])
       = SumFunction([i \in DOMAIN lines |-> lines[i].credit])

\* The entry's reference, such as SALES_INVOICE/ and the number, has at most
\* 100 characters.
ReferenceFits(d) ==
  Length[d[2]] + (IF d[1] = "sales_invoice" THEN 14 ELSE 12) <= 100

BuildEntry(r) ==
  LET d == cmd[r].document
  IN /\ pc[r] = "post"
     /\ Proceed(r, ReferenceFits(d) /\ Valid(PostingLines(d[1], document[d])), "commit")
     /\ UNCHANGED <<local, held, rows>>

-----------------------------------------------------------------------------
(* The end of a transaction.                                               *)

Finish(r, label) ==
  /\ held' = {l \in held : l.by # r}
  /\ Goto(r, label)
  /\ UNCHANGED local

CommitRate(r) ==
  /\ cmd[r].op = "createRate"
  /\ rules' = rules \cup {cmd[r].rule}
  /\ UNCHANGED <<partner, document>>

\* The partner's row as r leaves it.
Written(r) ==
  LET row == partner[cmd[r].partner]
  IN CASE cmd[r].op = "createPartner" -> NewPartner(cmd[r].type)
       [] cmd[r].op = "updatePartner" -> [row EXCEPT !.version = @ + 1]
       [] OTHER -> [row EXCEPT !.version = @ + 1, !.is_active = FALSE]

CommitPartner(r) ==
  /\ cmd[r].op \in {"createPartner", "updatePartner", "archivePartner"}
  /\ partner' = [partner EXCEPT ![cmd[r].partner] = Written(r)]
  /\ UNCHANGED <<rules, document>>

CommitDocument(r) ==
  /\ cmd[r].op = "createDocument"
  /\ document' = [document EXCEPT ![cmd[r].document] = NewDocument(cmd[r])]
  /\ UNCHANGED <<rules, partner>>

CommitPosted(r) ==
  /\ cmd[r].op = "postDocument"
  /\ document' = [document EXCEPT ![cmd[r].document].status = "posted"]
  /\ UNCHANGED <<rules, partner>>

\* What a posted payment changes is in Settlement.
CommitPayment(r) == cmd[r].op = "postPayment" /\ UNCHANGED rows

Commit(r) ==
  /\ pc[r] = "commit"
  /\ \/ CommitRate(r) \/ CommitPartner(r) \/ CommitDocument(r)
     \/ CommitPosted(r) \/ CommitPayment(r)
  /\ Finish(r, "done")

Undo(r) == Finish(r, "failed") /\ UNCHANGED rows

Rollback(r) == pc[r] = "rollback" /\ Undo(r)

\* A rule on other data refuses the command, the worker dies, or the commit
\* fails.
Refuse(r) == Active(r) /\ Undo(r)

\* The row lock that r's next statement has to take, if any.
Wanted(r) ==
  CASE pc[r] = "claim"        -> {Lock(r, Organization, "share")}
    [] pc[r] = "refer"        -> {Lock(r, <<"partner", cmd[r].partner>>, "share")}
    [] pc[r] = "organization" -> {Lock(r, Organization, "exclusive")}
    [] pc[r] \in {"newPartner", "lockPartner"} ->
         {Lock(r, <<"partner", cmd[r].partner>>, "exclusive")}
    [] pc[r] \in {"newDocument", "document"} ->
         {Lock(r, <<"document", cmd[r].document>>, "exclusive")}
    [] OTHER                  -> {}

\* Whose locks r waits for.
WaitsFor(r) ==
  {l.by : l \in {m \in held : /\ m.by # r
                              /\ \E w \in Wanted(r) : /\ w.row = m.row
                                                      /\ {w.mode, m.mode} # {"share"}}}

Waiting(r) == WaitsFor(r) # {}

\* The deadlock detector and statement_timeout may end a wait.
Timeout(r) == Waiting(r) /\ Undo(r)

Step(r) ==
  \/ Claim(r) \/ LockOrganization(r) \/ CheckOverlap(r)
  \/ InsertPartner(r) \/ LockPartner(r) \/ CheckPartner(r)
  \/ CheckRates(r) \/ InsertDocument(r) \/ ReferToPartner(r)
  \/ LockDocument(r) \/ BuildEntry(r) \/ Commit(r) \/ Rollback(r)

Next == \E r \in Request : Begin(r) \/ Step(r) \/ Refuse(r) \/ Timeout(r)

Spec == Init /\ [][Next]_vars

\* Threads keep executing the requests they serve; nothing makes the database
\* end a wait.
Fairness == \A r \in Request : WF_vars(Step(r))

FairSpec == Spec /\ Fairness
-----------------------------------------------------------------------------
\* A tax code has at most one rate on any day, although each creation sees only
\* the rates committed before it and the unique index compares first days only
\* ("tax rate effective dates overlap an existing rule").
OneRatePerDay ==
  \A x, y \in rules : \A day \in Day :
    x.type = y.type /\ x.code = y.code /\ Covers(x, day) /\ Covers(y, day) => x = y

\* However the amounts of the lines are rounded, they are a valid entry exactly
\* when the draft is worth anything: lines that round to nothing do not stand in
\* the way of the others, and the rounded parts add up to the total.  What is
\* posted is worth something and has a number short enough for the ledger's
\* reference; a draft with a longer one, of 87 to 100 characters for an invoice or 89
\* to 100 for a bill, can be worth something and never be posted (create_document,
\* _posting_command, JournalPostCommand).
PostableUnlessZero ==
  \A d \in Document :
    document[d] # None =>
      /\ Valid(PostingLines(d[1], document[d])) = (document[d].total > 0)
      /\ document[d].status = "posted" => document[d].total > 0 /\ ReferenceFits(d)

\* A partner that was archived when a request began gets no document or payment
\* from it; only requests that overlap the archiving may still do so ("partner
\* is archived", "payment partner is archived").
ArchivedPartnersRest ==
  \A r \in Request :
    pc[r] = "done" /\ cmd[r].op \in {"createDocument", "postPayment"} =>
      cmd[r].partner \notin gone[r]

\* A change of a partner replaces the version that its client has read: no
\* update or archiving is lost to another ("partner version does not match").
NoLostUpdate ==
  [][\A p \in Partner :
       partner[p] # None /\ partner'[p] # partner[p] =>
         \E r \in Request : /\ pc[r] = "commit" /\ pc'[r] = "done"
                            /\ cmd[r].op \in {"updatePartner", "archivePartner"}
                            /\ cmd[r].partner = p
                            /\ expected[r] = partner[p].version]_vars

\* The circle that the order of the locks allows: creations of tax rates have
\* inserted their claims, which lock the organization in share mode, and all want
\* its row.
CreationsOfRates(C) == \A r \in C : pc[r] = "organization"

\* Every request that starts ends although no timeout ends a wait, unless it
\* waits for creations of tax rates that wait for one another: documents that wait
\* for a partner, and changes of partners, never make a deadlock.
EveryRequestEnds ==
  \A r \in Request :
    Active(r) ~> \/ pc[r] \in Terminal
                 \/ Stuck([q \in Request |-> WaitsFor(q)], r, CreationsOfRates)
=============================================================================
