-------------------------- MODULE InvoicingProofs --------------------------
(***************************************************************************)
(* Tax rates, partners and their use, for every set of requests, partners, *)
(* days and commands: no day has two rates of a code, no change of a       *)
(* partner is lost, an archived partner gets nothing new, and documents    *)
(* can be posted exactly when they are worth anything.                     *)
(*                                                                         *)
(* Ready says which locks a request holds at each statement, and what it   *)
(* has checked that its locks, or the direction in which partners change,  *)
(* keep true until it commits.  DInv, further down, says the same of the   *)
(* documents.                                                              *)
(***************************************************************************)
EXTENDS Invoicing, SumTheorems, SequenceTheorems, TLAPS

Label ==
  {"idle", "claim", "organization", "overlap", "newPartner", "lockPartner", "partner",
   "rates", "newDocument", "refer", "document", "post", "commit", "rollback", "done", "failed"}

Row == {Organization} \cup {"partner"} \X Partner \cup {"document"} \X Document
LockType == [by : Request, row : Row, mode : {"share", "exclusive"}]

TypeOK ==
  /\ pc \in [Request -> Label]
  /\ cmd \in [Request -> Command \cup {None}]
  /\ expected \in [Request -> Nat]
  /\ gone \in [Request -> SUBSET Partner]
  /\ held \subseteq LockType
  /\ rules \subseteq Rule
  /\ partner \in [Partner -> PartnerRow \cup {None}]

Holds(r, row) == Lock(r, row, "exclusive") \in held

\* No two requests hold a row, unless both share it.
LocksExclude ==
  \A l, m \in held : l.row = m.row /\ l.by # m.by => l.mode = "share" /\ m.mode = "share"

RatesApart == \A x, y \in rules : x # y => ~Overlaps(x, y)

Changes == {"updatePartner", "archivePartner"}
Uses == {"createDocument", "postPayment"}

Archived(p) == partner[p] # None /\ ~partner[p].is_active

\* The statement that r executes is one of its command.
RightCommand(r) ==
  /\ Active(r) => cmd[r] \in Command
  /\ pc[r] \in {"organization", "overlap"} => cmd[r].op = "createRate"
  /\ pc[r] = "newPartner" => cmd[r].op = "createPartner"
  /\ pc[r] = "lockPartner" => cmd[r].op \in Changes
  /\ pc[r] = "partner" => cmd[r].op \in Uses
  /\ pc[r] = "rates" => cmd[r].op \in {"createDocument", "postDocument"}
  /\ pc[r] \in {"newDocument", "refer"} => cmd[r].op = "createDocument"
  /\ pc[r] \in {"document", "post"} => cmd[r].op = "postDocument"

RateIsApart(r) ==
  /\ pc[r] \in {"overlap", "commit"} /\ cmd[r].op = "createRate" => Holds(r, Organization)
  /\ pc[r] = "commit" /\ cmd[r].op = "createRate" =>
       \A x \in rules : ~Overlaps(x, cmd[r].rule)

PartnerIsNew(r) ==
  pc[r] = "commit" /\ cmd[r].op = "createPartner" =>
    Holds(r, <<"partner", cmd[r].partner>>) /\ partner[cmd[r].partner] = None

ChangeIsCurrent(r) ==
  /\ Active(r) /\ cmd[r].op \in Changes => partner[cmd[r].partner] # None
  /\ pc[r] = "commit" /\ cmd[r].op \in Changes =>
       /\ Holds(r, <<"partner", cmd[r].partner>>)
       /\ partner[cmd[r].partner].version = expected[r]

\* The partner that r has checked was not among those archived before.
PartnerIsAccepted(r) ==
  pc[r] \in {"newDocument", "refer", "commit", "done"} /\ cmd[r].op \in Uses =>
    cmd[r].partner \notin gone[r]

GoneStayArchived(r) == \A p \in gone[r] : Archived(p)

Ready(r) ==
  /\ RightCommand(r)
  /\ RateIsApart(r)
  /\ PartnerIsNew(r)
  /\ ChangeIsCurrent(r)
  /\ PartnerIsAccepted(r)
  /\ GoneStayArchived(r)

IInv ==
  /\ TypeOK
  /\ LocksExclude
  /\ RatesApart
  /\ \A r \in Request : Ready(r)

-----------------------------------------------------------------------------
(* Commands, rows and locks.                                               *)

\* The operation of a command determines its fields.
LEMMA FieldType ==
  ASSUME NEW c \in Command
  PROVE  /\ c.op \in {"createRate", "createPartner", "updatePartner", "archivePartner",
                      "createDocument", "postDocument", "postPayment"}
         /\ c.op = "createRate" => c.rule \in Rule
         /\ c.op = "createPartner" => c.type \in PartnerType
         /\ c.op \in {"createPartner"} \cup Changes \cup Uses => c.partner \in Partner
         /\ c.op \in {"createDocument", "postDocument"} => c.document \in Document
BY DEF Command, CreateRate, CreatePartner, ChangePartner, CreateDocument, PostDocument,
       PostPayment, Changes, Uses

\* What can be locked are rows.
LEMMA RowType ==
  /\ Organization \in Row
  /\ \A p \in Partner : <<"partner", p>> \in Row
  /\ \A d \in Document : <<"document", d>> \in Row
BY DEF Row

\* Taking a lock leaves every lock where it is and keeps them exclusive.
LEMMA TakeLock ==
  ASSUME TypeOK, LocksExclude, NEW r \in Request, NEW row \in Row,
         NEW mode \in {"share", "exclusive"}, Acquire(r, row, mode)
  PROVE  /\ LocksExclude' /\ held' \subseteq LockType /\ held \subseteq held'
         /\ Lock(r, row, mode) \in held'
<1>1. /\ Lock(r, row, mode) \in LockType
      /\ Lock(r, row, mode).by = r /\ Lock(r, row, mode).row = row
      /\ Lock(r, row, mode).mode = mode
  BY DEF Lock, LockType
<1>2. /\ held' = held \cup {Lock(r, row, mode)}
      /\ \A l \in held : l.row = row /\ l.by # r => mode = "share" /\ l.mode = "share"
  BY DEF Acquire, Free
<1> HIDE DEF Lock
<1>3. LocksExclude'
  BY <1>1, <1>2 DEF LocksExclude
<1> QED
  BY <1>1, <1>2, <1>3 DEF TypeOK

\* A row that one request holds no other request holds.
LEMMA Exclusive ==
  ASSUME LocksExclude, NEW r \in Request, NEW s \in Request, NEW row,
         Holds(r, row), Holds(s, row)
  PROVE  r = s
BY DEF LocksExclude, Holds, Lock

\* Rules that cover the same day overlap.
LEMMA CoveringOverlap ==
  ASSUME NEW x \in Rule, NEW y \in Rule, NEW day \in Day, x.type = y.type, x.code = y.code,
         Covers(x, day), Covers(y, day)
  PROVE  Overlaps(x, y)
<1>1. \A z \in {x, y} : z.first \in Nat /\ (z.last = None \/ z.last \in Nat) /\ day \in Nat
  <2>1. \A z \in Rule : z.first \in Day /\ z.last \in Day \cup {None}
    BY DEF Rule
  <2> QED
    BY <2>1, DayAssumption
<1>2. \A z \in {x, y} : z.first <= day /\ (z.last = None \/ day <= z.last)
  BY DEF Covers
<1>3. \A z, w \in {x, y} : w.last = None \/ z.first <= w.last
  BY <1>1, <1>2
<1> QED
  BY <1>3 DEF Overlaps

-----------------------------------------------------------------------------
(* Every step preserves IInv.                                              *)

\* Initially nothing is in progress.
LEMMA InitIInv == Init => IInv
<1> SUFFICES ASSUME Init PROVE IInv
  OBVIOUS
<1>1. \A p \in Partner : partner[p] \in PartnerRow \cup {None}
  <2>1. \A type \in PartnerType : NewPartner(type) \in PartnerRow
    BY DEF NewPartner, PartnerRow
  <2> QED
    BY <2>1, PartnersAssumption DEF Init
<1>2. TypeOK
  BY <1>1, RulesAssumption DEF Init, TypeOK, Label
<1>3. LocksExclude
  BY DEF Init, LocksExclude
<1>4. RatesApart
  BY RulesAssumption DEF Init, RatesApart
<1>5. ASSUME NEW r \in Request PROVE Ready(r)
  <2>1. pc[r] = "idle" /\ gone[r] = {}
    BY DEF Init
  <2> QED
    BY <2>1 DEF Ready, RightCommand, RateIsApart, PartnerIsNew, ChangeIsCurrent,
                PartnerIsAccepted, GoneStayArchived, Active, Terminal
<1> QED
  BY <1>2, <1>3, <1>4, <1>5 DEF IInv

\* What s has checked stays so while rates, partners and its own state do.
LEMMA OthersReady ==
  ASSUME NEW s \in Request, Ready(s),
         pc'[s] = pc[s], cmd'[s] = cmd[s], expected'[s] = expected[s], gone'[s] = gone[s],
         \A l \in held : l.by = s => l \in held',
         UNCHANGED <<rules, partner>>
  PROVE  Ready(s)'
<1>1. \A row : Holds(s, row) => Holds(s, row)'
  BY DEF Holds, Lock
<1>2. RightCommand(s)'
  BY DEF Ready, RightCommand, Active
<1>3. RateIsApart(s)'
  BY <1>1 DEF Ready, RateIsApart
<1>4. PartnerIsNew(s)'
  BY <1>1 DEF Ready, PartnerIsNew
<1>5. ChangeIsCurrent(s)'
  BY <1>1 DEF Ready, ChangeIsCurrent, Active
<1>6. PartnerIsAccepted(s)' /\ GoneStayArchived(s)'
  BY DEF Ready, PartnerIsAccepted, GoneStayArchived, Archived
<1> QED
  BY <1>2, <1>3, <1>4, <1>5, <1>6 DEF Ready

\* A step of r before its commit: it suffices to look at r.
LEMMA OwnStep ==
  ASSUME IInv, NEW r \in Request, NEW label \in Label, Goto(r, label),
         \A s \in Request \ {r} :
           cmd'[s] = cmd[s] /\ expected'[s] = expected[s] /\ gone'[s] = gone[s],
         cmd' \in [Request -> Command \cup {None}], expected' \in [Request -> Nat],
         gone' \in [Request -> SUBSET Partner],
         held \subseteq held', held' \subseteq LockType, LocksExclude',
         UNCHANGED <<rules, partner>>, Ready(r)'
  PROVE  IInv'
<1>1. TypeOK'
  BY DEF IInv, TypeOK, Goto
<1>2. RatesApart'
  BY DEF IInv, RatesApart
<1>3. ASSUME NEW s \in Request, s # r PROVE Ready(s)'
  <2>1. pc'[s] = pc[s]
    BY <1>3 DEF IInv, TypeOK, Goto
  <2> QED
    BY <1>3, <2>1, OthersReady DEF IInv
<1> QED
  BY <1>1, <1>2, <1>3 DEF IInv

\* A client sends a command.
LEMMA BeginIInv == ASSUME IInv, NEW r \in Request, Begin(r) PROVE IInv'
<1>1. PICK c \in Commands :
        /\ Known(c)
        /\ cmd' = [cmd EXCEPT ![r] = c]
        /\ expected' = IF c.op \in {"updatePartner", "archivePartner"}
                       THEN [expected EXCEPT ![r] = partner[c.partner].version]
                       ELSE expected
        /\ Goto(r, IF c.op = "createDocument" THEN "rates" ELSE "claim")
  BY DEF Begin
<1> DEFINE label == IF c.op = "createDocument" THEN "rates" ELSE "claim"
           old == {p \in Partner : partner[p] # None /\ ~partner[p].is_active}
<1>2. /\ c \in Command /\ label \in Label
      /\ gone' = [gone EXCEPT ![r] = old]
      /\ UNCHANGED <<held, rules, partner>>
  BY CommandsAssumption DEF Begin, rows, Label
<1>3. c.op \in Changes => partner[c.partner] # None /\ partner[c.partner] \in PartnerRow
  <2>1. c.op \in Changes => partner[c.partner] # None
    BY <1>1 DEF Known, Changes
  <2> QED
    BY <1>2, <2>1, FieldType DEF IInv, TypeOK
<1>4. /\ cmd' \in [Request -> Command \cup {None}] /\ cmd'[r] = c
      /\ gone' \in [Request -> SUBSET Partner] /\ gone'[r] = old
      /\ pc'[r] = label
  BY <1>1, <1>2 DEF IInv, TypeOK, Goto
<1>5. expected' \in [Request -> Nat]
  BY <1>1, <1>3 DEF IInv, TypeOK, Changes, PartnerRow
<1>6. \A s \in Request \ {r} :
        cmd'[s] = cmd[s] /\ expected'[s] = expected[s] /\ gone'[s] = gone[s]
  BY <1>1, <1>2 DEF IInv, TypeOK
<1>7. Ready(r)'
  BY <1>2, <1>3, <1>4 DEF Ready, RightCommand, RateIsApart, PartnerIsNew, ChangeIsCurrent,
                          PartnerIsAccepted, GoneStayArchived, Archived
<1>8. LocksExclude' /\ held' \subseteq LockType
  BY <1>2 DEF IInv, LocksExclude, TypeOK
<1> QED
  BY <1>1, <1>2, <1>4, <1>5, <1>6, <1>7, <1>8, OwnStep

\* A step of r that only moves it and takes locks.
LEMMA PlainStep ==
  ASSUME IInv, NEW r \in Request, NEW label \in Label, Goto(r, label), Active(r),
         pc[r] # "commit", UNCHANGED <<local, rows>>,
         held \subseteq held', held' \subseteq LockType, LocksExclude',
         label \notin {"idle", "done"},
         RightCommand(r)', RateIsApart(r)', PartnerIsNew(r)',
         label = "commit" /\ cmd[r].op \in Changes =>
           /\ Holds(r, <<"partner", cmd[r].partner>>)'
           /\ partner[cmd[r].partner].version = expected[r],
         label \in {"newDocument", "refer", "commit"} /\ cmd[r].op \in Uses =>
           cmd[r].partner \notin gone[r]
  PROVE  IInv'
<1>1. UNCHANGED <<cmd, expected, gone, rules, partner>> /\ pc'[r] = label
  BY DEF local, rows, IInv, TypeOK, Goto
<1>2. ChangeIsCurrent(r)'
  <2>1. cmd[r].op \in Changes => partner[cmd[r].partner] # None
    BY DEF IInv, Ready, ChangeIsCurrent
  <2> QED
    BY <1>1, <2>1 DEF ChangeIsCurrent, Holds
<1>3. PartnerIsAccepted(r)' /\ GoneStayArchived(r)'
  BY <1>1 DEF IInv, Ready, PartnerIsAccepted, GoneStayArchived, Archived
<1>4. Ready(r)'
  BY <1>2, <1>3 DEF Ready
<1>5. /\ cmd' \in [Request -> Command \cup {None}] /\ expected' \in [Request -> Nat]
      /\ gone' \in [Request -> SUBSET Partner]
  BY <1>1 DEF IInv, TypeOK
<1> QED
  BY <1>1, <1>4, <1>5, OwnStep

\* The claim locks the organization in share mode.
LEMMA ClaimIInv == ASSUME IInv, NEW r \in Request, Claim(r) PROVE IInv'
<1>1. /\ LocksExclude' /\ held' \subseteq LockType /\ held \subseteq held'
  BY RowType, TakeLock DEF Claim, IInv
<1>2. Active(r) /\ pc[r] = "claim" /\ UNCHANGED <<local, rows>> /\ cmd'[r] = cmd[r]
  BY DEF Claim, Active, Terminal, local
<1>3. cmd[r] \in Command
  BY <1>2 DEF IInv, Ready, RightCommand
<1>4. PICK label :
        /\ Goto(r, label)
        /\ label = CASE cmd[r].op = "createRate"                          -> "organization"
                     [] cmd[r].op = "createPartner"                       -> "newPartner"
                     [] cmd[r].op \in {"updatePartner", "archivePartner"} -> "lockPartner"
                     [] cmd[r].op \in {"createDocument", "postPayment"}   -> "partner"
                     [] cmd[r].op = "postDocument"                        -> "document"
  BY DEF Claim
<1>5. \/ label = "organization" /\ cmd[r].op = "createRate"
      \/ label = "newPartner" /\ cmd[r].op = "createPartner"
      \/ label = "lockPartner" /\ cmd[r].op \in Changes
      \/ label = "partner" /\ cmd[r].op \in Uses
      \/ label = "document" /\ cmd[r].op = "postDocument"
  BY <1>3, <1>4, FieldType DEF Changes, Uses
<1>6. pc'[r] = label /\ label \in Label
  BY <1>4, <1>5 DEF IInv, TypeOK, Goto, Label
<1>7. RightCommand(r)' /\ RateIsApart(r)' /\ PartnerIsNew(r)'
  BY <1>2, <1>3, <1>5, <1>6 DEF RightCommand, RateIsApart, PartnerIsNew
<1> QED
  BY <1>1, <1>2, <1>4, <1>5, <1>6, <1>7, PlainStep

\* create_rate locks the organization, and looks for overlaps under its lock.
LEMMA LockOrganizationIInv ==
  ASSUME IInv, NEW r \in Request, LockOrganization(r) PROVE IInv'
<1>1. /\ LocksExclude' /\ held' \subseteq LockType /\ held \subseteq held'
      /\ Holds(r, Organization)'
  BY RowType, TakeLock DEF LockOrganization, IInv, Holds
<1>2. Active(r) /\ pc[r] = "organization" /\ UNCHANGED <<local, rows>> /\ cmd'[r] = cmd[r]
  BY DEF LockOrganization, Active, Terminal, local
<1>3. cmd[r] \in Command /\ cmd[r].op = "createRate"
  BY <1>2 DEF IInv, Ready, RightCommand
<1>4. Goto(r, "overlap") /\ pc'[r] = "overlap" /\ "overlap" \in Label
  BY DEF LockOrganization, IInv, TypeOK, Goto, Label
<1>5. RightCommand(r)' /\ RateIsApart(r)' /\ PartnerIsNew(r)'
  BY <1>1, <1>2, <1>3, <1>4 DEF RightCommand, RateIsApart, PartnerIsNew
<1> QED
  BY <1>1, <1>2, <1>4, <1>5, PlainStep

LEMMA CheckOverlapIInv == ASSUME IInv, NEW r \in Request, CheckOverlap(r) PROVE IInv'
<1>1. Active(r) /\ pc[r] = "overlap" /\ UNCHANGED <<local, held, rows>> /\ cmd'[r] = cmd[r]
  BY DEF CheckOverlap, Active, Terminal, local
<1>2. cmd[r] \in Command /\ cmd[r].op = "createRate" /\ Holds(r, Organization)
  BY <1>1 DEF IInv, Ready, RightCommand, RateIsApart
<1>3. PICK label \in {"commit", "rollback"} :
        /\ Goto(r, label)
        /\ label = "commit" => \A x \in rules : ~Overlaps(x, cmd[r].rule)
  BY DEF CheckOverlap, Proceed
<1>4. pc'[r] = label /\ label \in Label
  BY <1>3 DEF IInv, TypeOK, Goto, Label
<1>5. RightCommand(r)' /\ RateIsApart(r)' /\ PartnerIsNew(r)'
  BY <1>1, <1>2, <1>3, <1>4 DEF RightCommand, RateIsApart, PartnerIsNew, rows, Holds
<1>6. LocksExclude' /\ held' \subseteq LockType
  BY <1>1 DEF IInv, LocksExclude, TypeOK
<1> QED
  BY <1>1, <1>2, <1>3, <1>4, <1>5, <1>6, PlainStep DEF Changes, Uses

\* create_partner: the code is new.
LEMMA InsertPartnerIInv == ASSUME IInv, NEW r \in Request, InsertPartner(r) PROVE IInv'
<1>1. Active(r) /\ pc[r] = "newPartner" /\ UNCHANGED <<local, rows>> /\ cmd'[r] = cmd[r]
  BY DEF InsertPartner, Active, Terminal, local
<1>2. cmd[r] \in Command /\ cmd[r].op = "createPartner" /\ cmd[r].partner \in Partner
  BY <1>1, FieldType DEF IInv, Ready, RightCommand
<1>3. /\ LocksExclude' /\ held' \subseteq LockType /\ held \subseteq held'
      /\ Lock(r, <<"partner", cmd[r].partner>>, "exclusive") \in held'
  BY <1>2, RowType, TakeLock DEF InsertPartner, IInv
<1>4. PICK label \in {"commit", "rollback"} :
        Goto(r, label) /\ (label = "commit" => partner[cmd[r].partner] = None)
  BY DEF InsertPartner, Proceed
<1>5. pc'[r] = label /\ label \in Label
  BY <1>4 DEF IInv, TypeOK, Goto, Label
<1>6. RightCommand(r)' /\ RateIsApart(r)' /\ PartnerIsNew(r)'
  BY <1>1, <1>2, <1>3, <1>4, <1>5 DEF RightCommand, RateIsApart, PartnerIsNew, rows, Holds
<1> QED
  BY <1>1, <1>2, <1>3, <1>4, <1>5, <1>6, PlainStep DEF Changes, Uses

\* update_partner and archive_partner compare versions under the row lock.
LEMMA LockPartnerIInv == ASSUME IInv, NEW r \in Request, LockPartner(r) PROVE IInv'
<1>1. Active(r) /\ pc[r] = "lockPartner" /\ UNCHANGED <<local, rows>> /\ cmd'[r] = cmd[r]
  BY DEF LockPartner, Active, Terminal, local
<1>2. cmd[r] \in Command /\ cmd[r].op \in Changes /\ cmd[r].partner \in Partner
  BY <1>1, FieldType DEF IInv, Ready, RightCommand
<1>3. /\ LocksExclude' /\ held' \subseteq LockType /\ held \subseteq held'
      /\ Lock(r, <<"partner", cmd[r].partner>>, "exclusive") \in held'
  BY <1>2, RowType, TakeLock DEF LockPartner, IInv
<1>4. PICK label \in {"commit", "rollback"} :
        Goto(r, label) /\ (label = "commit" => partner[cmd[r].partner].version = expected[r])
  BY DEF LockPartner, Proceed
<1>5. pc'[r] = label /\ label \in Label
  BY <1>4 DEF IInv, TypeOK, Goto, Label
<1>6. RightCommand(r)' /\ RateIsApart(r)' /\ PartnerIsNew(r)'
  BY <1>1, <1>2, <1>4, <1>5 DEF RightCommand, RateIsApart, PartnerIsNew, Changes
<1>7. Holds(r, <<"partner", cmd[r].partner>>)'
  BY <1>1, <1>3 DEF Holds
<1> QED
  BY <1>1, <1>2, <1>3, <1>4, <1>5, <1>6, <1>7, PlainStep DEF Changes, Uses

\* The partner is looked at without a lock: archived partners stay archived.
LEMMA CheckPartnerIInv == ASSUME IInv, NEW r \in Request, CheckPartner(r) PROVE IInv'
<1>1. Active(r) /\ pc[r] = "partner" /\ UNCHANGED <<local, held, rows>> /\ cmd'[r] = cmd[r]
  BY DEF CheckPartner, Active, Terminal, local
<1>2. cmd[r] \in Command /\ cmd[r].op \in Uses
  BY <1>1 DEF IInv, Ready, RightCommand
<1>3. PICK label \in {"newDocument", "commit", "rollback"} :
        /\ Goto(r, label)
        /\ label = "newDocument" => cmd[r].op = "createDocument"
        /\ label # "rollback" => partner[cmd[r].partner].is_active
  BY DEF CheckPartner, Proceed, Accepts
<1>4. pc'[r] = label /\ label \in Label
  BY <1>3 DEF IInv, TypeOK, Goto, Label
<1>5. RightCommand(r)' /\ RateIsApart(r)' /\ PartnerIsNew(r)'
  BY <1>1, <1>2, <1>3, <1>4 DEF RightCommand, RateIsApart, PartnerIsNew, Uses
<1>6. label # "rollback" => cmd[r].partner \notin gone[r]
  BY <1>3 DEF IInv, Ready, GoneStayArchived, Archived
<1>7. LocksExclude' /\ held' \subseteq LockType
  BY <1>1 DEF IInv, LocksExclude, TypeOK
<1> QED
  BY <1>1, <1>2, <1>3, <1>4, <1>5, <1>6, <1>7, PlainStep DEF Changes, Uses

\* The tax rates are looked at before the claim, or before the posting.
LEMMA CheckRatesIInv == ASSUME IInv, NEW r \in Request, CheckRates(r) PROVE IInv'
<1>1. Active(r) /\ pc[r] = "rates" /\ UNCHANGED <<local, held, rows>> /\ cmd'[r] = cmd[r]
  BY DEF CheckRates, Active, Terminal, local
<1>2. cmd[r] \in Command /\ cmd[r].op \in {"createDocument", "postDocument"}
  BY <1>1 DEF IInv, Ready, RightCommand
<1>3. PICK label \in {"claim", "post", "rollback"} :
        Goto(r, label) /\ (label = "post" => cmd[r].op # "createDocument")
  BY DEF CheckRates, Proceed
<1>4. pc'[r] = label /\ label \in Label
  BY <1>3 DEF IInv, TypeOK, Goto, Label
<1>5. RightCommand(r)' /\ RateIsApart(r)' /\ PartnerIsNew(r)'
  BY <1>1, <1>2, <1>3, <1>4 DEF RightCommand, RateIsApart, PartnerIsNew
<1>6. LocksExclude' /\ held' \subseteq LockType
  BY <1>1 DEF IInv, LocksExclude, TypeOK
<1> QED
  BY <1>1, <1>3, <1>4, <1>5, <1>6, PlainStep

\* The document is inserted, and its foreign key locks the partner.
LEMMA InsertDocumentIInv == ASSUME IInv, NEW r \in Request, InsertDocument(r) PROVE IInv'
<1>1. Active(r) /\ pc[r] = "newDocument" /\ UNCHANGED <<local, rows>> /\ cmd'[r] = cmd[r]
  BY DEF InsertDocument, Active, Terminal, local
<1>2. /\ cmd[r] \in Command /\ cmd[r].op = "createDocument" /\ cmd[r].document \in Document
      /\ cmd[r].partner \notin gone[r]
  BY <1>1, FieldType DEF IInv, Ready, RightCommand, PartnerIsAccepted, Uses
<1>3. /\ LocksExclude' /\ held' \subseteq LockType /\ held \subseteq held'
  BY <1>2, RowType, TakeLock DEF InsertDocument, IInv
<1>4. PICK label \in {"refer", "rollback"} : Goto(r, label)
  BY DEF InsertDocument, Proceed
<1>5. pc'[r] = label /\ label \in Label
  BY <1>4 DEF IInv, TypeOK, Goto, Label
<1>6. RightCommand(r)' /\ RateIsApart(r)' /\ PartnerIsNew(r)'
  BY <1>1, <1>2, <1>4, <1>5 DEF RightCommand, RateIsApart, PartnerIsNew
<1> QED
  BY <1>1, <1>2, <1>3, <1>4, <1>5, <1>6, PlainStep

LEMMA ReferToPartnerIInv == ASSUME IInv, NEW r \in Request, ReferToPartner(r) PROVE IInv'
<1>1. Active(r) /\ pc[r] = "refer" /\ UNCHANGED <<local, rows>> /\ cmd'[r] = cmd[r]
  BY DEF ReferToPartner, Active, Terminal, local
<1>2. /\ cmd[r] \in Command /\ cmd[r].op = "createDocument" /\ cmd[r].partner \in Partner
      /\ cmd[r].partner \notin gone[r]
  BY <1>1, FieldType DEF IInv, Ready, RightCommand, PartnerIsAccepted, Uses
<1>3. /\ LocksExclude' /\ held' \subseteq LockType /\ held \subseteq held'
  BY <1>2, RowType, TakeLock DEF ReferToPartner, IInv
<1>4. Goto(r, "commit") /\ pc'[r] = "commit" /\ "commit" \in Label
  BY DEF ReferToPartner, IInv, TypeOK, Goto, Label
<1>5. RightCommand(r)' /\ RateIsApart(r)' /\ PartnerIsNew(r)'
  BY <1>1, <1>2, <1>4 DEF RightCommand, RateIsApart, PartnerIsNew
<1> QED
  BY <1>1, <1>2, <1>3, <1>4, <1>5, PlainStep DEF Changes, Uses

\* post_document locks the document and builds its entry.
LEMMA PostIInv ==
  ASSUME IInv, NEW r \in Request, LockDocument(r) \/ BuildEntry(r) PROVE IInv'
<1>1. /\ Active(r) /\ pc[r] \in {"document", "post"}
      /\ UNCHANGED <<local, rows>> /\ cmd'[r] = cmd[r]
  BY DEF LockDocument, BuildEntry, Active, Terminal, local
<1>2. cmd[r] \in Command /\ cmd[r].op = "postDocument" /\ cmd[r].document \in Document
  BY <1>1, FieldType DEF IInv, Ready, RightCommand
<1>3. /\ LocksExclude' /\ held' \subseteq LockType /\ held \subseteq held'
  <2>1. CASE LockDocument(r)
    BY <1>2, <2>1, RowType, TakeLock DEF LockDocument, IInv
  <2>2. CASE BuildEntry(r)
    BY <2>2 DEF BuildEntry, IInv, LocksExclude, TypeOK
  <2> QED
    BY <2>1, <2>2
<1>4. PICK label \in {"rates", "commit", "rollback"} : Goto(r, label)
  BY DEF LockDocument, BuildEntry, Proceed
<1>5. pc'[r] = label /\ label \in Label
  BY <1>4 DEF IInv, TypeOK, Goto, Label
<1>6. RightCommand(r)' /\ RateIsApart(r)' /\ PartnerIsNew(r)'
  BY <1>1, <1>2, <1>4, <1>5 DEF RightCommand, RateIsApart, PartnerIsNew
<1> QED
  BY <1>1, <1>2, <1>3, <1>4, <1>5, <1>6, PlainStep DEF Changes, Uses

-----------------------------------------------------------------------------
(* The end of a transaction.                                               *)

\* It releases the locks of r and leaves the others alone.
LEMMA FinishStep ==
  ASSUME IInv, NEW r \in Request, NEW label \in Terminal, Finish(r, label)
  PROVE  /\ pc' \in [Request -> Label] /\ pc'[r] = label
         /\ \A s \in Request \ {r} : pc'[s] = pc[s]
         /\ UNCHANGED <<cmd, expected, gone>>
         /\ \A l \in held : l.by # r => l \in held'
         /\ held' \subseteq LockType /\ LocksExclude'
<1>1. label \in Label
  BY DEF Terminal, Label
<1> QED
  BY <1>1 DEF Finish, Goto, local, IInv, TypeOK, LocksExclude

\* The transaction that has ended has nothing to check any more.
LEMMA EndedReady ==
  ASSUME NEW r \in Request, pc'[r] \in Terminal,
         pc'[r] = "done" /\ cmd'[r].op \in Uses => cmd'[r].partner \notin gone'[r],
         GoneStayArchived(r)'
  PROVE  Ready(r)'
<1>1. ~Active(r)'
  BY DEF Active
<1> QED
  BY <1>1 DEF Terminal, Ready, RightCommand, RateIsApart, PartnerIsNew, ChangeIsCurrent,
              PartnerIsAccepted

\* It ends without writing rates or partners.
LEMMA QuietEnd ==
  ASSUME IInv, NEW r \in Request, NEW label \in Terminal, Finish(r, label),
         label = "done" => pc[r] = "commit", UNCHANGED <<rules, partner>>
  PROVE  IInv'
<1>1. /\ pc' \in [Request -> Label] /\ pc'[r] = label
      /\ \A s \in Request \ {r} : pc'[s] = pc[s]
      /\ UNCHANGED <<cmd, expected, gone>>
      /\ \A l \in held : l.by # r => l \in held'
      /\ held' \subseteq LockType /\ LocksExclude'
  BY FinishStep
<1>2. TypeOK' /\ RatesApart'
  BY <1>1 DEF IInv, TypeOK, RatesApart
<1>3. ASSUME NEW s \in Request, s # r PROVE Ready(s)'
  BY <1>1, <1>3, OthersReady DEF IInv
<1>4. Ready(r)'
  <2>1. label = "done" /\ cmd[r].op \in Uses => cmd[r].partner \notin gone[r]
    BY DEF IInv, Ready, PartnerIsAccepted
  <2>2. GoneStayArchived(r)'
    BY <1>1 DEF IInv, Ready, GoneStayArchived, Archived
  <2> QED
    BY <1>1, <2>1, <2>2, EndedReady
<1> QED
  BY <1>1, <1>2, <1>3, <1>4 DEF IInv

LEMMA UndoIInv == ASSUME IInv, NEW r \in Request, Undo(r) PROVE IInv'
BY QuietEnd DEF Undo, rows, Terminal

\* The rate whose creation commits is apart from the others.
LEMMA CommitRateIInv ==
  ASSUME IInv, NEW r \in Request, pc[r] = "commit", CommitRate(r), Finish(r, "done")
  PROVE  IInv'
<1> DEFINE rule == cmd[r].rule
<1>1. /\ pc' \in [Request -> Label] /\ pc'[r] = "done"
      /\ \A s \in Request \ {r} : pc'[s] = pc[s]
      /\ UNCHANGED <<cmd, expected, gone>>
      /\ \A l \in held : l.by # r => l \in held'
      /\ held' \subseteq LockType /\ LocksExclude'
  BY FinishStep DEF Terminal
<1>2. /\ cmd[r] \in Command /\ cmd[r].op = "createRate" /\ rule \in Rule
      /\ Holds(r, Organization) /\ \A x \in rules : ~Overlaps(x, rule)
  BY FieldType DEF CommitRate, IInv, Ready, RightCommand, RateIsApart, Active, Terminal
<1>3. rules' = rules \cup {rule} /\ partner' = partner
  BY DEF CommitRate
<1>4. TypeOK'
  BY <1>1, <1>2, <1>3 DEF IInv, TypeOK
<1>5. RatesApart'
  <2>1. \A x \in rules : ~Overlaps(x, rule) /\ ~Overlaps(rule, x)
    BY <1>2 DEF Overlaps
  <2> QED
    BY <1>3, <2>1 DEF IInv, RatesApart
<1>6. ASSUME NEW s \in Request, s # r PROVE Ready(s)'
  <2>1. /\ pc'[s] = pc[s] /\ UNCHANGED <<cmd, expected, gone, partner>>
        /\ \A row : Holds(s, row) => Holds(s, row)'
    BY <1>1, <1>3, <1>6 DEF Holds, Lock
  <2>2. ~(pc[s] = "commit" /\ cmd[s].op = "createRate")
    BY <1>2, <1>6, Exclusive DEF IInv, Ready, RateIsApart
  <2>3. RateIsApart(s)'
    BY <2>1, <2>2 DEF IInv, Ready, RateIsApart
  <2>4. RightCommand(s)' /\ PartnerIsNew(s)' /\ ChangeIsCurrent(s)'
    BY <2>1 DEF IInv, Ready, RightCommand, PartnerIsNew, ChangeIsCurrent, Active
  <2>5. PartnerIsAccepted(s)' /\ GoneStayArchived(s)'
    BY <2>1 DEF IInv, Ready, PartnerIsAccepted, GoneStayArchived, Archived
  <2> QED
    BY <2>3, <2>4, <2>5 DEF Ready
<1>7. Ready(r)'
  <2>1. GoneStayArchived(r)'
    BY <1>1, <1>3 DEF IInv, Ready, GoneStayArchived, Archived
  <2> QED
    BY <1>1, <1>2, <2>1, EndedReady DEF Terminal, Uses
<1> QED
  BY <1>1, <1>4, <1>5, <1>6, <1>7 DEF IInv

\* The row that is written has its type, and archived partners stay so.
LEMMA WrittenType ==
  ASSUME IInv, NEW r \in Request, pc[r] = "commit", cmd[r].op \in {"createPartner"} \cup Changes
  PROVE  /\ cmd[r].partner \in Partner
         /\ Written(r) \in PartnerRow /\ Written(r) # None
         /\ Archived(cmd[r].partner) => ~Written(r).is_active
<1> DEFINE row == partner[cmd[r].partner]
<1>1. cmd[r] \in Command /\ cmd[r].partner \in Partner
  BY FieldType DEF IInv, Ready, RightCommand, Active, Terminal
<1>2. row \in PartnerRow \cup {None}
  BY <1>1 DEF IInv, TypeOK
<1>3. CASE cmd[r].op = "createPartner"
  <2>1. Written(r) = NewPartner(cmd[r].type) /\ cmd[r].type \in PartnerType /\ row = None
    BY <1>1, <1>3, FieldType DEF Written, IInv, Ready, PartnerIsNew
  <2>2. Written(r) \in PartnerRow
    BY <2>1 DEF NewPartner, PartnerRow
  <2> QED
    BY <1>1, <2>1, <2>2, NoneAssumption DEF Archived
<1>4. CASE cmd[r].op \in Changes
  <2>1. row \in PartnerRow
    BY <1>2, <1>4 DEF IInv, Ready, ChangeIsCurrent, Active, Terminal
  <2>2. \/ Written(r) = [row EXCEPT !.version = @ + 1]
        \/ Written(r) = [row EXCEPT !.version = @ + 1, !.is_active = FALSE]
    BY <1>4 DEF Written, Changes
  <2> DEFINE counted == [row EXCEPT !.version = @ + 1]
             closed == [counted EXCEPT !.is_active = FALSE]
  <2>3. Written(r) \in {counted, closed}
    BY <2>1, <2>2 DEF PartnerRow
  <2> HIDE DEF row
  <2>4. counted \in PartnerRow /\ counted.is_active = row.is_active
    BY <2>1 DEF PartnerRow
  <2> HIDE DEF counted
  <2>5. closed \in PartnerRow /\ ~closed.is_active
    BY <2>4 DEF PartnerRow
  <2> HIDE DEF closed
  <2> QED
    BY <1>1, <2>3, <2>4, <2>5, NoneAssumption DEF Archived, row
<1> QED
  BY <1>3, <1>4

\* Nobody else is about to write the partner whose row is written.
LEMMA CommitPartnerIInv ==
  ASSUME IInv, NEW r \in Request, pc[r] = "commit", CommitPartner(r), Finish(r, "done")
  PROVE  IInv'
<1> DEFINE p == cmd[r].partner
<1>1. /\ pc' \in [Request -> Label] /\ pc'[r] = "done"
      /\ \A s \in Request \ {r} : pc'[s] = pc[s]
      /\ UNCHANGED <<cmd, expected, gone>>
      /\ \A l \in held : l.by # r => l \in held'
      /\ held' \subseteq LockType /\ LocksExclude'
  BY FinishStep DEF Terminal
<1>2. cmd[r].op \in {"createPartner"} \cup Changes /\ UNCHANGED rules
  BY DEF CommitPartner, Changes
<1>3. /\ p \in Partner /\ Written(r) \in PartnerRow /\ Written(r) # None
      /\ Archived(p) => ~Written(r).is_active
  BY <1>2, WrittenType
<1>4. /\ partner' \in [Partner -> PartnerRow \cup {None}]
      /\ partner'[p] = Written(r)
      /\ \A q \in Partner \ {p} : partner'[q] = partner[q]
  BY <1>3 DEF CommitPartner, IInv, TypeOK
<1>5. Holds(r, <<"partner", p>>)
  BY <1>2 DEF IInv, Ready, PartnerIsNew, ChangeIsCurrent
<1>6. TypeOK' /\ RatesApart'
  BY <1>1, <1>2, <1>4 DEF IInv, TypeOK, RatesApart
<1>7. ASSUME NEW s \in Request PROVE GoneStayArchived(s)'
  <2>1. \A q \in Partner : Archived(q) => Archived(q)'
    BY <1>3, <1>4 DEF Archived
  <2> QED
    BY <1>1, <2>1 DEF IInv, TypeOK, Ready, GoneStayArchived
<1>8. ASSUME NEW s \in Request, s # r PROVE Ready(s)'
  <2>1. /\ pc'[s] = pc[s] /\ UNCHANGED <<cmd, expected, gone, rules>>
        /\ \A row : Holds(s, row) => Holds(s, row)'
    BY <1>1, <1>2, <1>8 DEF Holds, Lock
  <2>2. RightCommand(s)' /\ RateIsApart(s)' /\ PartnerIsAccepted(s)'
    BY <2>1 DEF IInv, Ready, RightCommand, RateIsApart, PartnerIsAccepted, Active
  <2>3. pc[s] = "commit" /\ cmd[s].op \in {"createPartner"} \cup Changes =>
          cmd[s].partner \in Partner \ {p}
    <3>1. SUFFICES ASSUME pc[s] = "commit", cmd[s].op \in {"createPartner"} \cup Changes
                   PROVE  cmd[s].partner \in Partner \ {p}
      OBVIOUS
    <3>2. cmd[s].partner \in Partner /\ Holds(s, <<"partner", cmd[s].partner>>)
      BY <3>1, WrittenType DEF IInv, Ready, PartnerIsNew, ChangeIsCurrent
    <3> QED
      BY <1>5, <1>8, <3>2, Exclusive DEF IInv
  <2>4. Active(s) /\ cmd[s].op \in Changes => cmd[s].partner \in Partner
    BY FieldType DEF IInv, Ready, RightCommand
  <2>5. PartnerIsNew(s)'
    BY <1>4, <2>1, <2>3 DEF IInv, Ready, PartnerIsNew
  <2>6. ChangeIsCurrent(s)'
    BY <1>3, <1>4, <2>1, <2>3, <2>4 DEF IInv, Ready, ChangeIsCurrent, Active
  <2> QED
    BY <1>7, <2>2, <2>5, <2>6 DEF Ready
<1>9. Ready(r)'
  BY <1>1, <1>2, <1>7, EndedReady DEF Terminal, Uses, Changes
<1> QED
  BY <1>1, <1>6, <1>8, <1>9 DEF IInv

LEMMA CommitIInv == ASSUME IInv, NEW r \in Request, Commit(r) PROVE IInv'
<1>1. pc[r] = "commit" /\ Finish(r, "done")
  BY DEF Commit
<1>2. CASE CommitRate(r)
  BY <1>1, <1>2, CommitRateIInv
<1>3. CASE CommitPartner(r)
  BY <1>1, <1>3, CommitPartnerIInv
<1>4. CASE CommitDocument(r) \/ CommitPosted(r) \/ CommitPayment(r)
  <2>1. UNCHANGED <<rules, partner>>
    BY <1>4 DEF CommitDocument, CommitPosted, CommitPayment, rows
  <2> QED
    BY <1>1, <2>1, QuietEnd DEF Terminal
<1> QED
  BY <1>2, <1>3, <1>4 DEF Commit

\* IInv is an invariant.
THEOREM Inductive == Spec => []IInv
<1>1. IInv /\ [Next]_vars => IInv'
  <2> SUFFICES ASSUME IInv, [Next]_vars PROVE IInv'
    OBVIOUS
  <2>1. ASSUME NEW r \in Request, Begin(r) PROVE IInv'
    BY <2>1, BeginIInv
  <2>2. ASSUME NEW r \in Request, Step(r) PROVE IInv'
    BY <2>2, ClaimIInv, LockOrganizationIInv, CheckOverlapIInv, InsertPartnerIInv,
       LockPartnerIInv, CheckPartnerIInv, CheckRatesIInv, InsertDocumentIInv,
       ReferToPartnerIInv, PostIInv, CommitIInv, UndoIInv DEF Step, Rollback
  <2>3. ASSUME NEW r \in Request, Refuse(r) \/ Timeout(r) PROVE IInv'
    BY <2>3, UndoIInv DEF Refuse, Timeout
  <2>4. CASE UNCHANGED vars
    <3>1. UNCHANGED <<pc, cmd, expected, gone, held, rules, partner>>
      BY <2>4 DEF vars
    <3>2. \A r \in Request : Ready(r)'
      BY <3>1, OthersReady DEF IInv
    <3> QED
      BY <3>1, <3>2 DEF IInv, TypeOK, LocksExclude, RatesApart
  <2> QED
    BY <2>1, <2>2, <2>3, <2>4 DEF Next
<1> QED
  BY <1>1, InitIInv, PTL DEF Spec

-----------------------------------------------------------------------------
(* What follows from it.                                                   *)

\* A tax code has at most one rate on any day, however the requests that create
\* rates interleave (create_rate).
THEOREM SingleRates == Spec => []OneRatePerDay
<1>1. IInv => OneRatePerDay
  BY CoveringOverlap DEF IInv, TypeOK, RatesApart, OneRatePerDay
<1> QED
  BY <1>1, Inductive, PTL

\* A partner that was archived before a request began gets no document and no
\* payment from it (_partner_for_document, _validate_persisted_allocations).
THEOREM ArchivedRest == Spec => []ArchivedPartnersRest
<1>1. IInv => ArchivedPartnersRest
  BY DEF IInv, Ready, PartnerIsAccepted, ArchivedPartnersRest, Uses
<1> QED
  BY <1>1, Inductive, PTL

\* A partner changes only from the version that the client of the change has
\* read (update_partner, archive_partner).
THEOREM NoChangeIsLost == Spec => NoLostUpdate
<1> DEFINE Current ==
      \A p \in Partner :
        partner[p] # None /\ partner'[p] # partner[p] =>
          \E r \in Request : /\ pc[r] = "commit" /\ pc'[r] = "done"
                             /\ cmd[r].op \in {"updatePartner", "archivePartner"}
                             /\ cmd[r].partner = p
                             /\ expected[r] = partner[p].version
<1>1. IInv /\ [Next]_vars => Current
  <2> SUFFICES ASSUME IInv, [Next]_vars PROVE Current
    OBVIOUS
  <2>1. CASE UNCHANGED partner
    BY <2>1
  <2>2. ASSUME NEW r \in Request, Commit(r), CommitPartner(r) PROVE Current
    <3>1. /\ pc[r] = "commit" /\ Finish(r, "done")
          /\ cmd[r].op \in {"createPartner"} \cup Changes
      BY <2>2 DEF Commit, CommitPartner, Changes
    <3>2. /\ pc'[r] = "done"
          /\ \A q \in Partner : q # cmd[r].partner => partner'[q] = partner[q]
      BY <2>2, <3>1, FinishStep DEF CommitPartner, IInv, TypeOK, Terminal
    <3>3. CASE cmd[r].op = "createPartner"
      BY <3>1, <3>2, <3>3 DEF IInv, Ready, PartnerIsNew
    <3>4. CASE cmd[r].op \in Changes
      BY <3>1, <3>2, <3>4 DEF IInv, Ready, ChangeIsCurrent, Changes
    <3> QED
      BY <3>1, <3>3, <3>4
  <2>3. ASSUME NEW r \in Request, Commit(r), ~CommitPartner(r) PROVE UNCHANGED partner
    BY <2>3 DEF Commit, CommitRate, CommitDocument, CommitPosted, CommitPayment, rows
  <2>4. ASSUME NEW r \in Request, Begin(r) \/ Refuse(r) \/ Timeout(r) PROVE UNCHANGED partner
    BY <2>4 DEF Begin, Refuse, Timeout, Undo, rows
  <2>5. ASSUME NEW r \in Request, Step(r), ~Commit(r) PROVE UNCHANGED partner
    BY <2>5 DEF Step, Claim, LockOrganization, CheckOverlap, InsertPartner, LockPartner,
                CheckPartner, CheckRates, InsertDocument, ReferToPartner, LockDocument,
                BuildEntry, Rollback, Undo, rows
  <2> QED
    BY <2>1, <2>2, <2>3, <2>4, <2>5 DEF Next, Step, vars
<1> QED
  BY <1>1, Inductive, PTL DEF Spec, NoLostUpdate


-----------------------------------------------------------------------------
(* The entry of a document.                                                *)

\* The side of an entry with the amounts.
LEMMA AmountsSide ==
  ASSUME NEW S, IsFiniteSet(S), NEW control, control \notin S,
         NEW amounts, NEW f, \A i \in S : amounts[i] \in Nat /\ f[i] = amounts[i],
         f[control] = 0
  PROVE  SumFunctionOnSet(f, S \cup {control}) = SumFunctionOnSet(amounts, S)
<1>1. SumFunctionOnSet(f, S \cup {control}) = f[control] + SumFunctionOnSet(f, S)
  <2>1. \A i \in S \cup {control} : f[i] \in Int
    OBVIOUS
  <2> QED
    BY <2>1, SumAdd
<1>2. SumFunctionOnSet(amounts, S) = SumFunctionOnSet(f, S)
  <2>1. \A i \in S : amounts[i] \in Int /\ f[i] = amounts[i]
    OBVIOUS
  <2> QED
    BY <2>1, SumEqual
<1>3. SumFunctionOnSet(amounts, S) \in Int
  BY SumInt
<1> QED
  BY <1>1, <1>2, <1>3

\* The side of an entry with the total, on its control account.
LEMMA ControlSide ==
  ASSUME NEW S, IsFiniteSet(S), NEW control, control \notin S,
         NEW g, \A i \in S : g[i] = 0, g[control] \in Nat
  PROVE  SumFunctionOnSet(g, S \cup {control}) = g[control]
<1>1. SumFunctionOnSet(g, S \cup {control}) = g[control] + SumFunctionOnSet(g, S)
  <2>1. \A i \in S \cup {control} : g[i] \in Int
    OBVIOUS
  <2> QED
    BY <2>1, SumAdd
<1>2. SumFunctionOnSet(g, S) = 0
  <2>1. \A i \in S : g[i] \in Int
    OBVIOUS
  <2>2. SumFunctionOnSet(g, S) = SumFunctionOnSet(g, {})
    BY <2>1, SumZeros
  <2> QED
    BY <2>2, SumEmpty
<1> QED
  BY <1>1, <1>2

\* The lines that are worth anything and the tax add up to the total, so the
\* entry is valid exactly when there is a total.
LEMMA PostableExactly ==
  ASSUME NEW row \in DocumentRow, row.total = SumFunction(row.nets) + row.tax, NEW type
  PROVE  Valid(PostingLines(type, row)) <=> row.total > 0
<1>1. row.nets \in Seq(Nat) /\ row.tax \in Nat /\ row.total \in Nat
  BY DEF DocumentRow
<1>2. PICK n \in Nat : n = Len(row.nets)
  BY <1>1
<1>3. PICK amounts : amounts = Append(row.nets, row.tax)
  OBVIOUS
<1>4. /\ DOMAIN row.nets = 1 .. n /\ DOMAIN amounts = 1 .. n + 1 /\ Len(amounts) = n + 1
      /\ \A i \in 1 .. n : row.nets[i] \in Nat /\ amounts[i] = row.nets[i]
      /\ amounts[n + 1] = row.tax
  BY <1>1, <1>2, <1>3
<1>5. \A i \in 1 .. n + 1 : amounts[i] \in Nat
  BY <1>1, <1>4
<1>6. PICK valued : valued = Valued(amounts)
  OBVIOUS
<1>7. valued = {i \in 1 .. n + 1 : amounts[i] > 0} /\ IsFiniteSet(1 .. n + 1)
  BY <1>4, <1>6, FS_Interval DEF Valued
<1>8. valued \subseteq 1 .. n + 1 /\ IsFiniteSet(valued)
  BY <1>7, FS_Subset
<1>9. row.total = SumFunctionOnSet(amounts, valued)
  <2>1. SumFunctionOnSet(row.nets, 1 .. n) = SumFunctionOnSet(amounts, 1 .. n)
    <3>1. IsFiniteSet(1 .. n)
      BY FS_Interval
    <3>2. \A i \in 1 .. n : row.nets[i] \in Int /\ amounts[i] = row.nets[i]
      BY <1>4
    <3> QED
      BY <3>1, <3>2, SumEqual
  <2>2. SumFunctionOnSet(amounts, (1 .. n) \cup {n + 1})
          = amounts[n + 1] + SumFunctionOnSet(amounts, 1 .. n)
    <3>1. IsFiniteSet(1 .. n) /\ n + 1 \notin 1 .. n
      BY FS_Interval
    <3>2. \A i \in (1 .. n) \cup {n + 1} : amounts[i] \in Int
      BY <1>5
    <3> QED
      BY <3>1, <3>2, SumAdd
  <2>3. (1 .. n) \cup {n + 1} = 1 .. n + 1
    OBVIOUS
  <2>4. SumFunctionOnSet(amounts, 1 .. n + 1) = SumFunctionOnSet(amounts, valued)
    <3>1. \A i \in 1 .. n + 1 : amounts[i] \in Int
      BY <1>5
    <3>2. \A i \in (1 .. n + 1) \ valued : amounts[i] = 0
      BY <1>5, <1>7
    <3> QED
      BY <1>7, <1>8, <3>1, <3>2, SumZeros
  <2>5. SumFunctionOnSet(amounts, 1 .. n) \in Int
    <3>1. IsFiniteSet(1 .. n) /\ \A i \in 1 .. n : amounts[i] \in Int
      BY <1>5, FS_Interval
    <3> QED
      BY <3>1, SumInt
  <2>6. row.total = SumFunctionOnSet(amounts, 1 .. n) + row.tax
    <3>1. SumFunction(row.nets) = SumFunctionOnSet(row.nets, 1 .. n)
      BY <1>4 DEF SumFunction
    <3> QED
      BY <2>1, <3>1
  <2>7. SumFunctionOnSet(amounts, valued) = row.tax + SumFunctionOnSet(amounts, 1 .. n)
    BY <1>4, <2>2, <2>3, <2>4
  <2> QED
    BY <1>1, <2>5, <2>6, <2>7
<1>10. row.total > 0 <=> valued # {}
  <2>1. ASSUME valued = {} PROVE row.total = 0
    BY <1>9, <2>1, SumEmpty
  <2>2. ASSUME NEW i \in valued PROVE row.total > 0
    <3>1. amounts[i] > 0 /\ amounts[i] <= SumFunctionOnSet(amounts, valued)
      BY <1>5, <1>7, <1>8, SumMember
    <3> QED
      BY <1>1, <1>5, <1>8, <1>9, <3>1
  <2> QED
    BY <2>1, <2>2
<1>11. PICK control : control = n + 2
  OBVIOUS
<1>12. control \notin valued /\ control = Len(amounts) + 1
  BY <1>4, <1>8, <1>11
<1>13. PICK lines : lines = PostingLines(type, row)
  OBVIOUS
<1>14. /\ DOMAIN lines = valued \cup {control}
       /\ \A i \in valued :
            lines[i] = IF type = "sales_invoice" THEN [debit |-> 0, credit |-> amounts[i]]
                       ELSE [debit |-> amounts[i], credit |-> 0]
       /\ lines[control] = IF type = "sales_invoice" THEN [debit |-> row.total, credit |-> 0]
                           ELSE [debit |-> 0, credit |-> row.total]
  BY <1>3, <1>6, <1>12, <1>13 DEF PostingLines
<1>15. PICK debits : debits = [i \in DOMAIN lines |-> lines[i].debit]
  OBVIOUS
<1>16. PICK credits : credits = [i \in DOMAIN lines |-> lines[i].credit]
  OBVIOUS
<1>17. SumFunction(debits) = SumFunction(credits)
  <2>1. /\ DOMAIN debits = valued \cup {control} /\ DOMAIN credits = valued \cup {control}
        /\ \A i \in valued : amounts[i] \in Nat
    BY <1>5, <1>8, <1>14, <1>15, <1>16
  <2>2. CASE type = "sales_invoice"
    <3>1. /\ \A i \in valued : credits[i] = amounts[i] /\ debits[i] = 0
          /\ credits[control] = 0 /\ debits[control] = row.total
      BY <1>14, <1>15, <1>16, <2>2
    <3>2. \A i \in valued : amounts[i] \in Nat /\ credits[i] = amounts[i]
      BY <2>1, <3>1
    <3>3. SumFunctionOnSet(credits, valued \cup {control}) = SumFunctionOnSet(amounts, valued)
      <4>1. IsFiniteSet(valued) /\ control \notin valued /\ credits[control] = 0
        BY <1>8, <1>12, <3>1
      <4> QED
        BY <3>2, <4>1, AmountsSide
    <3>4. SumFunctionOnSet(debits, valued \cup {control}) = row.total
      <4>1. (\A i \in valued : debits[i] = 0) /\ debits[control] \in Nat
        BY <1>1, <3>1
      <4>2. SumFunctionOnSet(debits, valued \cup {control}) = debits[control]
        BY <1>8, <1>12, <4>1, ControlSide
      <4> QED
        BY <3>1, <4>2
    <3> QED
      BY <1>9, <2>1, <3>3, <3>4 DEF SumFunction
  <2>3. CASE type # "sales_invoice"
    <3>1. /\ \A i \in valued : debits[i] = amounts[i] /\ credits[i] = 0
          /\ debits[control] = 0 /\ credits[control] = row.total
      BY <1>14, <1>15, <1>16, <2>3
    <3>2. \A i \in valued : amounts[i] \in Nat /\ debits[i] = amounts[i]
      BY <2>1, <3>1
    <3>3. SumFunctionOnSet(debits, valued \cup {control}) = SumFunctionOnSet(amounts, valued)
      <4>1. IsFiniteSet(valued) /\ control \notin valued /\ debits[control] = 0
        BY <1>8, <1>12, <3>1
      <4> QED
        BY <3>2, <4>1, AmountsSide
    <3>4. SumFunctionOnSet(credits, valued \cup {control}) = row.total
      <4>1. (\A i \in valued : credits[i] = 0) /\ credits[control] \in Nat
        BY <1>1, <3>1
      <4>2. SumFunctionOnSet(credits, valued \cup {control}) = credits[control]
        BY <1>8, <1>12, <4>1, ControlSide
      <4> QED
        BY <3>1, <4>2
    <3> QED
      BY <1>9, <2>1, <3>3, <3>4 DEF SumFunction
  <2> QED
    BY <2>2, <2>3
<1>18. Cardinality(DOMAIN lines) >= 2 <=> valued # {}
  <2>1. Cardinality(DOMAIN lines) = Cardinality(valued) + 1
    BY <1>8, <1>12, <1>14, FS_AddElement
  <2>2. Cardinality(valued) \in Nat /\ (Cardinality(valued) = 0 <=> valued = {})
    BY <1>8, FS_CardinalityType, FS_EmptySet
  <2> QED
    BY <2>1, <2>2
<1>19. ASSUME row.total > 0, NEW i \in DOMAIN lines
       PROVE  (lines[i].debit > 0) # (lines[i].credit > 0)
  <2>1. /\ i \in valued => amounts[i] > 0
        /\ 0 \in Nat /\ ~(0 > 0)
    BY <1>7
  <2>2. CASE i \in valued
    <3>1. \/ lines[i].debit = 0 /\ lines[i].credit = amounts[i]
          \/ lines[i].debit = amounts[i] /\ lines[i].credit = 0
      BY <1>14, <2>2
    <3> QED
      BY <2>1, <2>2, <3>1
  <2>3. CASE i = control
    <3>1. \/ lines[i].debit = 0 /\ lines[i].credit = row.total
          \/ lines[i].debit = row.total /\ lines[i].credit = 0
      BY <1>14, <2>3
    <3> QED
      BY <1>19, <2>1, <3>1
  <2> QED
    BY <1>14, <1>19, <2>2, <2>3
<1>20. Valid(lines) <=> /\ Cardinality(DOMAIN lines) >= 2
                        /\ \A i \in DOMAIN lines : (lines[i].debit > 0) # (lines[i].credit > 0)
                        /\ SumFunction(debits) = SumFunction(credits)
  BY <1>15, <1>16 DEF Valid
<1> QED
  BY <1>10, <1>13, <1>17, <1>18, <1>19, <1>20

-----------------------------------------------------------------------------
(* Documents.                                                              *)

\* The parts of a document add up, and only one that is worth anything and has a
\* short number is posted.
AddsUp(d, row) ==
  /\ row.total = SumFunction(row.nets) + row.tax
  /\ row.status = "posted" => row.total > 0 /\ ReferenceFits(d)

\* A document is drawn up once, and not posted before it is and has a value.
DocumentReady(r) ==
  /\ pc[r] \in {"refer", "commit"} /\ cmd[r].op = "createDocument" =>
       Holds(r, <<"document", cmd[r].document>>) /\ document[cmd[r].document] = None
  /\ Active(r) /\ cmd[r].op = "postDocument" => document[cmd[r].document] # None
  /\ pc[r] = "commit" /\ cmd[r].op = "postDocument" =>
       document[cmd[r].document].total > 0 /\ ReferenceFits(cmd[r].document)

DInv ==
  /\ document \in [Document -> DocumentRow \cup {None}]
  /\ \A d \in Document : document[d] # None => AddsUp(d, document[d])
  /\ \A r \in Request : DocumentReady(r)

LEMMA LineFields ==
  ASSUME NEW line \in Line
  PROVE  line.quantity \in Nat /\ line.price \in Nat /\ line.rate \in Rate
<1>1. line.quantity \in Nat
  BY DEF Line
<1>2. line.price \in Nat
  BY DEF Line
<1>3. line.rate \in Rate
  BY DEF Line
<1> QED
  BY <1>1, <1>2, <1>3

\* Rounding keeps amounts at or above zero.
LEMMA Rounded ==
  ASSUME NEW line \in Line
  PROVE  Net(line) \in Nat /\ Tax(line) \in Nat
<1>1. line.quantity \in Nat /\ line.price \in Nat /\ line.rate \in Nat
  <2>1. Rate \subseteq Nat
    BY DEF Rate
  <2> QED
    BY <2>1, LineFields
<1>2. \A a, b \in Nat : a * b \in Nat
  OBVIOUS
<1>3. \A a \in Nat : (a + 500) \div 1000 \in Nat /\ (a + 5000) \div 10000 \in Nat
  OBVIOUS
<1>4. Net(line) \in Nat
  BY <1>1, <1>2, <1>3 DEF Net
<1> HIDE DEF Net
<1> QED
  BY <1>1, <1>2, <1>3, <1>4 DEF Tax

\* What is inserted is a document, and adds up.
LEMMA NewDocumentType ==
  ASSUME NEW c \in Command, c.op = "createDocument"
  PROVE  /\ NewDocument(c) \in DocumentRow /\ NewDocument(c) # None
         /\ \A d : AddsUp(d, NewDocument(c))
<1>1. c.partner \in Partner /\ c.issued \in Day /\ c.lines \in Seq(Line)
  BY DEF Command, CreateRate, CreatePartner, ChangePartner, CreateDocument, PostDocument,
         PostPayment
<1>2. PICK n \in Nat : n = Len(c.lines) /\ DOMAIN c.lines = 1 .. n
  BY <1>1
<1>3. \A i \in 1 .. n : c.lines[i] \in Line
  BY <1>1, <1>2
<1>4. PICK nets : nets = [i \in 1 .. n |-> Net(c.lines[i])]
  OBVIOUS
<1>5. PICK taxes : taxes = [i \in 1 .. n |-> Tax(c.lines[i])]
  OBVIOUS
<1>6. \A i \in 1 .. n : nets[i] \in Nat /\ taxes[i] \in Nat
  BY <1>3, <1>4, <1>5, Rounded
<1>7. nets \in Seq(Nat)
  BY <1>4, <1>6
<1>8. SumFunction(nets) \in Nat /\ SumFunction(taxes) \in Nat
  <2>1. IsFiniteSet(1 .. n) /\ DOMAIN nets = 1 .. n /\ DOMAIN taxes = 1 .. n
    BY <1>4, <1>5, FS_Interval
  <2> QED
    BY <1>6, <2>1, SumNat DEF SumFunction
<1>9. PICK rates : rates = {c.lines[i].rate : i \in 1 .. n} \ {0}
  OBVIOUS
<1>10. rates \in SUBSET (Rate \ {0})
  BY <1>3, <1>9, LineFields
<1>11. NewDocument(c) =
         [partner |-> c.partner, issued |-> c.issued, status |-> "draft", rates |-> rates,
          nets |-> nets, tax |-> SumFunction(taxes),
          total |-> SumFunction(nets) + SumFunction(taxes)]
  BY <1>2, <1>4, <1>5, <1>9 DEF NewDocument
<1>12. NewDocument(c) \in DocumentRow
  <2>1. SumFunction(nets) + SumFunction(taxes) \in Nat
    BY <1>8
  <2> QED
    BY <1>1, <1>7, <1>8, <1>10, <1>11, <2>1 DEF DocumentRow
<1>13. \A d : AddsUp(d, NewDocument(c))
  BY <1>11 DEF AddsUp
<1> QED
  BY <1>12, <1>13, NoneAssumption

\* Initially there are no documents.
LEMMA InitDInv == Init => DInv
<1> SUFFICES ASSUME Init PROVE DInv
  OBVIOUS
<1>1. /\ document \in [Document -> DocumentRow \cup {None}]
      /\ \A d \in Document : document[d] = None
  BY DEF Init
<1>2. ASSUME NEW r \in Request PROVE DocumentReady(r)
  <2>1. pc[r] = "idle"
    BY DEF Init
  <2> QED
    BY <2>1 DEF DocumentReady, Active, Terminal
<1> QED
  BY <1>1, <1>2 DEF DInv

\* A step of r that leaves the documents alone: it suffices to look at r.
LEMMA DocumentsKept ==
  ASSUME DInv, NEW r \in Request, UNCHANGED document,
         \A s \in Request \ {r} : pc'[s] = pc[s] /\ cmd'[s] = cmd[s],
         \A l \in held : l.by # r => l \in held',
         DocumentReady(r)'
  PROVE  DInv'
<1>1. ASSUME NEW s \in Request, s # r PROVE DocumentReady(s)'
  <2>1. \A row : Holds(s, row) => Holds(s, row)'
    BY <1>1 DEF Holds, Lock
  <2>2. pc'[s] = pc[s] /\ cmd'[s] = cmd[s]
    BY <1>1
  <2> QED
    BY <2>1, <2>2 DEF DInv, DocumentReady, Active
<1> QED
  BY <1>1 DEF DInv

\* A client posts a document that it has seen.
LEMMA BeginDInv == ASSUME IInv, DInv, NEW r \in Request, Begin(r) PROVE DInv'
<1>1. PICK c \in Commands :
        /\ Known(c)
        /\ cmd' = [cmd EXCEPT ![r] = c]
        /\ Goto(r, IF c.op = "createDocument" THEN "rates" ELSE "claim")
  BY DEF Begin
<1>2. UNCHANGED <<held, document>>
  BY DEF Begin, rows
<1>3. pc'[r] \in {"rates", "claim"} /\ cmd'[r] = c
  BY <1>1 DEF IInv, TypeOK, Goto
<1>4. \A s \in Request \ {r} : pc'[s] = pc[s] /\ cmd'[s] = cmd[s]
  BY <1>1 DEF IInv, TypeOK, Goto
<1>5. c.op = "postDocument" => document[c.document] # None
  BY <1>1 DEF Known
<1>6. DocumentReady(r)'
  BY <1>2, <1>3, <1>5 DEF DocumentReady
<1> QED
  BY <1>2, <1>4, <1>6, DocumentsKept

\* A step of r that only moves it and takes locks.
LEMMA PlainDStep ==
  ASSUME IInv, DInv, NEW r \in Request, NEW label, Goto(r, label), Active(r),
         UNCHANGED <<local, rows>>, held \subseteq held',
         label \in {"refer", "commit"} /\ cmd[r].op = "createDocument" =>
           Holds(r, <<"document", cmd[r].document>>)' /\ document[cmd[r].document] = None,
         label = "commit" /\ cmd[r].op = "postDocument" =>
           document[cmd[r].document].total > 0 /\ ReferenceFits(cmd[r].document)
  PROVE  DInv'
<1>1. UNCHANGED <<cmd, document>> /\ pc'[r] = label
  BY DEF local, rows, IInv, TypeOK, Goto
<1>2. \A s \in Request \ {r} : pc'[s] = pc[s]
  BY DEF IInv, TypeOK, Goto
<1>3. DocumentReady(r)'
  BY <1>1 DEF DInv, DocumentReady, Holds
<1> QED
  BY <1>1, <1>2, <1>3, DocumentsKept

\* Statements about rates and partners do not bring a document to its commit.
LEMMA OtherDStep ==
  ASSUME IInv, DInv, NEW r \in Request,
         \/ Claim(r) \/ LockOrganization(r) \/ CheckOverlap(r) \/ InsertPartner(r)
         \/ LockPartner(r) \/ CheckPartner(r) \/ CheckRates(r) \/ LockDocument(r)
  PROVE  DInv'
<1>1. /\ pc[r] \in {"claim", "organization", "overlap", "newPartner", "lockPartner",
                    "partner", "rates", "document"}
      /\ UNCHANGED <<local, rows>> /\ held \subseteq held'
  BY DEF Claim, LockOrganization, CheckOverlap, InsertPartner, LockPartner, CheckPartner,
         CheckRates, LockDocument, Acquire
<1>2. Active(r) /\ cmd[r] \in Command
  BY <1>1 DEF Active, Terminal, IInv, Ready, RightCommand
<1>3. PICK label :
        /\ Goto(r, label)
        /\ label \in {"refer", "commit"} => cmd[r].op \notin {"createDocument", "postDocument"}
  <2>1. CASE Claim(r)
    <3>1. /\ cmd[r].op \in {"createRate", "createPartner", "updatePartner", "archivePartner",
                            "createDocument", "postDocument", "postPayment"}
          /\ Goto(r, CASE cmd[r].op = "createRate"                          -> "organization"
                       [] cmd[r].op = "createPartner"                       -> "newPartner"
                       [] cmd[r].op \in {"updatePartner", "archivePartner"} -> "lockPartner"
                       [] cmd[r].op \in {"createDocument", "postPayment"}   -> "partner"
                       [] cmd[r].op = "postDocument"                        -> "document")
      BY <1>2, <2>1, FieldType DEF Claim
    <3> QED
      BY <3>1
  <2>2. CASE LockOrganization(r)
    BY <2>2 DEF LockOrganization
  <2>3. CASE CheckOverlap(r)
    BY <2>3 DEF CheckOverlap, Proceed, IInv, Ready, RightCommand
  <2>4. CASE InsertPartner(r)
    BY <2>4 DEF InsertPartner, Proceed, IInv, Ready, RightCommand
  <2>5. CASE LockPartner(r)
    BY <2>5 DEF LockPartner, Proceed, IInv, Ready, RightCommand, Changes
  <2>6. CASE CheckPartner(r)
    BY <2>6 DEF CheckPartner, Proceed, IInv, Ready, RightCommand, Uses
  <2>7. CASE CheckRates(r)
    BY <2>7 DEF CheckRates, Proceed
  <2>8. CASE LockDocument(r)
    BY <2>8 DEF LockDocument, Proceed
  <2> QED
    BY <2>1, <2>2, <2>3, <2>4, <2>5, <2>6, <2>7, <2>8
<1> QED
  BY <1>1, <1>2, <1>3, PlainDStep

\* The number of a new document is free, under the lock of its row.
LEMMA InsertDocumentDInv ==
  ASSUME IInv, DInv, NEW r \in Request, InsertDocument(r) PROVE DInv'
<1>1. Active(r) /\ UNCHANGED <<local, rows>> /\ cmd'[r] = cmd[r]
  BY DEF InsertDocument, Active, Terminal, local
<1>2. held \subseteq held' /\ Holds(r, <<"document", cmd[r].document>>)'
  BY <1>1 DEF InsertDocument, Acquire, Holds
<1>3. PICK label \in {"refer", "rollback"} :
        Goto(r, label) /\ (label = "refer" => document[cmd[r].document] = None)
  BY DEF InsertDocument, Proceed
<1> QED
  BY <1>1, <1>2, <1>3, PlainDStep

LEMMA ReferToPartnerDInv ==
  ASSUME IInv, DInv, NEW r \in Request, ReferToPartner(r) PROVE DInv'
<1>1. /\ Active(r) /\ pc[r] = "refer" /\ UNCHANGED <<local, rows>> /\ cmd'[r] = cmd[r]
      /\ held \subseteq held' /\ Goto(r, "commit") /\ cmd[r].op = "createDocument"
  BY DEF ReferToPartner, Active, Terminal, local, Acquire, IInv, Ready, RightCommand
<1>2. /\ Holds(r, <<"document", cmd[r].document>>)'
      /\ document[cmd[r].document] = None
  BY <1>1 DEF DInv, DocumentReady, Holds
<1> QED
  BY <1>1, <1>2, PlainDStep

\* The ledger's rules for the entry let a document pass only if it has a value.
LEMMA BuildEntryDInv == ASSUME IInv, DInv, NEW r \in Request, BuildEntry(r) PROVE DInv'
<1> DEFINE d == cmd[r].document
<1>1. Active(r) /\ pc[r] = "post" /\ UNCHANGED <<local, held, rows>>
  BY DEF BuildEntry, Active, Terminal
<1>2. cmd[r] \in Command /\ cmd[r].op = "postDocument" /\ d \in Document
  BY <1>1, FieldType DEF IInv, Ready, RightCommand
<1>3. document[d] \in DocumentRow /\ AddsUp(d, document[d])
  BY <1>1, <1>2 DEF DInv, DocumentReady
<1>4. PICK label \in {"commit", "rollback"} :
        /\ Goto(r, label)
        /\ label = "commit" => ReferenceFits(d) /\ Valid(PostingLines(d[1], document[d]))
  BY DEF BuildEntry, Proceed
<1>5. label = "commit" => document[d].total > 0 /\ ReferenceFits(d)
  BY <1>3, <1>4, PostableExactly DEF AddsUp
<1> QED
  BY <1>1, <1>2, <1>4, <1>5, PlainDStep

\* The end of a transaction that writes no document.
LEMMA QuietDEnd ==
  ASSUME IInv, DInv, NEW r \in Request, NEW label \in Terminal, Finish(r, label),
         UNCHANGED document
  PROVE  DInv'
<1>1. /\ pc'[r] = label /\ UNCHANGED cmd
      /\ \A s \in Request \ {r} : pc'[s] = pc[s]
      /\ \A l \in held : l.by # r => l \in held'
  BY FinishStep
<1>2. DocumentReady(r)'
  BY <1>1 DEF DocumentReady, Active, Terminal
<1> QED
  BY <1>1, <1>2, DocumentsKept

\* What the other requests have checked survives the writing of a document that
\* keeps its value, if it was there, and that nobody else is drawing up.
LEMMA DocumentWritten ==
  ASSUME IInv, DInv, NEW r \in Request, Finish(r, "done"),
         NEW d \in Document, document'[d] \in DocumentRow, AddsUp(d, document'[d]),
         document' = [document EXCEPT ![d] = document'[d]],
         document[d] # None => document'[d].total = document[d].total,
         \A s \in Request \ {r} :
           pc[s] \in {"refer", "commit"} /\ cmd[s].op = "createDocument" => cmd[s].document # d
  PROVE  DInv'
<1>1. /\ pc'[r] = "done" /\ UNCHANGED cmd
      /\ \A s \in Request \ {r} : pc'[s] = pc[s]
      /\ \A l \in held : l.by # r => l \in held'
  BY FinishStep DEF Terminal
<1>2. /\ document' \in [Document -> DocumentRow \cup {None}]
      /\ document'[d] # None
      /\ \A e \in Document \ {d} : document'[e] = document[e]
  BY NoneAssumption DEF DInv
<1>3. \A e \in Document : document'[e] # None => AddsUp(e, document'[e])
  BY <1>2 DEF DInv
<1>4. DocumentReady(r)'
  BY <1>1 DEF DocumentReady, Active, Terminal
<1>5. ASSUME NEW s \in Request, s # r PROVE DocumentReady(s)'
  <2>1. /\ pc'[s] = pc[s] /\ cmd'[s] = cmd[s]
        /\ \A x : Holds(s, x) => Holds(s, x)'
    BY <1>1, <1>5 DEF Holds, Lock
  <2>2. Active(s) /\ cmd[s].op \in {"createDocument", "postDocument"} =>
          cmd[s].document \in Document
    BY FieldType DEF IInv, Ready, RightCommand
  <2>3. pc[s] \in {"refer", "commit"} => Active(s)
    BY DEF Active, Terminal
  <2> QED
    BY <1>2, <1>5, <2>1, <2>2, <2>3 DEF DInv, DocumentReady, Active
<1> QED
  BY <1>2, <1>3, <1>4, <1>5 DEF DInv

LEMMA CommitDInv == ASSUME IInv, DInv, NEW r \in Request, Commit(r) PROVE DInv'
<1> DEFINE d == cmd[r].document
<1>1. pc[r] = "commit" /\ Finish(r, "done") /\ Active(r) /\ cmd[r] \in Command
  BY DEF Commit, Active, Terminal, IInv, Ready, RightCommand
<1>2. CASE CommitRate(r) \/ CommitPartner(r) \/ CommitPayment(r)
  BY <1>1, <1>2, QuietDEnd DEF CommitRate, CommitPartner, CommitPayment, rows, Terminal
<1>3. CASE CommitDocument(r)
  <2> DEFINE row == NewDocument(cmd[r])
  <2>1. /\ cmd[r].op = "createDocument" /\ d \in Document
        /\ document' = [document EXCEPT ![d] = row]
    BY <1>1, <1>3, FieldType DEF CommitDocument
  <2>2. Holds(r, <<"document", d>>) /\ document[d] = None
    BY <1>1, <2>1 DEF DInv, DocumentReady
  <2>3. \A s \in Request \ {r} :
          pc[s] \in {"refer", "commit"} /\ cmd[s].op = "createDocument" => cmd[s].document # d
    BY <2>2, Exclusive DEF IInv, DInv, DocumentReady
  <2>4. row \in DocumentRow /\ AddsUp(d, row)
    BY <1>1, <2>1, NewDocumentType
  <2>5. /\ document'[d] = row
        /\ document' = [document EXCEPT ![d] = document'[d]]
    BY <2>1 DEF DInv
  <2>6. /\ document'[d] \in DocumentRow /\ AddsUp(d, document'[d])
        /\ document[d] # None => document'[d].total = document[d].total
    BY <2>2, <2>4, <2>5
  <2> HIDE DEF d, row
  <2> QED
    BY <1>1, <2>1, <2>3, <2>5, <2>6, DocumentWritten
<1>4. CASE CommitPosted(r)
  <2> DEFINE row == [document[d] EXCEPT !.status = "posted"]
  <2>1. /\ cmd[r].op = "postDocument" /\ d \in Document
        /\ document' = [document EXCEPT ![d] = row]
    BY <1>1, <1>4, FieldType DEF CommitPosted
  <2>2. /\ document[d] \in DocumentRow /\ AddsUp(d, document[d])
        /\ document[d].total > 0 /\ ReferenceFits(d)
    BY <1>1, <2>1 DEF DInv, DocumentReady
  <2>3. /\ row \in DocumentRow /\ row.total = document[d].total
        /\ row.nets = document[d].nets /\ row.tax = document[d].tax
    <3>1. PICK old \in DocumentRow : old = document[d]
      BY <2>2
    <3>2. [old EXCEPT !.status = "posted"] \in DocumentRow
      BY DEF DocumentRow
    <3>3. LET new == [old EXCEPT !.status = "posted"]
          IN  new.total = old.total /\ new.nets = old.nets /\ new.tax = old.tax
      BY DEF DocumentRow
    <3> QED
      BY <3>1, <3>2, <3>3
  <2>4. AddsUp(d, row)
    BY <2>2, <2>3 DEF AddsUp
  <2>5. \A s \in Request \ {r} :
          pc[s] \in {"refer", "commit"} /\ cmd[s].op = "createDocument" => cmd[s].document # d
    BY <1>1, <2>1 DEF DInv, DocumentReady
  <2>6. /\ document'[d] = row
        /\ document' = [document EXCEPT ![d] = document'[d]]
    BY <2>1 DEF DInv
  <2>7. /\ document'[d] \in DocumentRow /\ AddsUp(d, document'[d])
        /\ document[d] # None => document'[d].total = document[d].total
    BY <2>3, <2>4, <2>6
  <2> HIDE DEF d, row
  <2> QED
    BY <1>1, <2>1, <2>5, <2>6, <2>7, DocumentWritten
<1> QED
  BY <1>2, <1>3, <1>4 DEF Commit

\* DInv is an invariant.
THEOREM DocumentsInductive == Spec => []DInv
<1>1. IInv /\ DInv /\ [Next]_vars => DInv'
  <2> SUFFICES ASSUME IInv, DInv, [Next]_vars PROVE DInv'
    OBVIOUS
  <2>1. ASSUME NEW r \in Request, Begin(r) PROVE DInv'
    BY <2>1, BeginDInv
  <2>2. ASSUME NEW r \in Request, Undo(r) PROVE DInv'
    BY <2>2, QuietDEnd DEF Undo, rows, Terminal
  <2>3. ASSUME NEW r \in Request, Step(r) PROVE DInv'
    BY <2>2, <2>3, OtherDStep, InsertDocumentDInv, ReferToPartnerDInv, BuildEntryDInv,
       CommitDInv DEF Step, Rollback
  <2>4. ASSUME NEW r \in Request, Refuse(r) \/ Timeout(r) PROVE DInv'
    BY <2>2, <2>4 DEF Refuse, Timeout
  <2>5. CASE UNCHANGED vars
    <3>1. UNCHANGED <<pc, cmd, held, document>>
      BY <2>5 DEF vars
    <3>2. \A r \in Request : DocumentReady(r)'
      BY <3>1 DEF DInv, DocumentReady, Active, Holds
    <3> QED
      BY <3>1, <3>2 DEF DInv
  <2> QED
    BY <2>1, <2>3, <2>4, <2>5 DEF Next
<1> QED
  BY <1>1, InitDInv, Inductive, PTL DEF Spec

\* The ledger accepts the entry of a document exactly when the document is worth
\* anything, and only such documents are posted, if their number leaves room for
\* the reference (create_document, _posting_command, JournalPostCommand).
THEOREM EntriesArePostable == Spec => []PostableUnlessZero
<1>1. DInv => PostableUnlessZero
  <2> SUFFICES ASSUME DInv, NEW d \in Document, document[d] # None
               PROVE  /\ Valid(PostingLines(d[1], document[d])) = (document[d].total > 0)
                      /\ document[d].status = "posted" =>
                           document[d].total > 0 /\ ReferenceFits(d)
    BY DEF PostableUnlessZero
  <2>1. document[d] \in DocumentRow /\ AddsUp(d, document[d])
    BY DEF DInv
  <2>2. Valid(PostingLines(d[1], document[d])) <=> document[d].total > 0
    BY <2>1, PostableExactly DEF AddsUp
  <2>3. Valid(PostingLines(d[1], document[d])) \in BOOLEAN
    BY DEF Valid
  <2> QED
    BY <2>1, <2>2, <2>3 DEF AddsUp
<1> QED
  BY <1>1, DocumentsInductive, PTL
=============================================================================
