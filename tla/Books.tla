-------------------------------- MODULE Books --------------------------------
(***************************************************************************)
(* What the general ledger promises an accountant: books in which every    *)
(* operation is one indivisible step.  A period is opened apart from the   *)
(* others and closed for good.  An entry is made, once for each source, in *)
(* an open period that covers its date, and never changed.  An entry is    *)
(* reversed at most once, by an entry with the same accounts, on the same  *)
(* day or on the first day of a later period.  Which accounts are control  *)
(* accounts is fixed by the first entry.                                   *)
(*                                                                         *)
(* Whether an account may be posted to at all is not promised here: the    *)
(* ledger does not keep it (ControlAccountsAreEmpty in Ledger).  Entries   *)
(* that claim by hand to reverse another are no part of the books either:  *)
(* post_journal_entry does not ask if that one has been reversed.          *)
(***************************************************************************)
EXTENDS Naturals

CONSTANTS
  Account,         \* accounts of the chart
  Date,            \* calendar days, a set of naturals
  Entry,           \* names of entries
  InitialPeriods,  \* periods already open
  InitialEntries,  \* a function: entries already made
  None             \* absence of a value

VARIABLES
  period,   \* period[p]: "none", "open" or "locked"
  control,  \* control[a]: is a a control account?
  entry     \* entry[e]: the entry e, or None

vars == <<period, control, entry>>

Period == {p \in [first : Date, last : Date] : p.first <= p.last}

Made == {e \in Entry : entry[e] # None}

Init ==
  /\ period = [p \in Period |-> IF p \in InitialPeriods THEN "open" ELSE "none"]
  /\ control = [a \in Account |-> FALSE]
  /\ entry = [e \in Entry |-> IF e \in DOMAIN InitialEntries THEN InitialEntries[e] ELSE None]

Open(p) ==
  /\ \A q \in Period : period[q] # "none" => p.last < q.first \/ q.last < p.first
  /\ period' = [period EXCEPT ![p] = "open"]
  /\ UNCHANGED <<control, entry>>

Close(p) ==
  /\ period[p] = "open"
  /\ period' = [period EXCEPT ![p] = "locked"]
  /\ UNCHANGED <<control, entry>>

Restructure(a) ==
  /\ \A e \in Made : a \notin entry[e].accounts
  /\ \E value \in BOOLEAN : control' = [control EXCEPT ![a] = value]
  /\ UNCHANGED <<period, entry>>

\* e is made in an open period that covers its date; its source is new.
Make(e) ==
  LET row == entry'[e]
  IN /\ e \notin Made /\ row # None
     /\ entry' = [entry EXCEPT ![e] = row]
     /\ period[row.period] = "open"
     /\ row.period.first <= row.date /\ row.date <= row.period.last
     /\ row.source # None => \A f \in Made : entry[f].source # row.source
     /\ UNCHANGED <<period, control>>

Post(e) == Make(e) /\ entry'[e].reversalOf = None

\* e reverses the entry f.
Reverse(e, f) ==
  LET row == entry'[e]
      original == entry[f]
  IN /\ Make(e)
     /\ row.reversalOf = f /\ original.reversalOf = None
     /\ \A g \in Made : entry[g].reversalOf # f
     /\ row.source = [type |-> "journal_reversal", id |-> f]
     /\ row.accounts = original.accounts
     /\ \/ row.date = original.date
        \/ row.date > original.date /\ row.date = row.period.first

Next ==
  \/ \E p \in Period : Open(p) \/ Close(p)
  \/ \E a \in Account : Restructure(a)
  \/ \E e \in Entry : Post(e) \/ \E f \in Made : Reverse(e, f)

Spec == Init /\ [][Next]_vars
=============================================================================
