--------------------------- MODULE SessionsProofs ---------------------------
(***************************************************************************)
(* Sign-outs are final, and the browser echoes the token that the server   *)
(* expects, for every set of requests, every lifetime of a session and     *)
(* every interleaving, whether answers are sent before or after commits.   *)
(*                                                                         *)
(* A session can be named by others only when the answer to its sign-in    *)
(* has been delivered (Told), and its row is written once: by whoever has  *)
(* been admitted with it, after its sign-in has ended (Known).  While a    *)
(* token is rotated the browser has none, or just the new one, and the     *)
(* only session it can hold is the one that is being rotated (Rotating).   *)
(***************************************************************************)
EXTENDS Sessions, TLAPS

Label == {"idle", "authenticate", "rotate", "write", "commit", "told",
          "answered", "undone", "unauthorized", "refused", "done", "failed"}

Cookies == [session : Request \cup {None}, csrf : Request \cup {None}]

TypeOK ==
  /\ pc \in [Request -> Label]
  /\ cmd \in [Request -> Command \cup {None}]
  /\ sent \in [Request -> Cookies]
  /\ principal \in [Request -> Request \cup {None}]
  /\ session \in [Request -> SessionRow \cup {None}]
  /\ jar \in Cookies
  /\ now \in Nat
  /\ overlapped \in BOOLEAN

\* The row of a session is written when its sign-in commits.
RowsAreWrittenOnce == \A s \in Request : session[s] # None => pc[s] \in Answers \cup Terminal

\* The requests whose answer the browser has received, or never will.
Delivered == {"told"} \cup Terminal

\* Whoever names a session has got it from the answer to its sign-in.
Told(s) == s # None => pc[s] \in Delivered

\* Whoever is admitted with one has found its row.
Known(s) == s # None => session[s] # None /\ pc[s] \in Terminal

NamesAreKnown ==
  /\ Told(jar.session) /\ Told(jar.csrf)
  /\ \A r \in Request : Told(sent[r].session) /\ Known(principal[r])

\* What r executes is a statement of its command.
RightCommand(r) ==
  /\ pc[r] = "authenticate" => cmd[r] \in {"csrf", "me", "command", "logout"}
  /\ pc[r] = "rotate" => cmd[r] = "csrf"
  /\ pc[r] \in {"rotate", "write", "commit", "told", "answered"} /\ cmd[r] # "login" =>
       principal[r] # None

\* A sign-in is answered with the token of the new session.
Issues(r) ==
  /\ pc[r] = "answered" /\ cmd[r] = "login" => session[r] # None /\ session[r].csrf = r
  /\ pc[r] = "told" /\ jar.csrf = r => SetsCookies(cmd[r])

Ready(r) == RightCommand(r) /\ Issues(r)

\* The session whose token r rotates.
Rotated(r) == IF pc[r] = "authenticate" THEN sent[r].session ELSE principal[r]

\* A token is rotated when the browser has none, for the session that it holds.
Rotating(r) ==
  Active(r) /\ cmd[r] = "csrf" =>
    /\ jar.csrf = None \/ (pc[r] = "told" /\ jar.csrf = r)
    /\ pc[r] \notin {"unauthorized", "refused"} => jar.session \in {None, Rotated(r)}
    /\ pc[r] = "answered" => session[principal[r]].csrf = r

\* The cookies of a sign-in that has not committed are received together.
SigningIn(r) ==
  pc[r] = "told" /\ cmd[r] = "login" =>
    /\ jar.session = r => jar.csrf \in {None, r}
    /\ jar.csrf = r => jar.session = r

\* Unless they overlap, one request that sets cookies is active at a time.
Alone ==
  \A q, r \in Request :
    Active(q) /\ Active(r) /\ SetsCookies(cmd[q]) /\ SetsCookies(cmd[r]) => q = r

InTurn == ~overlapped => Alone /\ \A r \in Request : Rotating(r) /\ SigningIn(r)

IInv ==
  /\ TypeOK
  /\ RowsAreWrittenOnce
  /\ NamesAreKnown
  /\ \A r \in Request : Ready(r)
  /\ InTurn
  /\ EchoIsAccepted

-----------------------------------------------------------------------------
(* The initial states.                                                     *)

LEMMA NoneIsNothing == None \notin Request /\ None \notin Command /\ None \notin SessionRow
BY NoneAssumption

\* A new session has the token of its sign-in.
LEMMA NewSessionType ==
  ASSUME NEW s \in Request, NEW time \in Nat
  PROVE  /\ NewSession(s, time) \in SessionRow /\ NewSession(s, time) # None
         /\ NewSession(s, time).csrf = s
<1>1. time + TTL \in Nat
  BY TimeAssumption
<1>2. NewSession(s, time) \in SessionRow /\ NewSession(s, time).csrf = s
  BY <1>1 DEF NewSession, SessionRow
<1> QED
  BY <1>2, NoneIsNothing

LEMMA InitIInv == Init => IInv
<1> SUFFICES ASSUME Init PROVE IInv
  OBVIOUS
<1>1. \A s \in Request : pc[s] \in {"idle", "done"} /\ principal[s] = None
                         /\ sent[s] = NoCookies /\ cmd[s] = None
  BY DEF Init
<1>2. \A s \in Request :
        /\ s \in SignedIn => session[s] = NewSession(s, 0) /\ pc[s] = "done"
        /\ s \notin SignedIn => session[s] = None
  BY DEF Init
<1>3. \/ jar = NoCookies
      \/ \E s \in SignedIn : jar.session = s /\ jar.csrf \in {None, s} /\ jar \in Cookies
  BY SignedInAssumption DEF Init, Cookies
<1>4. TypeOK
  <2>1. NoCookies \in Cookies
    BY DEF NoCookies, Cookies
  <2>2. session \in [Request -> SessionRow \cup {None}]
    BY <1>2, NewSessionType DEF Init
  <2>3. /\ pc \in [Request -> Label] /\ cmd \in [Request -> Command \cup {None}]
        /\ principal \in [Request -> Request \cup {None}]
        /\ now \in Nat /\ overlapped \in BOOLEAN
    BY DEF Init, Label
  <2>4. sent \in [Request -> Cookies]
    BY <2>1 DEF Init
  <2> QED
    BY <1>3, <2>1, <2>2, <2>3, <2>4 DEF TypeOK
<1>5. RowsAreWrittenOnce
  BY <1>2 DEF RowsAreWrittenOnce, Terminal
<1>6. NamesAreKnown
  <2>1. \A s \in SignedIn \cup {None} : Told(s)
    BY <1>2, SignedInAssumption DEF Told, Delivered, Terminal
  <2>2. Known(None)
    BY DEF Known
  <2>3. Told(jar.session) /\ Told(jar.csrf)
    BY <1>3, <2>1 DEF NoCookies
  <2> QED
    BY <1>1, <2>1, <2>2, <2>3 DEF NamesAreKnown, NoCookies
<1>7. \A r \in Request : Ready(r) /\ ~Active(r)
  BY <1>1 DEF Ready, RightCommand, Issues, Active, Terminal
<1>8. InTurn
  BY <1>1, <1>7 DEF InTurn, Alone, Rotating, SigningIn
<1>9. EchoIsAccepted
  BY <1>2, <1>3, NewSessionType, SignedInAssumption DEF EchoIsAccepted, NoCookies
<1> QED
  BY <1>4, <1>5, <1>6, <1>7, <1>8, <1>9 DEF IInv

-----------------------------------------------------------------------------
(* Steps of a request that write no session and bring the browser nothing. *)

\* Requests that have been answered stay so, and what has ended has ended; rows
\* are not deleted: a name stays known.
LEMMA StaysKnown ==
  ASSUME \A s \in Request : session[s] # None => session'[s] # None,
         \A s \in Request : pc[s] \in Terminal => pc'[s] \in Terminal,
         \A s \in Request : pc[s] \in Delivered => pc'[s] \in Delivered,
         NEW s \in Request \cup {None}
  PROVE  (Told(s) => Told(s)') /\ (Known(s) => Known(s)')
BY DEF Told, Known

\* The requests that are named are requests, or none.
LEMMA Names ==
  ASSUME TypeOK
  PROVE  /\ jar.session \in Request \cup {None} /\ jar.csrf \in Request \cup {None}
         /\ \A q \in Request : sent[q].session \in Request \cup {None}
                               /\ principal[q] \in Request \cup {None}
BY DEF TypeOK, Cookies

\* Names stay known when nobody gets a new one.
LEMMA NamesStay ==
  ASSUME IInv, TypeOK', NEW r \in Request,
         \A s \in Request : session[s] # None => session'[s] # None,
         \A s \in Request : pc[s] \in Terminal => pc'[s] \in Terminal,
         \A s \in Request : pc[s] \in Delivered => pc'[s] \in Delivered,
         Told(jar.session)', Told(jar.csrf)', Told(sent[r].session)', Known(principal[r])',
         \A q \in Request \ {r} : sent'[q] = sent[q] /\ principal'[q] = principal[q]
  PROVE  NamesAreKnown'
<1>1. \A s \in Request \cup {None} : (Told(s) => Told(s)') /\ (Known(s) => Known(s)')
  BY StaysKnown
<1>2. TypeOK /\ NamesAreKnown
  BY DEF IInv
<1>3. ASSUME NEW q \in Request \ {r} PROVE (Told(sent[q].session) /\ Known(principal[q]))'
  <2>1. Told(sent[q].session) /\ Known(principal[q])
    BY <1>2 DEF NamesAreKnown
  <2>2. sent[q].session \in Request \cup {None} /\ principal[q] \in Request \cup {None}
    BY <1>2, Names
  <2>3. /\ sent[q].session # None => pc'[sent[q].session] \in Delivered
        /\ principal[q] # None =>
             session'[principal[q]] # None /\ pc'[principal[q]] \in Terminal
    BY <1>1, <2>1, <2>2 DEF Told, Known
  <2> QED
    BY <2>3 DEF Told, Known
<1> QED
  BY <1>3 DEF NamesAreKnown, Told, Known

\* A request that goes on with its command, or is refused, disturbs nobody.
LEMMA QuietStep ==
  ASSUME IInv, NEW r \in Request, Executing(r),
         NEW label \in Label \ {"idle", "told", "done", "failed"},
         pc' = [pc EXCEPT ![r] = label],
         UNCHANGED <<cmd, session, jar, now, overlapped>>,
         sent' \in [Request -> Cookies], principal' \in [Request -> Request \cup {None}],
         \A q \in Request \ {r} : sent'[q] = sent[q] /\ principal'[q] = principal[q],
         sent'[r].session \in {sent[r].session, None},
         \/ principal'[r] \in {principal[r], None}
         \/ principal'[r] = sent[r].session /\ session[principal'[r]] # None,
         RightCommand(r)',
         label = "answered" => cmd[r] \notin {"login", "csrf"},
         cmd[r] = "csrf" /\ label \notin {"unauthorized", "refused"} =>
           Rotated(r)' = Rotated(r)
  PROVE  IInv'
<1>1. TypeOK /\ r \in Request /\ pc'[r] = label
      /\ \A q \in Request \ {r} : pc'[q] = pc[q]
  BY DEF IInv, TypeOK
<1>2. TypeOK'
  BY <1>1 DEF TypeOK
<1>3. pc[r] \notin Delivered \cup Answers \cup {"idle"}
  BY DEF Executing, Active, Delivered
<1>4. RowsAreWrittenOnce'
  BY <1>1, <1>3 DEF IInv, RowsAreWrittenOnce, Delivered
<1>5. /\ \A s \in Request : pc[s] \in Terminal => pc'[s] \in Terminal
      /\ \A s \in Request : pc[s] \in Delivered => pc'[s] \in Delivered
  BY <1>1, <1>3 DEF Delivered
<1>6. NamesAreKnown'
  <2>1. \A s \in Request \cup {None} : (Told(s) => Told(s)') /\ (Known(s) => Known(s)')
    BY <1>5, StaysKnown
  <2>2. NamesAreKnown
    BY DEF IInv
  <2>3. (Told(jar.session) /\ Told(jar.csrf))'
    BY <1>1, <2>1, <2>2, Names DEF NamesAreKnown
  <2>4. Told(sent[r].session) /\ sent[r].session \in Request \cup {None}
    BY <1>1, <2>2, Names DEF NamesAreKnown
  <2>5. Told(sent[r].session)'
    BY <2>1, <2>4 DEF Told
  <2>6. Known(principal[r])'
    <3>1. CASE principal'[r] \in {principal[r], None}
      BY <1>1, <2>1, <2>2, <3>1, Names DEF NamesAreKnown, Known
    <3>2. CASE principal'[r] = sent[r].session /\ session[principal'[r]] # None
      <4>1. CASE sent[r].session = None
        BY <3>2, <4>1 DEF Known
      <4>2. CASE sent[r].session # None
        <5>1. /\ pc[sent[r].session] \in Delivered
              /\ pc[sent[r].session] \in Answers \cup Terminal
          BY <2>4, <3>2, <4>2 DEF IInv, RowsAreWrittenOnce, Told
        <5>2. pc[sent[r].session] \in Terminal
          BY <5>1 DEF Delivered, Answers
        <5> QED
          BY <1>5, <2>4, <3>2, <4>2, <5>2 DEF Known
      <4> QED
        BY <4>1, <4>2
    <3> QED
      BY <3>1, <3>2
  <2> QED
    BY <1>2, <1>5, <2>3, <2>5, <2>6, NamesStay
<1>7. \A q \in Request : Ready(q)'
  <2>1. ASSUME NEW q \in Request \ {r} PROVE Ready(q)'
    BY <1>1 DEF IInv, Ready, RightCommand, Issues
  <2>2. Issues(r)'
    BY <1>1 DEF Issues
  <2> QED
    BY <2>1, <2>2 DEF Ready
<1>8. \A q \in Request : Active(q)' => Active(q)
  BY <1>1, <1>3 DEF Active, Delivered
<1>9. InTurn'
  <2> SUFFICES ASSUME ~overlapped
               PROVE  Alone' /\ \A q \in Request : Rotating(q)' /\ SigningIn(q)'
    BY DEF InTurn
  <2>1. Alone /\ \A q \in Request : Rotating(q) /\ SigningIn(q)
    BY DEF IInv, InTurn
  <2>2. Alone'
    BY <1>8, <2>1 DEF Alone
  <2>3. ASSUME NEW q \in Request \ {r} PROVE Rotating(q)' /\ SigningIn(q)'
    BY <1>1, <2>1 DEF Rotating, Rotated, Active, SigningIn
  <2>4. Rotating(r)' /\ SigningIn(r)'
    <3>1. Active(r) /\ pc[r] \notin {"told", "unauthorized", "refused"}
      BY <1>3 DEF Active, Answers, Delivered
    <3> QED
      BY <1>1, <2>1, <3>1 DEF Rotating, SigningIn
  <2> QED
    BY <2>2, <2>3, <2>4
<1>10. EchoIsAccepted'
  <2>1. jar.csrf \in Request \cup {None}
    BY <1>1, Names
  <2>2. jar.csrf # None /\ pc'[jar.csrf] = "done" => pc[jar.csrf] = "done"
    BY <1>1, <2>1
  <2> QED
    BY <2>2 DEF IInv, EchoIsAccepted
<1> QED
  BY <1>2, <1>4, <1>6, <1>7, <1>9, <1>10 DEF IInv

-----------------------------------------------------------------------------
(* The steps of a request before it commits.                               *)

\* The request is refused, or its answer promises what is undone.
LEMMA RefuseStep ==
  ASSUME IInv, NEW r \in Request, Executing(r),
         NEW label \in {"refused", "undone"}, pc' = [pc EXCEPT ![r] = label],
         UNCHANGED <<cmd, sent, principal, session, jar, now, overlapped>>,
         label = "undone" => pc[r] = "commit"
  PROVE  IInv'
<1>1. TypeOK /\ pc'[r] = label
  BY DEF IInv, TypeOK
<1>2. label \in Label \ {"idle", "told", "done", "failed"}
  BY DEF Label
<1>3. RightCommand(r)'
  BY <1>1 DEF RightCommand
<1>4. label # "refused" => Rotated(r)' = Rotated(r)
  BY <1>1 DEF Rotated
<1> QED
  BY <1>1, <1>2, <1>3, <1>4, QuietStep DEF TypeOK

LEMMA AuthenticateStep ==
  ASSUME IInv, NEW r \in Request, Authenticate(r)
  PROVE  IInv'
<1>1. PICK label, s : label = Admission(r) /\ s = sent[r].session
  OBVIOUS
<1>2. /\ pc[r] = "authenticate" /\ pc' = [pc EXCEPT ![r] = label]
      /\ principal' = [principal EXCEPT ![r] = IF label \in Answers THEN None ELSE s]
      /\ sent' = [sent EXCEPT ![r] = NoCookies]
      /\ UNCHANGED <<cmd, session, jar, lost, now, overlapped>>
  BY <1>1 DEF Authenticate, Goto
<1>3. /\ TypeOK /\ cmd[r] \in {"csrf", "me", "command", "logout"}
      /\ s \in Request \cup {None}
  BY <1>1, <1>2 DEF IInv, Ready, RightCommand, TypeOK, Cookies
<1>4. /\ label \in {"unauthorized", "refused", "rotate", "write", "commit"}
      /\ label \notin Answers => s # None /\ session[s] # None
      /\ label = "rotate" => cmd[r] = "csrf"
      /\ label \notin Answers /\ cmd[r] = "csrf" => label = "rotate"
  BY <1>1 DEF Admission, Handler, Answers
<1>5. label \in Label \ {"idle", "told", "done", "failed"} /\ pc'[r] = label
  BY <1>2, <1>3, <1>4 DEF Label, TypeOK
<1>6. /\ principal' \in [Request -> Request \cup {None}]
      /\ principal'[r] = IF label \in Answers THEN None ELSE s
      /\ sent' \in [Request -> Cookies] /\ sent'[r].session = None
      /\ \A q \in Request \ {r} : sent'[q] = sent[q] /\ principal'[q] = principal[q]
  <2>1. NoCookies \in Cookies /\ NoCookies.session = None
    BY DEF NoCookies, Cookies
  <2> QED
    BY <1>2, <1>3, <2>1 DEF TypeOK
<1>7. RightCommand(r)'
  BY <1>2, <1>3, <1>4, <1>5, <1>6 DEF RightCommand, Answers
<1>8. Executing(r)
  BY <1>2 DEF Executing, Active, Terminal, Answers
<1>9. cmd[r] = "csrf" /\ label \notin {"unauthorized", "refused"} => Rotated(r)' = Rotated(r)
  BY <1>1, <1>2, <1>4, <1>5, <1>6 DEF Rotated, Answers
<1>10. \/ principal'[r] \in {principal[r], None}
       \/ principal'[r] = sent[r].session /\ session[principal'[r]] # None
  BY <1>1, <1>4, <1>6
<1>11. label # "answered"
  BY <1>4
<1> QED
  BY <1>2, <1>4, <1>5, <1>6, <1>7, <1>8, <1>9, <1>10, <1>11, QuietStep

\* The handlers of csrf and logout, up to the update of the row.
LEMMA WriteStep ==
  ASSUME IInv, NEW r \in Request, Rotate(r) \/ Write(r)
  PROVE  IInv'
<1>1. PICK label \in {"unauthorized", "write", "commit"} :
        /\ pc[r] \in {"rotate", "write"}
        /\ pc' = [pc EXCEPT ![r] = label]
        /\ UNCHANGED <<cmd, sent, principal, session, jar, lost, now, overlapped>>
  BY DEF Rotate, Write, Goto
<1>2. TypeOK /\ Ready(r) /\ pc'[r] = label
  BY <1>1 DEF IInv, TypeOK
<1>3. label \in Label \ {"idle", "told", "done", "failed"} /\ Executing(r)
  BY <1>1 DEF Executing, Active, Terminal, Answers, Label
<1>4. RightCommand(r)'
  BY <1>1, <1>2 DEF Ready, RightCommand
<1>5. Rotated(r)' = Rotated(r)
  BY <1>1, <1>2 DEF Rotated
<1> QED
  BY <1>1, <1>2, <1>3, <1>4, <1>5, QuietStep DEF TypeOK

-----------------------------------------------------------------------------
(* The end of the transaction.                                             *)

\* r leaves its transaction: the answer of a success is still to be delivered,
\* or has been.
Leaves(r, sending, ending) ==
  \/ pc[r] = "commit" /\ Goto(r, sending) /\ UNCHANGED <<cmd, principal>>
  \/ pc[r] = "told" /\ Ends(r, ending)

LEMMA Leaving ==
  ASSUME TypeOK, NEW r \in Request, NEW sending \in Answers, NEW ending \in Terminal,
         Leaves(r, sending, ending)
  PROVE  /\ pc' \in [Request -> Label] /\ cmd' \in [Request -> Command \cup {None}]
         /\ principal' \in [Request -> Request \cup {None}]
         /\ \A q \in Request \ {r} :
              pc'[q] = pc[q] /\ cmd'[q] = cmd[q] /\ principal'[q] = principal[q]
         /\ \/ /\ pc[r] = "commit" /\ pc'[r] = sending
               /\ cmd'[r] = cmd[r] /\ principal'[r] = principal[r]
            \/ /\ pc[r] = "told" /\ pc'[r] = ending /\ cmd'[r] = None /\ principal'[r] = None
         /\ \A s \in Request : pc[s] \in Terminal => pc'[s] \in Terminal
         /\ \A s \in Request : pc[s] \in Delivered => pc'[s] \in Delivered
<1>1. sending \in Label /\ ending \in Label
  BY DEF Label, Answers, Terminal
<1>2. CASE pc[r] = "commit" /\ Goto(r, sending) /\ UNCHANGED <<cmd, principal>>
  BY <1>1, <1>2 DEF TypeOK, Goto, Terminal, Delivered
<1>3. CASE pc[r] = "told" /\ Ends(r, ending)
  BY <1>1, <1>3 DEF TypeOK, Goto, Ends, Terminal, Delivered
<1> QED
  BY <1>2, <1>3 DEF Leaves

\* What a handler writes it writes to a known session.
LEMMA PrincipalIsKnown ==
  ASSUME IInv, NEW r \in Request, pc[r] \in Uncommitted, cmd[r] # "login"
  PROVE  /\ principal[r] \in Request /\ session[principal[r]] \in SessionRow
         /\ session[principal[r]] # None
         /\ pc[principal[r]] \in Terminal /\ principal[r] # r
<1>1. principal[r] # None
  BY DEF IInv, Ready, RightCommand, Uncommitted
<1> QED
  BY <1>1 DEF IInv, TypeOK, NamesAreKnown, Known, Terminal, Uncommitted

\* A commit that writes no row but its own session's, or the token and the end
\* of a session that is known.
LEMMA CommitKeeps ==
  ASSUME IInv, NEW r \in Request, Leaves(r, "answered", "done"),
         UNCHANGED <<sent, jar, now, overlapped>>,
         session' \in [Request -> SessionRow \cup {None}],
         \A s \in Request : session[s] # None => session'[s] # None,
         \A s \in Request : session'[s] # None => session[s] # None \/ s = r,
         \A q \in Request \ {r} :
           pc[q] = "answered" /\ cmd[q] = "login" => session'[q] = session[q],
         cmd[r] = "login" => session'[r] # None /\ session'[r].csrf = r,
         \A q \in Request \ {r} :
           ~overlapped /\ pc[q] = "answered" /\ cmd[q] = "csrf" =>
             session'[principal[q]].csrf = session[principal[q]].csrf,
         cmd[r] = "csrf" => session'[principal[r]].csrf = r,
         EchoIsAccepted'
  PROVE  IInv'
<1>1. TypeOK
  BY DEF IInv
<1>2. "answered" \in Answers /\ "done" \in Terminal
  BY DEF Answers, Terminal
<1>3. /\ pc' \in [Request -> Label] /\ cmd' \in [Request -> Command \cup {None}]
      /\ principal' \in [Request -> Request \cup {None}]
      /\ \A q \in Request \ {r} :
           pc'[q] = pc[q] /\ cmd'[q] = cmd[q] /\ principal'[q] = principal[q]
      /\ \/ /\ pc[r] = "commit" /\ pc'[r] = "answered"
            /\ cmd'[r] = cmd[r] /\ principal'[r] = principal[r]
         \/ pc[r] = "told" /\ pc'[r] = "done" /\ cmd'[r] = None /\ principal'[r] = None
      /\ \A s \in Request : pc[s] \in Terminal => pc'[s] \in Terminal
      /\ \A s \in Request : pc[s] \in Delivered => pc'[s] \in Delivered
  BY <1>1, <1>2, Leaving
<1>4. TypeOK'
  BY <1>1, <1>3 DEF TypeOK
<1>5. RowsAreWrittenOnce'
  BY <1>3 DEF IInv, RowsAreWrittenOnce, Answers, Terminal
<1>6. NamesAreKnown'
  <2>1. \A s \in Request \cup {None} : (Told(s) => Told(s)') /\ (Known(s) => Known(s)')
    BY <1>3, StaysKnown
  <2>2. NamesAreKnown
    BY DEF IInv
  <2>3. (Told(jar.session) /\ Told(jar.csrf) /\ Told(sent[r].session))'
    BY <1>1, <2>1, <2>2, Names DEF NamesAreKnown, Told
  <2>4. Known(principal[r])'
    BY <1>1, <1>3, <2>1, <2>2, Names DEF NamesAreKnown, Known
  <2> QED
    BY <1>3, <1>4, <2>3, <2>4, NamesStay
<1>7. \A q \in Request : Ready(q)'
  <2>1. ASSUME NEW q \in Request \ {r} PROVE Ready(q)'
    BY <1>3 DEF IInv, Ready, RightCommand, Issues
  <2>2. Ready(r)'
    BY <1>3 DEF IInv, Ready, RightCommand, Issues
  <2> QED
    BY <2>1, <2>2
<1>8. \A q \in Request : Active(q)' => Active(q) /\ cmd'[q] = cmd[q]
  BY <1>3 DEF Active, Terminal
<1>9. InTurn'
  <2> SUFFICES ASSUME ~overlapped
               PROVE  Alone' /\ \A q \in Request : Rotating(q)' /\ SigningIn(q)'
    BY DEF InTurn
  <2>1. Alone /\ \A q \in Request : Rotating(q) /\ SigningIn(q)
    BY DEF IInv, InTurn
  <2>2. Alone'
    BY <1>8, <2>1 DEF Alone
  <2>3. ASSUME NEW q \in Request \ {r} PROVE Rotating(q)' /\ SigningIn(q)'
    BY <1>3, <2>1 DEF Rotating, Rotated, Active, SigningIn
  <2>4. Rotating(r)' /\ SigningIn(r)'
    BY <1>3, <2>1 DEF Rotating, Rotated, Active, SigningIn, Terminal
  <2> QED
    BY <2>2, <2>3, <2>4
<1> QED
  BY <1>4, <1>5, <1>6, <1>7, <1>9 DEF IInv

\* The tokens of committed requests, before and after a commit.
LEMMA TokenOfCommitted ==
  ASSUME IInv, NEW r \in Request, Leaves(r, "answered", "done"), jar' = jar,
         jar.csrf # None, pc'[jar.csrf] = "done"
  PROVE  \/ pc[jar.csrf] = "done"
         \/ jar.csrf = r /\ pc[r] = "told" /\ SetsCookies(cmd[r])
<1>1. TypeOK /\ jar.csrf \in Request
  BY Names DEF IInv
<1>2. "answered" \in Answers /\ "done" \in Terminal
  BY DEF Answers, Terminal
<1>3. \A q \in Request : q # r => pc'[q] = pc[q]
  BY <1>1, <1>2, Leaving
<1>4. pc[r] = "told" /\ jar.csrf = r => SetsCookies(cmd[r])
  BY DEF IInv, Ready, Issues
<1>5. CASE jar.csrf = r
  <2>1. (pc[r] = "commit" /\ pc'[r] = "answered") \/ pc[r] = "told"
    BY <1>1, <1>2, Leaving
  <2> QED
    BY <1>4, <1>5, <2>1
<1>6. CASE jar.csrf # r
  BY <1>1, <1>3, <1>6
<1> QED
  BY <1>5, <1>6

\* A session is new when its sign-in commits, and whoever names it has its token.
LEMMA CommitLoginStep ==
  ASSUME IInv, NEW r \in Request, Leaves(r, "answered", "done"),
         UNCHANGED <<sent, jar, now, overlapped>>, CommitLogin(r)
  PROVE  IInv'
<1>1. cmd[r] = "login" /\ session' = [session EXCEPT ![r] = NewSession(r, now)]
  BY DEF CommitLogin
<1>2. TypeOK /\ pc[r] \in Uncommitted
  BY DEF IInv, Leaves, Uncommitted
<1>3. NewSession(r, now) \in SessionRow /\ NewSession(r, now) # None
      /\ NewSession(r, now).csrf = r
  BY <1>2, NewSessionType DEF TypeOK
<1>4. /\ session' \in [Request -> SessionRow \cup {None}]
      /\ session'[r] = NewSession(r, now)
      /\ \A s \in Request \ {r} : session'[s] = session[s]
  BY <1>1, <1>2, <1>3 DEF TypeOK
<1>5. \A q \in Request : principal[q] \in Request \cup {None} /\ principal[q] # r
  BY <1>2, NoneIsNothing, Names DEF IInv, NamesAreKnown, Known, Terminal, Uncommitted
<1>6. EchoIsAccepted'
  <2> SUFFICES ASSUME ~overlapped, jar.session # None, jar.csrf # None, pc'[jar.csrf] = "done"
               PROVE  session'[jar.session].csrf = jar.csrf
    BY DEF EchoIsAccepted
  <2>1. pc[jar.csrf] = "done" \/ (jar.csrf = r /\ pc[r] = "told")
    BY TokenOfCommitted
  <2>2. jar.session \in Request
    BY <1>2, Names
  <2>3. SigningIn(r)
    BY DEF IInv, InTurn
  <2>4. Told(jar.session)
    BY DEF IInv, NamesAreKnown
  <2>5. CASE jar.session = r
    <3>1. pc[r] = "told"
      BY <1>2, <2>4, <2>5 DEF Told, Delivered, Terminal, Uncommitted
    <3>2. jar.csrf = r
      BY <1>1, <2>3, <2>5, <3>1 DEF SigningIn
    <3> QED
      BY <1>3, <1>4, <2>5, <3>2
  <2>6. CASE jar.session # r
    <3>1. pc[jar.csrf] = "done"
      BY <1>1, <2>1, <2>3, <2>6 DEF SigningIn
    <3> QED
      BY <1>4, <2>2, <2>6, <3>1 DEF IInv, EchoIsAccepted
  <2> QED
    BY <2>5, <2>6
<1>7. \A q \in Request \ {r} :
        pc[q] = "answered" /\ cmd[q] = "csrf" =>
          session'[principal[q]].csrf = session[principal[q]].csrf
  BY <1>4, <1>5 DEF IInv, Ready, RightCommand
<1> QED
  BY <1>1, <1>3, <1>4, <1>6, <1>7, CommitKeeps

\* The token is rotated while the browser has none but the new one, and no other
\* is rotated.
LEMMA CommitRotationStep ==
  ASSUME IInv, NEW r \in Request, Leaves(r, "answered", "done"),
         UNCHANGED <<sent, jar, now, overlapped>>, CommitRotation(r)
  PROVE  IInv'
<1>1. PICK s, row : /\ s = principal[r] /\ row = [session[s] EXCEPT !.csrf = r]
  OBVIOUS
<1>2. cmd[r] = "csrf" /\ session' = [session EXCEPT ![s] = row]
  BY <1>1 DEF CommitRotation
<1>3. TypeOK /\ pc[r] \in Uncommitted
  BY DEF IInv, Leaves, Uncommitted
<1>4. s \in Request /\ session[s] \in SessionRow /\ session[s] # None
      /\ pc[s] \in Terminal /\ s # r
  BY <1>1, <1>2, <1>3, PrincipalIsKnown
<1>5. row \in SessionRow /\ row.csrf = r /\ row # None
  <2>1. row \in SessionRow /\ row.csrf = r
    BY <1>1, <1>4 DEF SessionRow
  <2> QED
    BY <2>1, NoneIsNothing
<1>6. /\ session' \in [Request -> SessionRow \cup {None}]
      /\ session'[s] = row
      /\ \A x \in Request \ {s} : session'[x] = session[x]
  BY <1>2, <1>3, <1>4, <1>5 DEF TypeOK
<1>7. \A q \in Request : pc[q] = "answered" => session'[q] = session[q]
  BY <1>4, <1>6 DEF Terminal
<1>8. Active(r) /\ SetsCookies(cmd[r])
  BY <1>2, <1>3 DEF Active, Terminal, SetsCookies, Uncommitted
<1>9. ~overlapped => /\ jar.csrf \in {None, r}
                     /\ jar.session \in {None, s}
  BY <1>1, <1>2, <1>3, <1>8 DEF IInv, InTurn, Rotating, Rotated, Uncommitted
<1>10. EchoIsAccepted'
  BY <1>5, <1>6, <1>9 DEF EchoIsAccepted
<1>11. \A q \in Request \ {r} : ~overlapped => ~(pc[q] = "answered" /\ cmd[q] = "csrf")
  BY <1>8 DEF IInv, InTurn, Alone, Active, Terminal, SetsCookies
<1> QED
  BY <1>1, <1>2, <1>4, <1>5, <1>6, <1>7, <1>10, <1>11, CommitKeeps

\* A commit that leaves the tokens as they are.
LEMMA OtherCommitStep ==
  ASSUME IInv, NEW r \in Request, Leaves(r, "answered", "done"),
         UNCHANGED <<sent, jar, now, overlapped>>, cmd[r] \notin {"login", "csrf"},
         session' \in [Request -> SessionRow \cup {None}],
         \A x \in Request : session'[x] # None <=> session[x] # None,
         \A x \in Request : session'[x].csrf = session[x].csrf,
         \A q \in Request : pc[q] = "answered" => session'[q] = session[q]
  PROVE  IInv'
<1>1. TypeOK /\ ~SetsCookies(cmd[r])
  BY DEF IInv, SetsCookies
<1>2. EchoIsAccepted'
  <2>1. jar.csrf # None /\ pc'[jar.csrf] = "done" => pc[jar.csrf] = "done"
    BY <1>1, TokenOfCommitted
  <2>2. jar.session \in Request \cup {None}
    BY <1>1, Names
  <2> QED
    BY <2>1, <2>2 DEF IInv, EchoIsAccepted
<1>3. \A q \in Request \ {r} :
        pc[q] = "answered" /\ cmd[q] = "csrf" =>
          session'[principal[q]].csrf = session[principal[q]].csrf
  BY <1>1, Names DEF IInv, Ready, RightCommand
<1> QED
  BY <1>2, <1>3, CommitKeeps

\* Signing out leaves the token as it is.
LEMMA CommitLogoutStep ==
  ASSUME IInv, NEW r \in Request, Leaves(r, "answered", "done"),
         UNCHANGED <<sent, jar, now, overlapped>>, CommitLogout(r)
  PROVE  IInv'
<1>1. PICK s, row : /\ s = principal[r] /\ row = [session[s] EXCEPT !.revoked = TRUE]
  OBVIOUS
<1>2. cmd[r] = "logout" /\ session' = [session EXCEPT ![s] = row]
  BY <1>1 DEF CommitLogout
<1>3. TypeOK /\ pc[r] \in Uncommitted
  BY DEF IInv, Leaves, Uncommitted
<1>4. s \in Request /\ session[s] \in SessionRow /\ session[s] # None /\ pc[s] \in Terminal
  BY <1>1, <1>2, <1>3, PrincipalIsKnown
<1>5. row \in SessionRow /\ row.csrf = session[s].csrf /\ row # None
  <2>1. row \in SessionRow /\ row.csrf = session[s].csrf
    BY <1>1, <1>4 DEF SessionRow
  <2> QED
    BY <2>1, NoneIsNothing
<1>6. /\ session' \in [Request -> SessionRow \cup {None}]
      /\ session'[s] = row
      /\ \A x \in Request \ {s} : session'[x] = session[x]
  BY <1>2, <1>3, <1>4, <1>5 DEF TypeOK
<1>7. \A q \in Request : pc[q] = "answered" => session'[q] = session[q]
  BY <1>4, <1>6 DEF Terminal
<1>8. \A x \in Request : session'[x].csrf = session[x].csrf /\
                         (session'[x] # None <=> session[x] # None)
  BY <1>4, <1>5, <1>6
<1>9. cmd[r] \notin {"login", "csrf"}
  BY <1>2
<1> QED
  BY <1>6, <1>7, <1>8, <1>9, OtherCommitStep

LEMMA CommitStep ==
  ASSUME IInv, NEW r \in Request, Commit(r)
  PROVE  IInv'
<1>1. Leaves(r, "answered", "done") /\ UNCHANGED <<sent, jar, lost, now, overlapped>>
  BY DEF Commit, Leaves
<1>2. CASE CommitLogin(r)
  BY <1>1, <1>2, CommitLoginStep
<1>3. CASE CommitRotation(r)
  BY <1>1, <1>3, CommitRotationStep
<1>4. CASE CommitLogout(r)
  BY <1>1, <1>4, CommitLogoutStep
<1>5. CASE CommitOther(r)
  <2>1. cmd[r] \notin {"login", "csrf"} /\ session' = session /\ TypeOK
    BY <1>5 DEF CommitOther, IInv
  <2>2. session' \in [Request -> SessionRow \cup {None}]
    BY <2>1 DEF TypeOK
  <2> QED
    BY <1>1, <2>1, <2>2, OtherCommitStep
<1> QED
  BY <1>2, <1>3, <1>4, <1>5 DEF Commit

\* What has been promised and is undone has written nothing, and its token counts
\* for nothing.
LEMMA UndoStep ==
  ASSUME IInv, NEW r \in Request, Undo(r)
  PROVE  IInv'
<1>1. CASE pc[r] = "commit"
  <2>1. /\ pc' = [pc EXCEPT ![r] = "undone"]
        /\ UNCHANGED <<cmd, sent, principal, session, jar, lost, now, overlapped>>
    BY <1>1 DEF Undo, Goto
  <2>2. Executing(r)
    BY <1>1 DEF Executing, Active, Terminal, Answers
  <2> QED
    BY <1>1, <2>1, <2>2, RefuseStep
<1>2. CASE pc[r] = "told"
  <2>1. /\ Leaves(r, "undone", "failed")
        /\ UNCHANGED <<sent, session, jar, lost, now, overlapped>>
    BY <1>2 DEF Undo, Leaves
  <2>2. TypeOK /\ "undone" \in Answers /\ "failed" \in Terminal
    BY DEF IInv, Answers, Terminal
  <2>3. /\ pc' \in [Request -> Label] /\ cmd' \in [Request -> Command \cup {None}]
        /\ principal' \in [Request -> Request \cup {None}]
        /\ \A q \in Request \ {r} :
             pc'[q] = pc[q] /\ cmd'[q] = cmd[q] /\ principal'[q] = principal[q]
        /\ pc'[r] = "failed" /\ cmd'[r] = None /\ principal'[r] = None
        /\ \A s \in Request : pc[s] \in Terminal => pc'[s] \in Terminal
        /\ \A s \in Request : pc[s] \in Delivered => pc'[s] \in Delivered
    BY <1>2, <2>1, <2>2, Leaving
  <2>4. TypeOK'
    BY <2>1, <2>2, <2>3 DEF TypeOK
  <2>5. RowsAreWrittenOnce'
    BY <2>1, <2>3 DEF IInv, RowsAreWrittenOnce, Terminal
  <2>6. NamesAreKnown'
    <3>1. \A s \in Request \cup {None} : (Told(s) => Told(s)') /\ (Known(s) => Known(s)')
      BY <2>1, <2>3, StaysKnown
    <3>2. (Told(jar.session) /\ Told(jar.csrf) /\ Told(sent[r].session))'
      BY <2>1, <2>2, <3>1, Names DEF IInv, NamesAreKnown, Told
    <3>3. Known(principal[r])'
      BY <2>3 DEF Known
    <3> QED
      BY <2>1, <2>3, <2>4, <3>2, <3>3, NamesStay
  <2>7. ASSUME NEW q \in Request PROVE Ready(q)'
    BY <2>1, <2>3 DEF IInv, Ready, RightCommand, Issues
  <2>8. InTurn'
    BY <2>1, <2>3 DEF IInv, InTurn, Alone, Rotating, Rotated, SigningIn, Active, Terminal
  <2>9. EchoIsAccepted'
    <3>1. jar.csrf \in Request \cup {None}
      BY <2>2, Names
    <3>2. jar.csrf # None /\ pc'[jar.csrf] = "done" => pc[jar.csrf] = "done"
      BY <2>3, <3>1
    <3> QED
      BY <2>1, <3>2 DEF IInv, EchoIsAccepted
  <2> QED
    BY <2>4, <2>5, <2>6, <2>7, <2>8, <2>9 DEF IInv
<1> QED
  BY <1>1, <1>2 DEF Undo

-----------------------------------------------------------------------------
(* The browser and the clock.                                              *)

\* The requests that set cookies do not overlap, or the history records it.
LEMMA BeginStep ==
  ASSUME IInv, NEW r \in Request, Begin(r)
  PROVE  IInv'
<1>1. PICK c \in Commands :
        /\ c = "csrf" => NeedsToken
        /\ cmd' = [cmd EXCEPT ![r] = c]
        /\ Goto(r, IF c = "login" THEN "commit" ELSE "authenticate")
        /\ overlapped' = (overlapped \/ (SetsCookies(c)
                            /\ \E q \in Request : Active(q) /\ SetsCookies(cmd[q])))
  BY DEF Begin
<1>2. PICK label, cookies :
        /\ label = IF c = "login" THEN "commit" ELSE "authenticate"
        /\ cookies = IF c = "login" THEN NoCookies ELSE jar
  OBVIOUS
<1>3. /\ pc[r] = "idle" /\ TypeOK /\ c \in Command
      /\ UNCHANGED <<principal, session, jar, lost, now>>
  BY CommandsAssumption DEF Begin, IInv
<1>4. /\ cmd' \in [Request -> Command \cup {None}] /\ cmd'[r] = c
      /\ \A q \in Request \ {r} : cmd'[q] = cmd[q]
  BY <1>1, <1>3 DEF TypeOK
<1>5. /\ label \in {"commit", "authenticate"}
      /\ pc' \in [Request -> Label] /\ pc'[r] = label
      /\ \A q \in Request \ {r} : pc'[q] = pc[q]
  BY <1>1, <1>2, <1>3 DEF TypeOK, Goto, Label
<1>6. cookies \in Cookies /\ (cookies = jar \/ cookies.session = None)
  BY <1>2, <1>3 DEF TypeOK, NoCookies, Cookies
<1>7. /\ sent' \in [Request -> Cookies] /\ sent'[r] = cookies
      /\ \A q \in Request \ {r} : sent'[q] = sent[q]
  <2>1. sent' = [sent EXCEPT ![r] = cookies]
    BY <1>2, <1>4 DEF Begin
  <2> QED
    BY <1>3, <1>6, <2>1 DEF TypeOK
<1>8. TypeOK'
  BY <1>1, <1>3, <1>4, <1>5, <1>7 DEF TypeOK
<1>9. RowsAreWrittenOnce'
  BY <1>3, <1>5 DEF IInv, RowsAreWrittenOnce, Answers, Terminal
<1>10. NamesAreKnown'
  <2>1. /\ \A s \in Request : pc[s] \in Terminal => pc'[s] \in Terminal
        /\ \A s \in Request : pc[s] \in Delivered => pc'[s] \in Delivered
    BY <1>3, <1>5 DEF Terminal, Delivered
  <2>2. \A s \in Request \cup {None} : (Told(s) => Told(s)') /\ (Known(s) => Known(s)')
    BY <1>3, <2>1, StaysKnown
  <2>3. (Told(jar.session) /\ Told(jar.csrf))'
    BY <1>3, <2>2, Names DEF IInv, NamesAreKnown, Told
  <2>4. Told(sent[r].session)'
    BY <1>3, <1>6, <1>7, <2>3 DEF Told
  <2>5. Known(principal[r])'
    BY <1>3, <2>2, Names DEF IInv, NamesAreKnown, Known
  <2> QED
    BY <1>3, <1>7, <1>8, <2>1, <2>3, <2>4, <2>5, NamesStay
<1>11. \A q \in Request : Ready(q)'
  <2>1. ASSUME NEW q \in Request \ {r} PROVE Ready(q)'
    BY <1>3, <1>4, <1>5 DEF IInv, Ready, RightCommand, Issues
  <2>2. Ready(r)'
    BY <1>2, <1>3, <1>4, <1>5 DEF Ready, RightCommand, Issues, Command
  <2> QED
    BY <2>1, <2>2
<1>12. InTurn'
  <2> SUFFICES ASSUME ~overlapped'
               PROVE  Alone' /\ \A q \in Request : Rotating(q)' /\ SigningIn(q)'
    BY DEF InTurn
  <2>1. /\ ~overlapped
        /\ SetsCookies(c) => \A q \in Request : ~(Active(q) /\ SetsCookies(cmd[q]))
    BY <1>1
  <2>2. Alone /\ \A q \in Request : Rotating(q) /\ SigningIn(q)
    BY <2>1 DEF IInv, InTurn
  <2>3. \A q \in Request \ {r} : Active(q)' <=> Active(q)
    BY <1>5 DEF Active
  <2>4. Alone'
    BY <1>4, <2>1, <2>2, <2>3 DEF Alone
  <2>5. ASSUME NEW q \in Request \ {r} PROVE Rotating(q)' /\ SigningIn(q)'
    BY <1>3, <1>4, <1>5, <1>7, <2>2 DEF Rotating, Rotated, Active, SigningIn
  <2>6. SigningIn(r)'
    BY <1>5 DEF SigningIn
  <2>7. ASSUME c = "csrf" PROVE Rotating(r)'
    <3>1. label = "authenticate" /\ cookies = jar /\ jar.csrf = None
      BY <1>1, <1>2, <2>7 DEF NeedsToken
    <3>2. pc'[r] = "authenticate" /\ sent'[r] = jar /\ jar' = jar
      BY <1>3, <1>5, <1>7, <3>1
    <3> QED
      BY <3>1, <3>2 DEF Rotating, Rotated
  <2>8. Rotating(r)'
    BY <1>4, <2>7 DEF Rotating
  <2> QED
    BY <2>4, <2>5, <2>6, <2>8
<1>13. EchoIsAccepted'
  <2>1. jar.csrf \in Request \cup {None}
    BY <1>3, Names
  <2>2. jar.csrf # None /\ pc'[jar.csrf] = "done" => pc[jar.csrf] = "done"
    BY <1>5, <2>1
  <2> QED
    BY <1>1, <1>3, <2>2 DEF IInv, EchoIsAccepted
<1> QED
  BY <1>8, <1>9, <1>10, <1>11, <1>12, <1>13 DEF IInv

\* What an answer leaves in the jar.
LEMMA JarAfterAnswer ==
  ASSUME NEW r \in Request, TypeOK
  PROVE  \/ JarAfter(r) = jar
         \/ JarAfter(r) = NoCookies
         \/ JarAfter(r) = [jar EXCEPT !.csrf = None]
         \/ /\ Succeeds(r) /\ cmd[r] = "login"
            /\ JarAfter(r) = [session |-> r, csrf |-> r]
         \/ /\ Succeeds(r) /\ cmd[r] = "csrf"
            /\ JarAfter(r) = [jar EXCEPT !.csrf = r]
BY DEF JarAfter

\* The browser receives the answer of r, and r goes on to label: its answer has
\* come before the commit, or it has ended.
LEMMA ReceiveStep ==
  ASSUME IInv, NEW r \in Request, Receive(r), NEW label \in Delivered,
         \/ /\ pc[r] = "commit" /\ label = "told"
            /\ Goto(r, "told") /\ UNCHANGED <<cmd, principal>>
         \/ /\ pc[r] \in Answers /\ label \in Terminal /\ (label = "done" <=> pc[r] = "answered")
            /\ Ends(r, label)
  PROVE  IInv'
<1>1. /\ TypeOK
      /\ jar' = jar \/ jar' = JarAfter(r)
      /\ UNCHANGED <<sent, session, now, overlapped>>
  BY DEF Receive, IInv
<1>2. /\ pc' \in [Request -> Label] /\ pc'[r] = label
      /\ cmd' \in [Request -> Command \cup {None}]
      /\ principal' \in [Request -> Request \cup {None}]
      /\ \A q \in Request \ {r} :
           pc'[q] = pc[q] /\ cmd'[q] = cmd[q] /\ principal'[q] = principal[q]
      /\ \/ /\ pc[r] = "commit" /\ label = "told"
            /\ cmd'[r] = cmd[r] /\ principal'[r] = principal[r]
         \/ /\ pc[r] \in Answers /\ label \in Terminal /\ (label = "done" <=> pc[r] = "answered")
            /\ cmd'[r] = None /\ principal'[r] = None
  <2>1. label \in Label
    BY DEF Delivered, Terminal, Label
  <2>2. CASE pc[r] = "commit" /\ label = "told" /\ Goto(r, "told") /\ UNCHANGED <<cmd, principal>>
    BY <1>1, <2>1, <2>2 DEF TypeOK, Goto
  <2>3. CASE /\ pc[r] \in Answers /\ label \in Terminal /\ (label = "done" <=> pc[r] = "answered")
             /\ Ends(r, label)
    BY <1>1, <2>1, <2>3 DEF TypeOK, Goto, Ends
  <2> QED
    BY <2>2, <2>3
<1>3. pc[r] \notin Delivered /\ Active(r)
  BY <1>2 DEF Answers, Terminal, Delivered, Active
<1>4. /\ jar' \in Cookies
      /\ \/ jar' = jar
         \/ jar'.csrf = None /\ jar'.session \in {None, jar.session}
         \/ Succeeds(r) /\ cmd[r] = "login" /\ jar'.session = r /\ jar'.csrf = r
         \/ Succeeds(r) /\ cmd[r] = "csrf" /\ jar'.session = jar.session /\ jar'.csrf = r
  BY <1>1, JarAfterAnswer DEF TypeOK, Cookies, NoCookies
<1>5. TypeOK'
  BY <1>1, <1>2, <1>4 DEF TypeOK
<1>6. RowsAreWrittenOnce'
  BY <1>1, <1>2 DEF IInv, RowsAreWrittenOnce, Answers, Terminal
<1>7. jar.csrf # r /\ jar.session # r
  BY <1>3, NoneIsNothing DEF IInv, NamesAreKnown, Told
<1>8. NamesAreKnown'
  <2>1. /\ \A s \in Request : pc[s] \in Terminal => pc'[s] \in Terminal
        /\ \A s \in Request : pc[s] \in Delivered => pc'[s] \in Delivered
    BY <1>2, <1>3 DEF Delivered
  <2>2. \A s \in Request \cup {None} : (Told(s) => Told(s)') /\ (Known(s) => Known(s)')
    BY <1>1, <2>1, StaysKnown
  <2>3. /\ jar.session # None => pc'[jar.session] \in Delivered
        /\ jar.csrf # None => pc'[jar.csrf] \in Delivered
        /\ sent[r].session # None => pc'[sent[r].session] \in Delivered
    BY <1>1, <2>2, Names DEF IInv, NamesAreKnown, Told
  <2>4. (Told(jar.session) /\ Told(jar.csrf) /\ Told(sent[r].session))'
    BY <1>1, <1>2, <1>4, <2>3 DEF Told
  <2>5. Known(principal[r])'
    BY <1>1, <1>2, <2>2, Names DEF IInv, NamesAreKnown, Known
  <2> QED
    BY <1>1, <1>2, <1>5, <2>1, <2>4, <2>5, NamesStay
<1>9. \A q \in Request : Ready(q)'
  <2>1. ASSUME NEW q \in Request \ {r} PROVE Ready(q)'
    <3>1. jar'.csrf = q => jar.csrf = q
      BY <1>4, <2>1, NoneIsNothing
    <3> QED
      BY <1>1, <1>2, <3>1 DEF IInv, Ready, RightCommand, Issues
  <2>2. RightCommand(r)'
    BY <1>2 DEF IInv, Ready, RightCommand, Terminal
  <2>3. Issues(r)'
    <3>1. jar'.csrf = r => SetsCookies(cmd[r])
      BY <1>4, <1>7, NoneIsNothing DEF SetsCookies
    <3> QED
      BY <1>2, <3>1 DEF Issues, Terminal, SetsCookies
  <2> QED
    BY <2>1, <2>2, <2>3 DEF Ready
<1>10. InTurn'
  <2> SUFFICES ASSUME ~overlapped
               PROVE  Alone' /\ \A q \in Request : Rotating(q)' /\ SigningIn(q)'
    BY <1>1 DEF InTurn
  <2>1. Alone /\ \A q \in Request : Rotating(q) /\ SigningIn(q)
    BY DEF IInv, InTurn
  <2>2. \A q \in Request : Active(q)' => Active(q) /\ cmd'[q] = cmd[q]
    BY <1>2, <1>3 DEF Active, Terminal
  <2>3. Alone'
    BY <2>1, <2>2 DEF Alone
  <2>4. ASSUME NEW q \in Request \ {r}, Active(q), SetsCookies(cmd[q])
        PROVE  Rotating(q)' /\ SigningIn(q)'
    <3>1. cmd[r] \notin {"login", "csrf"}
      BY <1>3, <2>1, <2>4 DEF Alone, SetsCookies
    <3>2. \/ jar' = jar
          \/ jar'.csrf = None /\ jar'.session \in {None, jar.session}
      BY <1>4, <3>1
    <3>3. Rotating(q)'
      <4>1. Rotating(q) /\ pc'[q] = pc[q] /\ cmd'[q] = cmd[q] /\ principal'[q] = principal[q]
        BY <1>2, <2>1
      <4>2. Rotated(q)' = Rotated(q) /\ Active(q)' = Active(q)
        BY <1>1, <4>1 DEF Rotated, Active
      <4>3. CASE jar' = jar
        BY <1>1, <4>1, <4>2, <4>3 DEF Rotating
      <4>4. CASE jar'.csrf = None /\ jar'.session \in {None, jar.session}
        BY <1>1, <4>1, <4>2, <4>4 DEF Rotating
      <4> QED
        BY <3>2, <4>3, <4>4
    <3>4. SigningIn(q)'
      BY <1>1, <1>2, <2>1, <2>4, <3>2, NoneIsNothing DEF SigningIn
    <3> QED
      BY <3>3, <3>4
  <2>5. ASSUME NEW q \in Request \ {r}, ~(Active(q) /\ SetsCookies(cmd[q]))
        PROVE  Rotating(q)' /\ SigningIn(q)'
    BY <1>2, <2>5 DEF Rotating, SigningIn, Active, SetsCookies, Terminal
  <2>6. Rotating(r)'
    <3> SUFFICES ASSUME cmd[r] = "csrf", label = "told" PROVE Rotating(r)'
      BY <1>2 DEF Rotating, Active
    <3>1. jar.csrf = None /\ jar.session \in {None, Rotated(r)} /\ pc[r] = "commit"
      BY <1>2, <1>3, <2>1 DEF Rotating, Terminal, Answers
    <3>2. /\ pc'[r] = "told" /\ Rotated(r)' = Rotated(r)
      BY <1>2, <3>1 DEF Rotated, Answers
    <3>3. jar'.csrf \in {None, r} /\ jar'.session \in {None, jar.session}
      BY <1>4, <3>1
    <3> QED
      BY <3>1, <3>2, <3>3 DEF Rotating
  <2>7. SigningIn(r)'
    <3> SUFFICES ASSUME cmd[r] = "login", label = "told" PROVE SigningIn(r)'
      BY <1>2 DEF SigningIn, Terminal
    <3> QED
      BY <1>2, <1>4, <1>7, NoneIsNothing DEF SigningIn
  <2> QED
    BY <2>3, <2>4, <2>5, <2>6, <2>7
<1>11. EchoIsAccepted'
  <2> SUFFICES ASSUME ~overlapped, jar'.session # None, jar'.csrf # None,
                      pc'[jar'.csrf] = "done"
               PROVE  session[jar'.session].csrf = jar'.csrf
    BY <1>1 DEF EchoIsAccepted
  <2>1. CASE jar' = jar
    <3>1. pc[jar.csrf] = "done"
      BY <1>1, <1>2, <1>7, <2>1, Names
    <3> QED
      BY <2>1, <3>1 DEF IInv, EchoIsAccepted
  <2>2. CASE jar'.csrf = r
    <3>1. pc[r] = "answered"
      BY <1>2, <2>2
    <3>2. CASE cmd[r] = "login" /\ jar'.session = r
      BY <2>2, <3>1, <3>2 DEF IInv, Ready, Issues
    <3>3. CASE cmd[r] = "csrf" /\ jar'.session = jar.session
      <4>1. Rotating(r)
        BY DEF IInv, InTurn
      <4> QED
        BY <1>3, <2>2, <3>1, <3>3, <4>1 DEF Rotating, Rotated
    <3> QED
      BY <1>4, <1>7, <2>2, <3>2, <3>3
  <2> QED
    BY <1>4, <2>1, <2>2
<1> QED
  BY <1>5, <1>6, <1>8, <1>9, <1>10, <1>11 DEF IInv

LEMMA DeliverStep ==
  ASSUME IInv, NEW r \in Request, Deliver(r) \/ DeliverEarly(r)
  PROVE  IInv'
<1>1. CASE Deliver(r)
  <2>1. PICK label : label = IF pc[r] = "answered" THEN "done" ELSE "failed"
    OBVIOUS
  <2>2. pc[r] \in Answers /\ Ends(r, label) /\ Receive(r)
    BY <1>1, <2>1 DEF Deliver
  <2>3. /\ label \in Delivered /\ label \in Terminal
        /\ label = "done" <=> pc[r] = "answered"
    BY <2>1 DEF Delivered, Terminal
  <2> QED
    BY <2>2, <2>3, ReceiveStep
<1>2. CASE DeliverEarly(r)
  <2>1. pc[r] = "commit" /\ Goto(r, "told") /\ Receive(r) /\ UNCHANGED <<cmd, principal>>
    BY <1>2 DEF DeliverEarly
  <2>2. "told" \in Delivered
    BY DEF Delivered
  <2> QED
    BY <2>1, <2>2, ReceiveStep
<1> QED
  BY <1>1, <1>2

\* Nothing but the browser's token or the clock changes.
LEMMA OutsideStep ==
  ASSUME IInv, UNCHANGED <<pc, cmd, sent, principal, session, overlapped>>,
         now' \in Nat, jar' = jar \/ jar' = [jar EXCEPT !.csrf = None]
  PROVE  IInv'
<1>1. TypeOK /\ jar \in Cookies
  BY DEF IInv, TypeOK
<1>2. /\ jar' \in Cookies /\ jar'.session = jar.session
      /\ jar'.csrf \in {jar.csrf, None}
  BY <1>1 DEF Cookies
<1>3. TypeOK'
  BY <1>1, <1>2 DEF TypeOK
<1>4. RowsAreWrittenOnce' /\ NamesAreKnown'
  BY <1>2 DEF IInv, RowsAreWrittenOnce, NamesAreKnown, Known, Told
<1>5. \A r \in Request : Ready(r)'
  BY <1>2, NoneIsNothing DEF IInv, Ready, RightCommand, Issues
<1>6. InTurn'
  <2> SUFFICES ASSUME ~overlapped
               PROVE  Alone' /\ \A q \in Request : Rotating(q)' /\ SigningIn(q)'
    BY DEF InTurn
  <2>1. Alone /\ \A q \in Request : Rotating(q) /\ SigningIn(q)
    BY DEF IInv, InTurn
  <2>2. Alone'
    BY <2>1 DEF Alone, Active
  <2>3. ASSUME NEW q \in Request PROVE Rotating(q)'
    <3>1. Rotating(q) /\ Rotated(q)' = Rotated(q) /\ Active(q)' = Active(q)
      BY <2>1 DEF Rotated, Active
    <3> QED
      BY <1>2, <3>1 DEF Rotating
  <2>4. ASSUME NEW q \in Request PROVE SigningIn(q)'
    BY <1>2, <2>1, NoneIsNothing DEF SigningIn
  <2> QED
    BY <2>2, <2>3, <2>4
<1>7. EchoIsAccepted'
  BY <1>2 DEF IInv, EchoIsAccepted
<1> QED
  BY <1>3, <1>4, <1>5, <1>6, <1>7 DEF IInv

-----------------------------------------------------------------------------
(* The theorems.                                                           *)

LEMMA NextIInv == IInv /\ [Next]_vars => IInv'
<1> SUFFICES ASSUME IInv, [Next]_vars PROVE IInv'
  OBVIOUS
<1>1. now \in Nat
  BY DEF IInv, TypeOK
<1>2. CASE UNCHANGED vars
  BY <1>1, <1>2, OutsideStep DEF vars
<1>3. CASE Tick
  BY <1>1, <1>3, OutsideStep DEF Tick
<1>4. ASSUME NEW r \in Request, Begin(r) \/ Step(r) \/ Refuse(r) \/ Undo(r) \/ GiveUp(r)
      PROVE  IInv'
  <2>1. CASE Begin(r)
    BY <2>1, BeginStep
  <2>2. CASE Step(r)
    BY <2>2, AuthenticateStep, WriteStep, CommitStep, DeliverStep DEF Step
  <2>3. CASE Refuse(r)
    BY <2>3, RefuseStep DEF Refuse, Goto
  <2>4. CASE Undo(r)
    BY <2>4, UndoStep
  <2>5. CASE GiveUp(r)
    BY <1>1, <2>5, OutsideStep DEF GiveUp
  <2> QED
    BY <1>4, <2>1, <2>2, <2>3, <2>4, <2>5
<1> QED
  BY <1>2, <1>3, <1>4 DEF Next

\* Sessions are named only by who has been told of them, and tokens are rotated
\* in turn, for every set of requests.
THEOREM Inductive == Spec => []IInv
<1>1. Init => IInv
  BY InitIInv
<1>2. IInv /\ [Next]_vars => IInv'
  BY NextIInv
<1> QED
  BY <1>1, <1>2, PTL DEF Spec

\* As long as requests that issue a token do not overlap, the value the browser
\* echoes is the one the server expects, once the request that issued it has
\* committed: whether answers are sent before or after the commit, and whatever
\* becomes of them.
THEOREM EchoesAreAccepted == Spec => []EchoIsAccepted
BY Inductive, PTL DEF IInv

-----------------------------------------------------------------------------
(* Dead sessions.                                                          *)

\* A session is only added to: its token changes, it is revoked, time passes.
LEMMA RowStep ==
  ASSUME IInv, [Next]_vars, NEW s \in Request, session[s] # None
  PROVE  /\ session'[s] # None
         /\ session[s].revoked => session'[s].revoked
         /\ session'[s].expires = session[s].expires
<1>1. TypeOK /\ session[s] \in SessionRow
  BY DEF IInv, TypeOK
<1>2. pc[s] \in Answers \cup Terminal
  BY DEF IInv, RowsAreWrittenOnce
<1>3. CASE session' = session
  BY <1>3
<1>4. CASE session' # session
  <2>1. PICK r \in Request : /\ pc[r] \in Uncommitted
                             /\ CommitLogin(r) \/ CommitRotation(r) \/ CommitLogout(r)
    BY <1>4 DEF Next, vars, Step, Begin, Authenticate, Rotate,
       Write, Commit, CommitOther, Deliver, DeliverEarly, Receive, Refuse, Undo, GiveUp, Tick
  <2>2. r # s
    BY <1>2, <2>1 DEF Answers, Terminal, Uncommitted
  <2>3. CASE CommitLogin(r)
    BY <1>1, <2>2, <2>3 DEF CommitLogin, TypeOK
  <2>4. PICK x, token, end :
          /\ x = principal[r]
          /\ token = [session[x] EXCEPT !.csrf = r]
          /\ end = [session[x] EXCEPT !.revoked = TRUE]
    OBVIOUS
  <2>5. CASE CommitRotation(r) \/ CommitLogout(r)
    <3>1. session' = [session EXCEPT ![x] = token] \/ session' = [session EXCEPT ![x] = end]
      BY <2>4, <2>5 DEF CommitRotation, CommitLogout
    <3>2. cmd[r] # "login"
      BY <2>5 DEF CommitRotation, CommitLogout
    <3>3. x \in Request /\ session[x] \in SessionRow
      BY <2>1, <2>4, <3>2, PrincipalIsKnown
    <3>4. /\ token \in SessionRow /\ token.revoked = session[x].revoked
          /\ token.expires = session[x].expires
          /\ end \in SessionRow /\ end.revoked /\ end.expires = session[x].expires
      BY <2>1, <2>4, <3>3 DEF SessionRow
    <3>5. token # None /\ end # None
      BY <3>4, NoneIsNothing
    <3>6. session'[s] \in {session[s], token, end} /\ (session'[s] # session[s] => s = x)
      BY <1>1, <3>1, <3>3 DEF TypeOK
    <3> QED
      BY <3>4, <3>5, <3>6
  <2> QED
    BY <2>1, <2>3, <2>5
<1> QED
  BY <1>3, <1>4

\* Whoever is admitted has found the session open.
LEMMA AdmissionStep ==
  ASSUME IInv, [Next]_vars, NEW s \in Request, NEW r \in Request,
         principal[r] # s, principal'[r] = s
  PROVE  session[s] # None /\ ~Dead(s)
<1>1. TypeOK /\ s # None
  BY NoneIsNothing DEF IInv
<1>2. ~(principal' = [principal EXCEPT ![r] = None])
  BY <1>1 DEF TypeOK
<1>3. PICK q \in Request : Authenticate(q) \/ Ends(q, pc'[q])
  <2>1. principal' # principal
    OBVIOUS
  <2> QED
    BY <1>1, <2>1 DEF Next, vars, Step, Begin, Rotate, Write, Commit, Deliver, DeliverEarly,
       Ends, Goto, Refuse, Undo, GiveUp, Tick, TypeOK
<1>4. CASE Ends(q, pc'[q])
  BY <1>1, <1>4 DEF Ends, TypeOK
<1>5. CASE Authenticate(q)
  <2>1. q = r /\ Admission(r) \notin Answers /\ s = sent[r].session
    BY <1>1, <1>5 DEF Authenticate, TypeOK
  <2>2. session[s] # None /\ ~session[s].revoked /\ ~Expired(s)
    BY <2>1 DEF Admission, Answers
  <2> QED
    BY <2>2 DEF Dead
<1> QED
  BY <1>3, <1>4, <1>5

\* A session that has ended or expired admits nobody any more and never comes
\* back: no rotation, sign-in, lost answer or delay revives it.
THEOREM DeadStayDead == Spec => DeadSessionsStayDead
<1> DEFINE StayDead ==
             \A s \in Request : Dead(s) => Dead(s)' /\ Admitted(s)' \subseteq Admitted(s)
<1>1. IInv /\ [Next]_vars => StayDead
  <2> SUFFICES ASSUME IInv, [Next]_vars, NEW s \in Request, Dead(s)
               PROVE  Dead(s)' /\ Admitted(s)' \subseteq Admitted(s)
    OBVIOUS
  <2>1. /\ session[s] # None /\ session[s] \in SessionRow /\ now \in Nat
        /\ session[s].revoked \/ session[s].expires <= now
    BY DEF IInv, TypeOK, Dead, Expired
  <2>2. now' \in Nat /\ now <= now'
    BY <2>1 DEF Next, vars, Step, Begin, Authenticate, Rotate,
       Write, Commit, Deliver, DeliverEarly, Receive, Refuse, Undo, GiveUp, Tick
  <2>3. /\ session'[s] # None
        /\ session[s].revoked => session'[s].revoked
        /\ session'[s].expires = session[s].expires /\ session[s].expires \in Nat
    BY <2>1, RowStep DEF SessionRow
  <2>4. Dead(s)'
    BY <2>1, <2>2, <2>3 DEF Dead, Expired
  <2>5. \A r \in Request : principal'[r] = s => principal[r] = s
    BY AdmissionStep
  <2> QED
    BY <2>4, <2>5 DEF Admitted
<1> QED
  BY <1>1, Inductive, PTL DEF Spec, DeadSessionsStayDead
=============================================================================
