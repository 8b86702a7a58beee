------------------------------ MODULE Sessions ------------------------------
(***************************************************************************)
(* Sessions of the web client: signing in and out, and the CSRF token that *)
(* unsafe requests echo (app/core/auth.py, app/api/auth.py; the browser's  *)
(* side is frontend/lib/api-client.ts and auth.ts).                        *)
(*                                                                         *)
(* A session is named by the sign-in that creates it, and a CSRF token by  *)
(* the request that issues it, so a hash comparison is equality.  One user *)
(* with one browser sends requests from several tabs, which share the two  *)
(* cookies of the jar; answers arrive in any order, or never.  A client    *)
(* that sends the token in the Authorization header instead has no jar and *)
(* its requests are authenticated in the same way without the CSRF check.  *)
(*                                                                         *)
(* A request is one transaction at READ COMMITTED.  What it has written    *)
(* and not committed is told from pc: only its row locks matter to others. *)
(* The commit is in the exit of a yield dependency.  FastAPI runs it       *)
(* before it sends the answer, or, from version 0.118 on, after it; the    *)
(* program asks for fastapi>=0.115,<1, so both orders are modelled.        *)
(***************************************************************************)
EXTENDS Requests, Integers

CONSTANTS
  Commands,   \* what the tabs may ask for
  TTL,        \* access_token_ttl_minutes, in ticks of the clock
  MaxTime,    \* bound on the clock
  SignedIn,   \* sign-ins answered before; signOut may have cleared a CSRF cookie
  None        \* absence of a value

\* "me" is any safe request and "command" any unsafe one.
Command == {"login", "csrf", "me", "command", "logout"}

\* A session as it is stored: its token, when it expires, and if it was ended.
SessionRow == [csrf : Request, expires : Nat, revoked : BOOLEAN]

ASSUME CommandsAssumption == Commands \subseteq Command
ASSUME SignedInAssumption == SignedIn \subseteq Request
ASSUME TimeAssumption == TTL \in Nat \ {0} /\ MaxTime \in Nat
ASSUME NoneAssumption == None \notin Request \cup Command /\ None \notin SessionRow

VARIABLES
  sent,       \* sent[r]: the cookies that r carries
  principal,  \* principal[r]: the session that r was authenticated with
  session,    \* session[s]: the committed row of session s, or None
  jar,        \* the cookies of the browser
  lost,       \* sign-outs whose answer the browser no longer waits for
  now,        \* the clock
  overlapped  \* history: have two requests that set cookies overlapped?

vars == <<pc, cmd, sent, principal, session, jar, lost, now, overlapped>>

NoCookies == [session |-> None, csrf |-> None]

\* create_session.
NewSession(r, time) == [csrf |-> r, expires |-> time + TTL, revoked |-> FALSE]

Unsafe(c) == c \in {"command", "logout"}
SetsCookies(c) == c \in {"login", "csrf"}

\* The answers on their way to the browser: the success of a request that has
\* committed or has been rolled back after all, a 401, and any other refusal.
Answers == {"answered", "undone", "unauthorized", "refused"}

\* A "told" request has been answered and has not committed.
Uncommitted == {"commit", "told"}
Executing(r) == Active(r) /\ pc[r] \notin Answers \cup {"told"}

Init ==
  /\ pc = [r \in Request |-> IF r \in SignedIn THEN "done" ELSE "idle"]
  /\ cmd = [r \in Request |-> None]
  /\ sent = [r \in Request |-> NoCookies]
  /\ principal = [r \in Request |-> None]
  /\ session = [s \in Request |-> IF s \in SignedIn THEN NewSession(s, 0) ELSE None]
  /\ jar \in IF SignedIn = {} THEN {NoCookies}
             ELSE [session : SignedIn, csrf : {None}]
                    \cup {[session |-> s, csrf |-> s] : s \in SignedIn}
  /\ lost = {}
  /\ now = 0
  /\ overlapped = FALSE

\* A token is asked for before every unsafe request.
NeedsToken_Always == jar.session # None

\* ensureCsrfToken: the token in the cookie is used as long as there is one.
NeedsToken == jar.session # None /\ jar.csrf = None

\* The browser attaches the cookies it has now; the X-CSRF-Token header is the
\* value of the CSRF cookie.  A tab that has only the token it remembers sends
\* it without the cookie, which is refused like a request without a token.  The
\* handler of a sign-in reads nothing that other requests write here: its
\* throttle and its password are in Throttle.
Begin(r) ==
  /\ pc[r] = "idle"
  /\ \E c \in Commands :
       /\ c = "csrf" => NeedsToken
       /\ cmd' = [cmd EXCEPT ![r] = c]
       /\ Goto(r, IF c = "login" THEN "commit" ELSE "authenticate")
       /\ overlapped' = (overlapped \/ (SetsCookies(c)
                           /\ \E q \in Request : Active(q) /\ SetsCookies(cmd[q])))
  /\ sent' = [sent EXCEPT ![r] = IF cmd'[r] = "login" THEN NoCookies ELSE jar]
  /\ UNCHANGED <<principal, session, jar, lost, now>>

Expired(s) == session[s].expires <= now

\* The first statement of the handler of command c.
Handler(c) == CASE c = "csrf" -> "rotate" [] c = "logout" -> "write" [] OTHER -> "commit"

\* get_current_principal: its answer, in the order of its checks, or the label
\* at which the handler starts.
Admission(r) ==
  LET s == sent[r].session
  IN IF s = None \/ session[s] = None \/ session[s].revoked THEN "unauthorized"
     ELSE IF Unsafe(cmd[r]) /\ session[s].csrf # sent[r].csrf THEN "refused"
     ELSE IF Expired(s) THEN "unauthorized"
     ELSE Handler(cmd[r])

Authenticate(r) ==
  /\ pc[r] = "authenticate"
  /\ Goto(r, Admission(r))
  /\ principal' = [principal EXCEPT ![r] = IF Admission(r) \in Answers THEN None
                                           ELSE sent[r].session]
  /\ sent' = [sent EXCEPT ![r] = NoCookies]
  /\ UNCHANGED <<cmd, session, jar, lost, now, overlapped>>

\* refresh_csrf_token selects the session, if it is not revoked, without a
\* lock.
Rotate(r) ==
  /\ pc[r] = "rotate"
  /\ Goto(r, IF session[principal[r]].revoked THEN "unauthorized" ELSE "write")
  /\ UNCHANGED <<cmd, sent, principal, session, jar, lost, now, overlapped>>

\* Requests that have updated the row of session s and not committed.
Writers(s) ==
  {q \in Request : pc[q] \in Uncommitted /\ principal[q] = s /\ cmd[q] \in {"csrf", "logout"}}

\* The flush of refresh_csrf_token or revoke_session: an UPDATE of one column
\* of the row, which waits for its lock.
Write(r) ==
  /\ pc[r] = "write"
  /\ Writers(principal[r]) = {}
  /\ Goto(r, "commit")
  /\ UNCHANGED <<cmd, sent, principal, session, jar, lost, now, overlapped>>

\* create_session.
CommitLogin(r) ==
  /\ cmd[r] = "login"
  /\ session' = [session EXCEPT ![r] = NewSession(r, now)]

\* The row is written as it was read.
CommitRotation_WholeRow(r) ==
  /\ cmd[r] = "csrf"
  /\ session' = [session EXCEPT ![principal[r]].csrf = r,
                                ![principal[r]].revoked = FALSE]

CommitRotation(r) ==
  /\ cmd[r] = "csrf"
  /\ session' = [session EXCEPT ![principal[r]].csrf = r]

\* revoke_session.
CommitLogout(r) ==
  /\ cmd[r] = "logout"
  /\ session' = [session EXCEPT ![principal[r]].revoked = TRUE]

\* The effects of a command are modelled with its component.
CommitOther(r) == cmd[r] \in {"me", "command"} /\ UNCHANGED session

Ends(r, label) ==
  /\ Goto(r, label)
  /\ cmd' = [cmd EXCEPT ![r] = None]
  /\ principal' = [principal EXCEPT ![r] = None]

Commit(r) ==
  /\ pc[r] \in Uncommitted
  /\ CommitLogin(r) \/ CommitRotation(r) \/ CommitLogout(r) \/ CommitOther(r)
  /\ \/ pc[r] = "commit" /\ Goto(r, "answered") /\ UNCHANGED <<cmd, principal>>
     \/ pc[r] = "told" /\ Ends(r, "done")
  /\ UNCHANGED <<sent, jar, lost, now, overlapped>>

\* A permission is missing, a domain rule or a wrong password refuses the
\* command, a wait is ended, the worker dies or the commit fails: the browser is
\* told of an error.
Refuse(r) ==
  /\ Executing(r)
  /\ Goto(r, "refused")
  /\ UNCHANGED <<cmd, sent, principal, session, jar, lost, now, overlapped>>

\* The commit fails when the answer has been sent.
Undo(r) ==
  /\ \/ pc[r] = "commit" /\ Goto(r, "undone") /\ UNCHANGED <<cmd, principal>>
     \/ pc[r] = "told" /\ Ends(r, "failed")
  /\ UNCHANGED <<sent, session, jar, lost, now, overlapped>>

Succeeds(r) == pc[r] \in {"commit", "answered", "undone"}

\* The cookies after the answer of r: Set-Cookie of a successful login, csrf or
\* logout; clearAccessToken after a failed logout and when "me" is answered 401.
JarAfter(r) ==
  CASE Succeeds(r) /\ cmd[r] = "login"           -> [session |-> r, csrf |-> r]
    [] Succeeds(r) /\ cmd[r] = "csrf"            -> [jar EXCEPT !.csrf = r]
    [] Succeeds(r) /\ cmd[r] = "logout"          -> NoCookies
    [] ~Succeeds(r) /\ cmd[r] = "logout"         -> [jar EXCEPT !.csrf = None]
    [] pc[r] = "unauthorized" /\ cmd[r] = "me"   -> [jar EXCEPT !.csrf = None]
    [] OTHER                                     -> jar

\* The browser receives the answer of r, or it is lost on the way.
Receive(r) ==
  /\ jar' \in {IF r \in lost THEN jar ELSE JarAfter(r)}
             \cup (IF cmd[r] = "logout" THEN {} ELSE {jar})
  /\ lost' = lost \ {r}
  /\ UNCHANGED <<sent, session, now, overlapped>>

\* After the transaction.
Deliver(r) ==
  /\ pc[r] \in Answers
  /\ Ends(r, IF pc[r] = "answered" THEN "done" ELSE "failed")
  /\ Receive(r)

\* Before the commit: only an error ends the transaction before the answer.
DeliverEarly(r) ==
  /\ pc[r] = "commit"
  /\ Goto(r, "told")
  /\ Receive(r)
  /\ UNCHANGED <<cmd, principal>>

\* signOut gives up on an answer that is lost while the server goes on, and
\* clears the CSRF cookie all the same.
GiveUp(r) ==
  /\ Active(r) /\ pc[r] # "told" /\ cmd[r] = "logout" /\ r \notin lost
  /\ lost' = lost \cup {r}
  /\ jar' = [jar EXCEPT !.csrf = None]
  /\ UNCHANGED <<pc, cmd, sent, principal, session, now, overlapped>>

Tick ==
  /\ now < MaxTime
  /\ now' = now + 1
  /\ UNCHANGED <<pc, cmd, sent, principal, session, jar, lost, overlapped>>

Step(r) ==
  \/ Authenticate(r) \/ Rotate(r) \/ Write(r) \/ Commit(r)
  \/ DeliverEarly(r) \/ Deliver(r)

Next ==
  \/ \E r \in Request : Begin(r) \/ Step(r) \/ Refuse(r) \/ Undo(r) \/ GiveUp(r)
  \/ Tick

Spec == Init /\ [][Next]_vars
-----------------------------------------------------------------------------
Dead(s) == session[s] # None /\ (session[s].revoked \/ Expired(s))

Admitted(s) == {r \in Request : principal[r] = s}

\* A session that was signed out of or has expired admits no further request,
\* and nothing revives it: a rotation of its CSRF token that read it before the
\* sign-out and commits after it in particular (get_current_principal,
\* refresh_csrf_token, revoke_session).
DeadSessionsStayDead ==
  [][\A s \in Request : Dead(s) => Dead(s)' /\ Admitted(s)' \subseteq Admitted(s)]_vars

\* "Unsafe browser requests must echo the CSRF value" (README.md:66), and the
\* value the browser echoes is the one the server expects: lost answers, failed
\* sign-outs, expiry and sign-ins over a live session never leave a stale token
\* in the jar, as long as no two requests that issue a token overlap and the
\* request that issued the token in the jar has committed.  Before the commit,
\* and if it fails, the browser may hold a token that the server does not know;
\* the answers of FastAPI 0.118 and later can do that (session_scope).
EchoIsAccepted ==
  ~overlapped /\ jar.session # None /\ jar.csrf # None /\ pc[jar.csrf] = "done"
    => session[jar.session].csrf = jar.csrf
=============================================================================
