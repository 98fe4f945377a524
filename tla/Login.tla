-------------------------------- MODULE Login --------------------------------
(***************************************************************************)
(* Accounts, sessions and the device login: browsers sign up, log in, log  *)
(* out and approve device codes (web/handlers.go over svc/auth.go), and    *)
(* terminals obtain a session by polling a code (tui/repl.go).  The server *)
(* keeps the tables users and device_sessions; every statement on them is  *)
(* a step of its own where the code runs it outside a transaction.         *)
(*                                                                         *)
(* A browser has one page in flight, and a second tab that may log out     *)
(* meanwhile.  Passwords, cookies' CSRF values and formatting are left     *)
(* out: a page that fails those checks changes nothing.                    *)
(***************************************************************************)
EXTENDS LoginState, TokenBucket, FiniteSets

CONSTANTS
  Browsers, Terminals,
  Names, Emails,        \* what may be typed into the sign-up form
  Horizon               \* bound on the clock

VARIABLES
  clock,
  bucket,      \* the limiter of /auth/* for the terminals' address
  cookie,      \* per browser: the session cookie
  page         \* per browser: the request in flight

tables == <<users, sessions, issued, codes>>
clients == <<cookie, page, term, creds>>
history == <<approved, loggedOut, overlapped>>
vars == <<clock, tables, bucket, clients, history>>

NoName == ""

NoPage == [op |-> "idle", name |-> NoName, email |-> NoName, code |-> NoCode,
           token |-> NoToken, expires |-> 0]
Off == [pc |-> "off", code |-> NoCode, deadline |-> 0, next |-> 0,
        token |-> NoToken, why |-> ""]

Session(c, tok, n, exp) == [code |-> c, token |-> tok, user |-> n, expires |-> exp]

\* ResolveSession: the signature and the expiry of the JWT, then a row with the
\* token that names the same user.  (The row expires with the JWT, so the
\* branch that deletes an expired row is never reached.)
Live(tok) ==
  /\ tok # NoToken
  /\ clock < issued[tok].expires
  /\ \E s \in RowsOf(tok) : s.user = issued[tok].user

\* auth.Middleware: a terminal's request needs a bearer token that resolves.
Authorized(tok) == Live(tok)

TypeOK ==
  /\ clock \in Nat
  /\ users \subseteq [name: Names, email: Emails]
  /\ \A s \in sessions :
       s.code \in 0..Len(codes) /\ s.token \in 0..Len(issued) /\ s.expires \in Nat
  /\ Len(issued) <= MaxTokens /\ Len(codes) <= MaxCodes
  /\ \A i \in DOMAIN issued : \E u \in users : u.name = issued[i].user
  /\ \A b \in Browsers : cookie[b] \in 0..Len(issued)
  /\ \A t \in Terminals : creds[t] \in 0..Len(issued) /\ term[t].token \in 0..Len(issued)

Init ==
  /\ clock = 0 /\ users = {} /\ sessions = {} /\ issued = <<>> /\ codes = <<>>
  /\ bucket = NoBucket
  /\ cookie = [b \in Browsers |-> NoToken]
  /\ page = [b \in Browsers |-> NoPage]
  /\ term = [t \in Terminals |-> Off]
  /\ creds = [t \in Terminals |-> NoToken]
  /\ approved = {} /\ loggedOut = {} /\ overlapped = {}

Tick ==
  /\ clock < Horizon
  /\ clock' = clock + 1
  /\ UNCHANGED <<tables, bucket, clients, history>>

(***************************************************************************)
(* Browsers                                                                *)
(***************************************************************************)

\* withSession: a stale cookie is cleared and the page is served anonymously.
LoggedIn(b) == Live(cookie[b])

\* issueSession, one transaction: sign a JWT and insert its row, under a random
\* code that nobody polls.
IssueSession(n) ==
  /\ Len(issued) < MaxTokens
  /\ issued' = Append(issued, [user |-> n, expires |-> clock + SessionTTL])
  /\ sessions' = sessions \cup
       {Session(NoCode, Len(issued) + 1, n, clock + SessionTTL)}

SetPage(b, p) == page' = [page EXCEPT ![b] = p]
SetCookie(b, tok) == cookie' = [cookie EXCEPT ![b] = tok]

Taken(n, e) == \E u \in users : u.name = n \/ u.email = e

\* Register: the two look-ups, without a lock.
SignupCheck(b, n, e) ==
  /\ page[b].op = "idle" /\ ~LoggedIn(b)
  /\ ~Taken(n, e)
  /\ SetPage(b, [NoPage EXCEPT !.op = "create", !.name = n, !.email = e])
  /\ SetCookie(b, NoToken)
  /\ UNCHANGED <<clock, tables, bucket, term, creds, history>>

\* The UNIQUE constraints of the table users.
NameConflict(n, e) == \E u \in users : u.name = n
Conflict(n, e) == \E u \in users : u.name = n \/ u.email = e

\* CreateUser, committed on its own; a unique violation means the race was lost.
SignupCreate(b) ==
  LET n == page[b].name
      e == page[b].email IN
  /\ page[b].op = "create"
  /\ IF Conflict(n, e)
     THEN SetPage(b, NoPage) /\ users' = users
     ELSE /\ users' = users \cup {[name |-> n, email |-> e]}
          /\ SetPage(b, [page[b] EXCEPT !.op = "issue"])
  /\ UNCHANGED <<clock, sessions, issued, codes, bucket, cookie, term, creds, history>>

\* The session of the new account and its cookie.
SignupIssue(b) ==
  /\ page[b].op = "issue"
  /\ IssueSession(page[b].name)
  /\ SetCookie(b, Len(issued) + 1)
  /\ SetPage(b, NoPage)
  /\ UNCHANGED <<clock, users, codes, bucket, term, creds, history>>

\* The connection or the server is lost before the session is issued: the
\* account exists and nobody is logged in.
SignupLost(b) ==
  /\ page[b].op = "issue"
  /\ SetPage(b, NoPage)
  /\ UNCHANGED <<clock, tables, bucket, cookie, term, creds, history>>

\* Login with the right password.
LogIn(b, u) ==
  /\ page[b].op = "idle" /\ ~LoggedIn(b)
  /\ IssueSession(u.name)
  /\ SetCookie(b, Len(issued) + 1)
  /\ UNCHANGED <<clock, users, codes, bucket, page, term, creds, history>>

\* DeleteSessionByToken: every row with the token, the browser's and those of
\* the device codes it was bound to.
WebRowOf(tok) == {s \in sessions : s.token = tok /\ s.code = NoCode}
Revoked(tok) == RowsOf(tok)

Logout(tok) ==
  /\ sessions' = sessions \ Revoked(tok)
  /\ loggedOut' = loggedOut \cup {tok}
  /\ overlapped' = overlapped \cup
       {page[b].token : b \in {x \in Browsers : page[x].op = "bind" /\ page[x].token = tok}}
  /\ approved' = approved

\* logoutHandler, in any tab.
LogOut(b) ==
  /\ cookie[b] # NoToken
  /\ Logout(cookie[b])
  /\ SetCookie(b, NoToken)
  /\ UNCHANGED <<clock, users, issued, codes, bucket, page, term, creds>>

\* POST /device/approve: the session is resolved and BindDeviceAuth reads the
\* row of the cookie's token for its expiry, both without a lock.
ApproveRead(b, c) ==
  /\ page[b].op = "idle" /\ LoggedIn(b)
  /\ \E s \in RowsOf(cookie[b]) :
       SetPage(b, [NoPage EXCEPT !.op = "bind", !.code = c, !.token = cookie[b],
                                 !.name = issued[cookie[b]].user, !.expires = s.expires])
  /\ UNCHANGED <<clock, tables, bucket, cookie, term, creds, history>>

\* The rows BindDeviceSessionToken's UPDATE selects.
BoundOrNot(c) == {s \in sessions : s.code = c /\ s.expires > clock}
Bindable(c) == {s \in sessions : s.code = c /\ s.token = NoToken /\ s.expires > clock}

\* And what it makes of them.
TokenOnly(s, p) == [s EXCEPT !.token = p.token]
Bound(s, p) == Session(s.code, p.token, p.name, p.expires)

\* BindDeviceSessionToken: one UPDATE; no row means "invalid or expired".
ApproveBind(b) ==
  LET p == page[b] IN
  /\ p.op = "bind"
  /\ sessions' = (sessions \ Bindable(p.code)) \cup
       {Bound(s, p) : s \in Bindable(p.code)}
  /\ approved' = IF Bindable(p.code) = {} THEN approved
                 ELSE approved \cup {<<p.code, p.token>>}
  /\ SetPage(b, NoPage)
  /\ UNCHANGED <<clock, users, issued, codes, bucket, cookie, term, creds,
                 loggedOut, overlapped>>

(***************************************************************************)
(* Terminals                                                               *)
(***************************************************************************)

At(t, pc) == term[t].pc = pc
SetTerm(t, r) == term' = [term EXCEPT ![t] = r]
Fail(t, reason) == SetTerm(t, [Off EXCEPT !.pc = "failed", !.why = reason])
SetCreds(t, tok) == creds' = [creds EXCEPT ![t] = tok]

\* RunREPL loads the credentials file.
Boot(t) ==
  /\ At(t, "off")
  /\ SetTerm(t, [Off EXCEPT !.pc = IF creds[t] = NoToken THEN "start" ELSE "cached"])
  /\ UNCHANGED <<clock, tables, bucket, cookie, page, creds, history>>

\* GET /auth/me with the cached token.
CachedOk(t) ==
  /\ At(t, "cached") /\ Authorized(creds[t])
  /\ SetTerm(t, [Off EXCEPT !.pc = "in", !.token = creds[t]])
  /\ UNCHANGED <<clock, tables, bucket, cookie, page, creds, history>>

\* Any error, a timeout included, throws the cached credentials away.
CachedFailed(t) ==
  /\ At(t, "cached")
  /\ SetCreds(t, NoToken)
  /\ SetTerm(t, [Off EXCEPT !.pc = "start"])
  /\ UNCHANGED <<clock, tables, bucket, cookie, page, history>>

\* POST /auth/start, throttled or answered with a fresh code.
StartDeviceAuth(t) ==
  /\ At(t, "start")
  /\ Len(codes) < MaxCodes /\ clock + TTL <= Horizon
  /\ bucket' = Allow(bucket, clock)
  /\ IF ~Admits(bucket, clock)
     THEN Fail(t, "throttled") /\ UNCHANGED <<codes, sessions>>
     ELSE /\ codes' = Append(codes, t)
          /\ sessions' = sessions \cup
               {Session(Len(codes) + 1, NoToken, NoName, clock + TTL)}
          /\ SetTerm(t, [Off EXCEPT !.pc = "wait", !.code = Len(codes) + 1,
                                    !.deadline = clock + TTL, !.next = clock])
  /\ UNCHANGED <<clock, users, issued, cookie, page, creds, history>>

\* The request fails on the way: "start browser auth" and the client exits.
StartFailed(t) ==
  /\ At(t, "start")
  /\ Fail(t, "network")
  /\ UNCHANGED <<clock, tables, bucket, cookie, page, creds, history>>

Polling(t) == At(t, "wait") /\ clock >= term[t].next /\ clock < term[t].deadline
RenewDeadline(t) == SetTerm(t, [term[t] EXCEPT !.pc = "wait", !.next = clock + Interval,
                                              !.deadline = clock + TTL])
KeepWaiting(t) == SetTerm(t, [term[t] EXCEPT !.pc = "wait", !.next = clock + Interval])
RowsOfCodeOrNone(c) == {s \in sessions : s.code \in {c, NoCode}}
RowsOfCode(c) == {s \in sessions : s.code = c}

\* POST /auth/poll answered at once: 429, 404, 410 (all fatal to the client),
\* or 202 "pending".
PollRefused(t) ==
  /\ Polling(t) /\ ~Admits(bucket, clock)
  /\ bucket' = Allow(bucket, clock)
  /\ Fail(t, "throttled")
  /\ UNCHANGED <<clock, tables, cookie, page, creds, history>>

PollGone(t) ==
  LET c == term[t].code IN
  /\ Polling(t) /\ Admits(bucket, clock)
  /\ \A s \in RowsOfCode(c) : s.expires < clock
  /\ bucket' = Allow(bucket, clock)
  /\ sessions' \in {sessions, sessions \ RowsOfCode(c)}
  /\ Fail(t, "gone")
  /\ UNCHANGED <<clock, users, issued, codes, cookie, page, creds, history>>

PollPending(t) ==
  /\ Polling(t) /\ Admits(bucket, clock)
  /\ \E s \in RowsOfCode(term[t].code) : s.expires >= clock /\ s.token = NoToken
  /\ bucket' = Allow(bucket, clock)
  /\ KeepWaiting(t)
  /\ UNCHANGED <<clock, tables, cookie, page, creds, history>>

\* The server has read the token of a bound row and is about to delete the row.
PollRead(t) ==
  /\ Polling(t) /\ Admits(bucket, clock)
  /\ bucket' = Allow(bucket, clock)
  /\ \E s \in RowsOfCode(term[t].code) :
       /\ s.expires >= clock /\ s.token # NoToken
       /\ SetTerm(t, [term[t] EXCEPT !.pc = "answer", !.token = s.token])
  /\ UNCHANGED <<clock, tables, cookie, page, creds, history>>

\* The code is consumed, unless its deletion fails, which the server ignores, and
\* the token reaches the terminal or is lost.
PollAnswered(t) ==
  /\ At(t, "answer")
  /\ sessions' \in {sessions, sessions \ RowsOfCode(term[t].code)}
  /\ \/ SetTerm(t, [term[t] EXCEPT !.pc = "token"])
     \/ SetTerm(t, [term[t] EXCEPT !.pc = "wait", !.token = NoToken,
                                   !.next = clock + Interval])
  /\ UNCHANGED <<clock, users, issued, codes, bucket, cookie, page, creds, history>>

\* A poll that never reached the server, or was cancelled before the deletion:
\* not an APIError, so the loop goes on.
PollDropped(t) ==
  /\ Polling(t) \/ At(t, "answer")
  /\ SetTerm(t, [term[t] EXCEPT !.pc = "wait", !.token = NoToken,
                                !.next = clock + Interval])
  /\ UNCHANGED <<clock, tables, bucket, cookie, page, creds, history>>

\* The loop's deadline: "browser auth timed out".
GiveUp(t) ==
  /\ At(t, "wait") /\ clock >= term[t].deadline
  /\ Fail(t, "late")
  /\ UNCHANGED <<clock, tables, bucket, cookie, page, creds, history>>

\* GET /auth/me with the new token; only then are the credentials saved.
Validate(t) ==
  /\ At(t, "token")
  /\ \/ /\ Authorized(term[t].token)
        /\ SetCreds(t, term[t].token)
        /\ SetTerm(t, [Off EXCEPT !.pc = "in", !.token = term[t].token])
     \/ Fail(t, "invalid") /\ UNCHANGED creds
  /\ UNCHANGED <<clock, tables, bucket, cookie, page, history>>

\* The /logout command: the throttle may refuse it, its deletion may fail, or the
\* server may not hear of it.  The plain client exits, the console goes on with
\* the token it has.
TerminalLogout(t) ==
  /\ At(t, "in")
  /\ \/ /\ Admits(bucket, clock)
        /\ bucket' = Allow(bucket, clock)
        /\ Logout(term[t].token)
     \/ /\ bucket' \in {bucket, Allow(bucket, clock)}
        /\ UNCHANGED <<sessions, history>>
  /\ SetCreds(t, NoToken)
  /\ term' \in {term, [term EXCEPT ![t] = Off]}
  /\ UNCHANGED <<clock, users, issued, codes, cookie, page>>

\* The player quits, or the process dies, at any point.
Quit(t) ==
  /\ ~At(t, "off")
  /\ SetTerm(t, Off)
  /\ UNCHANGED <<clock, tables, bucket, cookie, page, creds, history>>

BrowserStep(b) ==
  \/ \E n \in Names, e \in Emails : SignupCheck(b, n, e)
  \/ SignupCreate(b) \/ SignupIssue(b) \/ SignupLost(b)
  \/ \E u \in users : LogIn(b, u)
  \/ LogOut(b)
  \/ \E c \in DOMAIN codes : ApproveRead(b, c)
  \/ ApproveBind(b)

\* What the client process does by itself once it waits for its code.
LoginStep(t) ==
  \/ PollRefused(t) \/ PollGone(t) \/ PollPending(t) \/ PollRead(t)
  \/ PollAnswered(t) \/ PollDropped(t) \/ GiveUp(t) \/ Validate(t)

TerminalStep(t) ==
  \/ Boot(t) \/ CachedOk(t) \/ CachedFailed(t)
  \/ StartDeviceAuth(t) \/ StartFailed(t)
  \/ LoginStep(t)
  \/ TerminalLogout(t) \/ Quit(t)

Next ==
  \/ Tick
  \/ \E b \in Browsers : BrowserStep(b)
  \/ \E t \in Terminals : TerminalStep(t)

Spec == Init /\ [][Next]_vars

\* Time passes and a running client keeps executing its loop.
Fairness == WF_vars(Tick) /\ \A t \in Terminals : WF_vars(LoginStep(t))
FairSpec == Spec /\ Fairness

(***************************************************************************)
(* Properties                                                              *)
(***************************************************************************)

\* A terminal that follows the polling interval the server prescribes is not
\* refused by the throttle in front of /auth/poll while its code is valid.
NeverThrottled == \A t \in Terminals : term[t].why # "throttled"

\* Whatever is lost, consumed or logged out, the login loop ends: with a
\* session, an error or the deadline.
LoginEnds ==
  \A t \in Terminals :
    (term[t].pc \in {"wait", "answer", "token"}) ~> (term[t].pc \in {"in", "failed", "off"})
=============================================================================
