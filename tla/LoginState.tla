----------------------------- MODULE LoginState ------------------------------
(***************************************************************************)
(* The tables users and device_sessions with the terminals that hold       *)
(* tokens, and what sign-up and the device login promise of them           *)
(* (svc/auth.go).  Login has the pages and polls that change them.         *)
(***************************************************************************)
EXTENDS Naturals, Sequences

CONSTANTS
  TTL,          \* deviceAuthTTLSeconds
  Interval,     \* deviceAuthPollingInterval
  SessionTTL,   \* lifetime of a JWT and of its row
  MaxTokens,    \* bound on the tokens issued
  MaxCodes      \* bound on the device codes started

ASSUME LoginConstantsOK ==
  /\ TTL \in Nat /\ Interval \in Nat /\ SessionTTL \in Nat
  /\ MaxTokens \in Nat /\ MaxCodes \in Nat

VARIABLES
  users,       \* table users: [name, email]
  sessions,    \* table device_sessions: [code, token, user, expires]
  issued,      \* the JWTs signed so far: [user, expires]; a token is an index
  codes,       \* the device codes started so far, by terminal; a code is an index
  term,        \* per terminal: the client process
  creds,       \* per terminal: the credentials file
  approved,    \* history: <<code, token>> bound by an approval
  loggedOut,   \* history: tokens that were logged out
  overlapped   \* history: tokens logged out while an approval had read them

NoToken == 0
NoCode == 0

RowsOf(tok) == {s \in sessions : s.token = tok}

\* No two accounts share a name or an address, although sign-ups check before
\* they insert (svc/auth.go:64, the constraint decides at :77).
AccountsDistinct ==
  \A u, v \in users : u # v => u.name # v.name /\ u.email # v.email

\* The row of a token names the user the token was signed for, although an
\* approval reads token and user before it binds them to a code: ResolveSession
\* (svc/auth.go:197) refuses a row that names somebody else.
RowsNameTheirUser ==
  \A s \in sessions : s.token # NoToken => s.user = issued[s.token].user

\* A token held by a terminal, or kept in its credentials file, was bound by an
\* approval to a code which that very terminal started.
TokenWasApproved ==
  \A t \in DOMAIN term : \A tok \in {term[t].token, creds[t]} \ {NoToken} :
    \E c \in DOMAIN codes : codes[c] = t /\ <<c, tok>> \in approved

\* Two approvals of one code: the first wins, the token of a bound code never
\* changes (store/sessions.go:75).
FirstApprovalWins ==
  [][\A s \in sessions : s.code # NoCode /\ s.token # NoToken =>
       \A r \in sessions' : r.code = s.code => r = s]_sessions

\* After a logout no row carries the token (svc/auth.go:169), neither the
\* browser's nor a code's it had approved, unless an approval had read the row
\* before the logout and binds it after.
LoggedOutIsOut ==
  \A tok \in loggedOut \ overlapped : RowsOf(tok) = {}
=============================================================================
