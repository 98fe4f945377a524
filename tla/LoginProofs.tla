----------------------------- MODULE LoginProofs -----------------------------
(***************************************************************************)
(* Sign-up and the device login for any number of browsers, terminals,     *)
(* names, codes and tokens: accounts are distinct, an approval binds once, *)
(* a logout is final, and a terminal gets only what was approved for it.   *)
(***************************************************************************)
EXTENDS Login, TLAPS, SequenceTheorems

-----------------------------------------------------------------------------
(* Accounts.  Only SignupCreate writes the table.                          *)

LEMMA UsersStep ==
  ASSUME [Next]_vars
  PROVE  UNCHANGED users \/ \E b \in Browsers : SignupCreate(b)
  BY DEF Next, Tick, BrowserStep, SignupCheck, SignupIssue, SignupLost, LogIn, LogOut,
     ApproveRead, ApproveBind, TerminalStep, Boot, CachedOk, CachedFailed, StartDeviceAuth,
     StartFailed, LoginStep, PollRefused, PollGone, PollPending, PollRead, PollAnswered,
     PollDropped, GiveUp, Validate, TerminalLogout, Quit, vars, tables

\* Sign-ups that race between their look-ups and their inserts leave accounts
\* with distinct names and addresses.
THEOREM AccountsHold == Spec => []AccountsDistinct
  <1>1. Init => AccountsDistinct
    BY DEF Init, AccountsDistinct
  <1>2. AccountsDistinct /\ [Next]_vars => AccountsDistinct'
    <2> SUFFICES ASSUME AccountsDistinct, [Next]_vars PROVE AccountsDistinct'
      OBVIOUS
    <2>1. CASE UNCHANGED users
      BY <2>1 DEF AccountsDistinct
    <2>2. ASSUME NEW b \in Browsers, SignupCreate(b) PROVE AccountsDistinct'
      <3> DEFINE new == [name |-> page[b].name, email |-> page[b].email]
      <3>1. \/ users' = users
            \/ users' = users \cup {new} /\ ~Conflict(page[b].name, page[b].email)
        BY <2>2 DEF SignupCreate
      <3>2. new.name = page[b].name /\ new.email = page[b].email
        OBVIOUS
      <3> HIDE DEF new
      <3> QED
        BY <3>1, <3>2 DEF AccountsDistinct, Conflict
    <2> QED
      BY <2>1, <2>2, UsersStep
  <1> QED
    BY <1>1, <1>2, PTL DEF Spec

-----------------------------------------------------------------------------
(* Types, as wide as the steps need them.  Moments are what the code       *)
(* computes from its clock; nothing is assumed about the durations.        *)

AnyName == Names \cup {NoName}
AnyEmail == Emails \cup {NoName}
Moments == {m + d : m \in Nat, d \in {0, TTL, Interval, SessionTTL}}

Rows == [code : Nat, token : Nat, user : AnyName, expires : Moments]
Pages ==
  [op : {"idle", "create", "issue", "bind"}, name : AnyName, email : AnyEmail,
   code : Nat, token : Nat, expires : Moments]
Clients ==
  [pc : {"off", "start", "cached", "in", "wait", "answer", "token", "failed"},
   code : Nat, deadline : Moments, next : Moments, token : Nat,
   why : {"", "throttled", "network", "gone", "late", "invalid"}]

TypeInv ==
  /\ clock \in Nat
  /\ users \subseteq [name : AnyName, email : AnyEmail]
  /\ sessions \subseteq Rows
  /\ issued \in Seq([user : AnyName, expires : Moments])
  /\ codes \in Seq(Terminals)
  /\ cookie \in [Browsers -> Nat] /\ page \in [Browsers -> Pages]
  /\ term \in [Terminals -> Clients] /\ creds \in [Terminals -> Nat]

LEMMA MomentsOf ==
  ASSUME NEW m \in Nat
  PROVE  m \in Moments /\ m + TTL \in Moments /\ m + Interval \in Moments /\ m + SessionTTL \in Moments
  <1>1. m = m + 0
    OBVIOUS
  <1> QED
    BY <1>1 DEF Moments

LEMMA NoPageTyped == NoPage \in Pages
  BY MomentsOf DEF NoPage, Pages, AnyName, AnyEmail, NoCode, NoToken

LEMMA OffTyped == Off \in Clients
  BY MomentsOf DEF Off, Clients, NoCode, NoToken

\* What a step makes of a client process.
LEMMA ClientTyped ==
  ASSUME TypeInv, NEW t \in Terminals
  PROVE  /\ \A reason \in {"throttled", "network", "gone", "late", "invalid"} :
              [Off EXCEPT !.pc = "failed", !.why = reason] \in Clients
         /\ \A pc \in {"start", "cached"} : [Off EXCEPT !.pc = pc] \in Clients
         /\ \A tok \in Nat : [Off EXCEPT !.pc = "in", !.token = tok] \in Clients
         /\ \A c \in Nat :
              [Off EXCEPT !.pc = "wait", !.code = c, !.deadline = clock + TTL, !.next = clock]
                \in Clients
         /\ \A tok \in Nat : [term[t] EXCEPT !.pc = "answer", !.token = tok] \in Clients
         /\ [term[t] EXCEPT !.pc = "token"] \in Clients
         /\ [term[t] EXCEPT !.pc = "wait", !.next = clock + Interval] \in Clients
         /\ [term[t] EXCEPT !.pc = "wait", !.token = NoToken, !.next = clock + Interval]
              \in Clients
  <1>1. term[t] \in Clients
    BY DEF TypeInv
  <1>2. clock \in Moments /\ clock + TTL \in Moments /\ clock + Interval \in Moments
    BY MomentsOf DEF TypeInv
  <1> HIDE DEF Moments
  <1> QED
    BY <1>1, <1>2, OffTyped DEF Clients, NoToken

\* A token is signed and its row inserted.
LEMMA TypeIssue ==
  ASSUME TypeInv, NEW n \in AnyName, IssueSession(n)
  PROVE  /\ issued' \in Seq([user : AnyName, expires : Moments])
         /\ sessions' \subseteq Rows
         /\ Len(issued') = Len(issued) + 1 /\ Len(issued) \in Nat
  <1>1. issued \in Seq([user : AnyName, expires : Moments]) /\ clock + SessionTTL \in Moments
    BY MomentsOf DEF TypeInv
  <1>2. Len(issued) \in Nat
    BY <1>1, LenProperties
  <1> HIDE DEF Moments
  <1>3. [user |-> n, expires |-> clock + SessionTTL] \in [user : AnyName, expires : Moments]
    BY <1>1
  <1>4. issued' = Append(issued, [user |-> n, expires |-> clock + SessionTTL])
    BY DEF IssueSession
  <1>5. Session(NoCode, Len(issued) + 1, n, clock + SessionTTL) \in Rows
    BY <1>1, <1>2 DEF Session, Rows, NoCode
  <1> QED
    BY <1>1, <1>2, <1>3, <1>4, <1>5, AppendProperties DEF IssueSession, TypeInv

LEMMA TypeBrowser ==
  ASSUME TypeInv, NEW b \in Browsers, BrowserStep(b)
  PROVE  TypeInv'
  <1>0. page[b] \in Pages /\ cookie[b] \in Nat /\ NoToken \in Nat /\ Len(issued) \in Nat
    BY LenProperties DEF TypeInv, NoToken
  <1> USE DEF SetPage, SetCookie
  <1> HIDE DEF Moments
  <1>1. ASSUME NEW n \in Names, NEW e \in Emails, SignupCheck(b, n, e) PROVE TypeInv'
    <2>1. [NoPage EXCEPT !.op = "create", !.name = n, !.email = e] \in Pages
      BY NoPageTyped DEF Pages, AnyName, AnyEmail
    <2> QED
      BY <1>0, <1>1, <2>1 DEF SignupCheck, TypeInv, tables, history
  <1>2. CASE SignupCreate(b)
    <2>1. [page[b] EXCEPT !.op = "issue"] \in Pages
      BY <1>0 DEF Pages
    <2>2. page' \in [Browsers -> Pages]
      BY <1>2, <2>1, NoPageTyped DEF SignupCreate, TypeInv
    <2>3. users' \subseteq [name : AnyName, email : AnyEmail]
      BY <1>0, <1>2 DEF SignupCreate, TypeInv, Pages
    <2> QED
      BY <1>2, <2>2, <2>3 DEF SignupCreate, TypeInv
  <1>3. CASE SignupIssue(b)
    <2>1. page[b].name \in AnyName
      BY <1>0 DEF Pages
    <2>2. issued' \in Seq([user : AnyName, expires : Moments]) /\ sessions' \subseteq Rows
      BY <1>3, <2>1, TypeIssue DEF SignupIssue
    <2> QED
      BY <1>0, <1>3, <2>1, <2>2, NoPageTyped DEF SignupIssue, TypeInv
  <1>4. CASE SignupLost(b)
    BY <1>4, NoPageTyped DEF SignupLost, TypeInv, tables
  <1>5. ASSUME NEW u \in users, LogIn(b, u) PROVE TypeInv'
    <2>1. u.name \in AnyName
      BY DEF TypeInv
    <2>2. issued' \in Seq([user : AnyName, expires : Moments]) /\ sessions' \subseteq Rows
      BY <1>5, <2>1, TypeIssue DEF LogIn
    <2> QED
      BY <1>0, <1>5, <2>2 DEF LogIn, TypeInv
  <1>6. CASE LogOut(b)
    BY <1>0, <1>6 DEF LogOut, Logout, TypeInv
  <1>7. ASSUME NEW c \in DOMAIN codes, ApproveRead(b, c) PROVE TypeInv'
    <2>1. PICK s \in RowsOf(cookie[b]) :
            page' = [page EXCEPT ![b] =
              [NoPage EXCEPT !.op = "bind", !.code = c, !.token = cookie[b],
                             !.name = issued[cookie[b]].user, !.expires = s.expires]]
      BY <1>7 DEF ApproveRead
    <2>2. s.expires \in Moments /\ s.token = cookie[b] /\ s \in sessions
      BY <2>1 DEF RowsOf, TypeInv, Rows
    <2>3. c \in Nat
      BY LenProperties DEF TypeInv
    <2>4. issued[cookie[b]].user \in AnyName
      BY <1>7 DEF ApproveRead, LoggedIn, Live, RowsOf, TypeInv, Rows
    <2>5. [NoPage EXCEPT !.op = "bind", !.code = c, !.token = cookie[b],
                         !.name = issued[cookie[b]].user, !.expires = s.expires] \in Pages
      BY <1>0, <2>2, <2>3, <2>4, NoPageTyped DEF Pages
    <2> QED
      BY <1>7, <2>1, <2>5 DEF ApproveRead, TypeInv, tables
  <1>8. CASE ApproveBind(b)
    <2>1. \A s \in sessions : Bound(s, page[b]) \in Rows
      BY <1>0 DEF Bound, Session, TypeInv, Rows, Pages
    <2> QED
      BY <1>8, <2>1, NoPageTyped DEF ApproveBind, Bindable, TypeInv
  <1> QED
    BY <1>1, <1>2, <1>3, <1>4, <1>5, <1>6, <1>7, <1>8 DEF BrowserStep

\* A step of a terminal leaves its process typed, whatever else it writes.
LEMMA TypeTerminal ==
  ASSUME TypeInv, NEW t \in Terminals, TerminalStep(t)
  PROVE  TypeInv'
  <1>0. term[t] \in Clients /\ creds[t] \in Nat /\ term[t].token \in Nat /\ NoToken \in Nat
    BY DEF TypeInv, Clients, NoToken
  <1> HIDE DEF Moments
  <1>1. CASE Boot(t) \/ CachedOk(t) \/ CachedFailed(t) \/ StartFailed(t) \/ Quit(t)
    BY <1>0, <1>1, ClientTyped, OffTyped
    DEF Boot, CachedOk, CachedFailed, StartFailed, Quit, Fail, SetTerm, SetCreds, TypeInv, tables
  <1>2. CASE StartDeviceAuth(t)
    <2>1. Len(codes) \in Nat /\ Len(codes) + 1 \in Nat /\ clock + TTL \in Moments
      BY LenProperties, MomentsOf DEF TypeInv
    <2>2. term' \in [Terminals -> Clients]
      BY <1>2, <2>1, ClientTyped DEF StartDeviceAuth, Fail, SetTerm, TypeInv
    <2>3. codes' \in Seq(Terminals)
      <3>1. codes \in Seq(Terminals)
        BY DEF TypeInv
      <3>2. codes' = codes \/ codes' = Append(codes, t)
        BY <1>2 DEF StartDeviceAuth
      <3> QED
        BY <3>1, <3>2, AppendProperties
    <2>4. Session(Len(codes) + 1, NoToken, NoName, clock + TTL) \in Rows
      BY <2>1 DEF Session, Rows, NoToken, AnyName
    <2>5. sessions' \subseteq Rows
      BY <1>2, <2>4 DEF StartDeviceAuth, TypeInv
    <2> QED
      BY <1>2, <2>2, <2>3, <2>5 DEF StartDeviceAuth, TypeInv
  <1>3. CASE PollRefused(t) \/ PollPending(t) \/ PollDropped(t) \/ GiveUp(t)
    BY <1>3, ClientTyped
    DEF PollRefused, PollPending, PollDropped, GiveUp, Fail, KeepWaiting, SetTerm, TypeInv, tables
  <1>4. CASE PollGone(t)
    BY <1>4, ClientTyped DEF PollGone, Fail, SetTerm, TypeInv
  <1>5. CASE PollRead(t)
    <2>1. PICK s \in sessions : SetTerm(t, [term[t] EXCEPT !.pc = "answer", !.token = s.token])
      BY <1>5 DEF PollRead, RowsOfCode
    <2>2. s.token \in Nat
      BY DEF TypeInv, Rows
    <2> QED
      BY <1>5, <2>1, <2>2, ClientTyped DEF PollRead, SetTerm, TypeInv, tables
  <1>6. CASE PollAnswered(t)
    BY <1>6, ClientTyped DEF PollAnswered, SetTerm, TypeInv
  <1>7. CASE Validate(t)
    BY <1>0, <1>7, ClientTyped DEF Validate, Fail, SetTerm, SetCreds, TypeInv, tables
  <1>8. CASE TerminalLogout(t)
    BY <1>0, <1>8, OffTyped DEF TerminalLogout, Logout, SetTerm, SetCreds, TypeInv, history
  <1> QED
    BY <1>1, <1>2, <1>3, <1>4, <1>5, <1>6, <1>7, <1>8 DEF TerminalStep, LoginStep

LEMMA TypeAlways == Spec => []TypeInv
  <1>1. Init => TypeInv
    BY NoPageTyped, OffTyped DEF Init, TypeInv, NoToken
  <1>2. TypeInv /\ [Next]_vars => TypeInv'
    <2> SUFFICES ASSUME TypeInv, [Next]_vars PROVE TypeInv'
      OBVIOUS
    <2>1. CASE Tick
      BY <2>1 DEF Tick, TypeInv, tables, clients
    <2>2. CASE UNCHANGED vars
      BY <2>2 DEF vars, tables, clients, TypeInv
    <2> QED
      BY <2>1, <2>2, TypeBrowser, TypeTerminal DEF Next
  <1> QED
    BY <1>1, <1>2, PTL DEF Spec

-----------------------------------------------------------------------------
(* Codes.  Every row of a code is the only one, so an approval that finds  *)
(* it unbound is the first.                                                *)

CodeInv ==
  /\ \A s \in sessions : s.code <= Len(codes)
  /\ \A r, s \in sessions : r.code # NoCode /\ r.code = s.code => r = s

Inserted(row) == sessions' = sessions \cup {row}

\* What a step may do to the sessions.
Issuing ==
  /\ \E n, e : Inserted(Session(NoCode, Len(issued) + 1, n, e))
  /\ Len(issued') = Len(issued) + 1 /\ codes' = codes
Starting ==
  /\ \E e : Inserted(Session(Len(codes) + 1, NoToken, NoName, e))
  /\ Len(codes') = Len(codes) + 1 /\ issued' = issued
Deleting == sessions' \subseteq sessions /\ UNCHANGED <<codes, issued>>

LEMMA SessionsStep ==
  ASSUME TypeInv, [Next]_vars
  PROVE  Deleting \/ Issuing \/ Starting \/ \E b \in Browsers : ApproveBind(b)
  <1>1. UNCHANGED <<sessions, codes, issued>> => Deleting
    BY DEF Deleting
  <1>2. ASSUME NEW b \in Browsers, BrowserStep(b), ~ApproveBind(b)
        PROVE  Deleting \/ Issuing
    <2>1. CASE LogOut(b)
      BY <2>1 DEF LogOut, Logout, Deleting
    <2>2. CASE SignupIssue(b)
      <3>1. page[b].name \in AnyName
        BY DEF TypeInv, Pages
      <3> QED
        BY <2>2, <3>1, TypeIssue DEF SignupIssue, IssueSession, Inserted, Issuing
    <2>3. ASSUME NEW u \in users, LogIn(b, u) PROVE Issuing
      <3>1. u.name \in AnyName
        BY DEF TypeInv
      <3> QED
        BY <2>3, <3>1, TypeIssue DEF LogIn, IssueSession, Inserted, Issuing
    <2> QED
      BY <1>1, <1>2, <2>1, <2>2, <2>3
      DEF BrowserStep, SignupCheck, SignupCreate, SignupLost, ApproveRead, tables
  <1>3. ASSUME NEW t \in Terminals, TerminalStep(t)
        PROVE  Deleting \/ Starting
    <2>1. CASE StartDeviceAuth(t)
      <3>1. CASE codes' = codes /\ sessions' = sessions
        BY <2>1, <3>1 DEF StartDeviceAuth, Deleting
      <3>2. CASE codes' = Append(codes, t)
                 /\ Inserted(Session(Len(codes) + 1, NoToken, NoName, clock + TTL))
        <4>1. codes \in Seq(Terminals) /\ issued' = issued
          BY <2>1 DEF StartDeviceAuth, TypeInv
        <4> QED
          BY <3>2, <4>1, AppendProperties DEF Starting
      <3> QED
        BY <2>1, <3>1, <3>2 DEF StartDeviceAuth, Inserted
    <2>2. CASE PollGone(t) \/ PollAnswered(t) \/ TerminalLogout(t)
      BY <2>2 DEF PollGone, PollAnswered, TerminalLogout, Logout, Deleting
    <2> QED
      BY <1>1, <1>3, <2>1, <2>2
      DEF TerminalStep, LoginStep, Boot, CachedOk, CachedFailed, StartFailed, PollRefused,
          PollPending, PollRead, PollDropped, GiveUp, Validate, Quit, tables
  <1> QED
    BY <1>1, <1>2, <1>3 DEF Next, Tick, vars, tables

\* BindDeviceSessionToken rewrites at most one row and keeps its code.
LEMMA BindKeepsCodes ==
  ASSUME CodeInv, NEW b \in Browsers, ApproveBind(b)
  PROVE  /\ codes' = codes
         /\ \A r \in sessions' : \E s \in sessions :
              /\ r.code = s.code
              /\ r = s \/ (s.token = NoToken /\ s.code = page[b].code /\ r.token = page[b].token)
  <1>1. \A s \in sessions :
          Bound(s, page[b]).code = s.code /\ Bound(s, page[b]).token = page[b].token
    BY DEF Bound, Session
  <1> QED
    BY <1>1 DEF ApproveBind, Bindable

LEMMA CodeStep == TypeInv /\ CodeInv /\ [Next]_vars => CodeInv'
  <1> SUFFICES ASSUME TypeInv, CodeInv, [Next]_vars PROVE CodeInv'
    OBVIOUS
  <1>0. Len(codes) \in Nat /\ \A s \in sessions : s.code \in Nat
    BY LenProperties DEF TypeInv, Rows
  <1>1. CASE Deleting
    BY <1>1 DEF Deleting, CodeInv
  <1>2. ASSUME NEW n, NEW e, Inserted(Session(NoCode, Len(issued) + 1, n, e)), codes' = codes
        PROVE  CodeInv'
    <2>1. Session(NoCode, Len(issued) + 1, n, e).code = 0
      BY DEF Session, NoCode
    <2> QED
      BY <1>0, <1>2, <2>1 DEF Inserted, CodeInv, NoCode
  <1>3. ASSUME NEW e, Inserted(Session(Len(codes) + 1, NoToken, NoName, e)),
               Len(codes') = Len(codes) + 1
        PROVE  CodeInv'
    <2>1. Session(Len(codes) + 1, NoToken, NoName, e).code = Len(codes) + 1
      BY DEF Session
    <2> QED
      BY <1>0, <1>3, <2>1 DEF Inserted, CodeInv
  <1>4. ASSUME NEW b \in Browsers, ApproveBind(b) PROVE CodeInv'
    <2>1. \A r \in sessions' : r.code <= Len(codes')
      BY <1>4, BindKeepsCodes DEF CodeInv
    <2>2. ASSUME NEW q \in sessions', NEW r \in sessions', q.code # NoCode, q.code = r.code
          PROVE  q = r
      <3> DEFINE S == Bindable(page[b].code)
      <3>1. \A x \in S, y \in sessions : x.code # NoCode /\ x.code = y.code => x = y
        BY DEF CodeInv, Bindable
      <3>2. \A x \in S : x \in sessions /\ Bound(x, page[b]).code = x.code
        BY DEF Bound, Session, Bindable
      <3>3. sessions' = (sessions \ S) \cup {Bound(x, page[b]) : x \in S}
        BY <1>4 DEF ApproveBind
      <3>4. \A x, y \in sessions : x.code # NoCode /\ x.code = y.code => x = y
        BY DEF CodeInv
      <3> HIDE DEF S
      <3> QED
        BY <2>2, <3>1, <3>2, <3>3, <3>4
    <2> QED
      BY <2>1, <2>2 DEF CodeInv
  <1> QED
    BY <1>1, <1>2, <1>3, <1>4, SessionsStep DEF Issuing, Starting

LEMMA CodeAlways == Spec => []CodeInv
  <1>1. Init => CodeInv
    BY DEF Init, CodeInv
  <1> QED
    BY <1>1, CodeStep, TypeAlways, PTL DEF Spec

\* Two approvals of one code: the token of the first stays.
THEOREM FirstApprovalHolds == Spec => FirstApprovalWins
  <1> DEFINE Step ==
        \A s \in sessions : s.code # NoCode /\ s.token # NoToken =>
          \A r \in sessions' : r.code = s.code => r = s
  <1>1. TypeInv /\ CodeInv /\ [Next]_vars => [Step]_sessions
    <2> SUFFICES ASSUME TypeInv, CodeInv, [Next]_vars, NEW s \in sessions,
                        s.code # NoCode, s.token # NoToken,
                        NEW r \in sessions', r.code = s.code
                 PROVE  r = s
      OBVIOUS
    <2>0. s.code \in Nat /\ s.code <= Len(codes) /\ Len(codes) \in Nat
          /\ \A q \in sessions : q.code = s.code => q = s
      BY LenProperties DEF TypeInv, Rows, CodeInv
    <2>1. CASE Deleting
      BY <2>0, <2>1 DEF Deleting
    <2>2. ASSUME NEW n, NEW e, Inserted(Session(NoCode, Len(issued) + 1, n, e)) PROVE r = s
      BY <2>0, <2>2 DEF Inserted, Session
    <2>3. ASSUME NEW e, Inserted(Session(Len(codes) + 1, NoToken, NoName, e)) PROVE r = s
      BY <2>0, <2>3 DEF Inserted, Session
    <2>4. ASSUME NEW b \in Browsers, ApproveBind(b) PROVE r = s
      BY <2>0, <2>4, BindKeepsCodes
    <2> QED
      BY <2>1, <2>2, <2>3, <2>4, SessionsStep DEF Issuing, Starting
  <1> QED
    BY <1>1, TypeAlways, CodeAlways, PTL DEF Spec, FirstApprovalWins

-----------------------------------------------------------------------------
(* What a terminal's step makes of its token, its code and its credentials. *)

Waiting == {"wait", "answer", "token"}

\* A client keeps its token, takes that of its credentials, or reads one from
\* the row of its code; a code is its own or a new one.
ClientMoves(t) ==
  /\ \/ term'[t].token \in {NoToken, term[t].token, creds[t]}
     \/ /\ term[t].pc = "wait"
        /\ \E s \in RowsOfCode(term[t].code) : s.token # NoToken /\ term'[t].token = s.token
  /\ creds'[t] \in {NoToken, creds[t], term[t].token}
  /\ term'[t].pc \in Waiting =>
       \/ term[t].pc \in Waiting /\ term'[t].code = term[t].code
       \/ codes' = Append(codes, t) /\ term'[t].code = Len(codes) + 1
  /\ term'[t].pc = "in" => term'[t] = term[t] \/ term'[t].token # NoToken

LEMMA ClientStep ==
  ASSUME TypeInv, NEW t \in Terminals, TerminalStep(t)
  PROVE  /\ \A u \in Terminals : u # t => term'[u] = term[u] /\ creds'[u] = creds[u]
         /\ ClientMoves(t)
  <1>1. \A u \in Terminals : u # t => term'[u] = term[u] /\ creds'[u] = creds[u]
    BY DEF TypeInv, TerminalStep, LoginStep, Boot, CachedOk, CachedFailed, StartDeviceAuth,
       StartFailed, PollRefused, PollGone, PollPending, PollRead, PollAnswered, PollDropped,
       GiveUp, Validate, TerminalLogout, Quit, Fail, KeepWaiting, SetTerm, SetCreds
  <1> SUFFICES ClientMoves(t)
    BY <1>1
  <1>2. term[t] \in Clients /\ creds[t] \in Nat
        /\ \A r : SetTerm(t, r) => term'[t] = r
        /\ \A tok : SetCreds(t, tok) => creds'[t] = tok
    BY DEF TypeInv, SetTerm, SetCreds
  <1>3. Off.pc = "off" /\ Off.token = NoToken
    BY DEF Off
  <1>4. ASSUME NEW reason \in {"throttled", "network", "gone", "late", "invalid"},
               Fail(t, reason), creds' = creds
        PROVE  ClientMoves(t)
    <2> DEFINE r == [Off EXCEPT !.pc = "failed", !.why = reason]
    <2>1. r.pc = "failed" /\ r.token = NoToken
      BY DEF Off
    <2>2. term'[t] = r
      BY <1>2, <1>4 DEF Fail
    <2> HIDE DEF r
    <2> QED
      BY <1>4, <2>1, <2>2 DEF ClientMoves, Waiting
  <1>5. CASE Boot(t)
    <2>1. PICK pc \in {"start", "cached"} : SetTerm(t, [Off EXCEPT !.pc = pc])
      BY <1>5 DEF Boot
    <2> DEFINE r == [Off EXCEPT !.pc = pc]
    <2>2. r.pc = pc /\ r.token = NoToken
      BY DEF Off
    <2>3. term'[t] = r
      BY <1>2, <2>1
    <2> HIDE DEF r
    <2> QED
      BY <1>5, <2>2, <2>3 DEF Boot, ClientMoves, Waiting
  <1>6. CASE CachedOk(t)
    <2> DEFINE r == [Off EXCEPT !.pc = "in", !.token = creds[t]]
    <2>1. r.pc = "in" /\ r.token = creds[t]
      BY <1>2 DEF Off
    <2>2. term'[t] = r /\ creds' = creds /\ creds[t] # NoToken
      BY <1>2, <1>6 DEF CachedOk, Authorized, Live
    <2> HIDE DEF r
    <2> QED
      BY <2>1, <2>2 DEF ClientMoves, Waiting
  <1>7. CASE CachedFailed(t)
    <2> DEFINE r == [Off EXCEPT !.pc = "start"]
    <2>1. r.pc = "start" /\ r.token = NoToken
      BY DEF Off
    <2>2. term'[t] = r /\ creds'[t] = NoToken
      BY <1>2, <1>7 DEF CachedFailed
    <2> HIDE DEF r
    <2> QED
      BY <2>1, <2>2 DEF ClientMoves, Waiting
  <1>8. CASE StartDeviceAuth(t)
    <2>1. CASE Fail(t, "throttled")
      BY <1>4, <1>8, <2>1 DEF StartDeviceAuth
    <2>2. CASE /\ codes' = Append(codes, t)
               /\ SetTerm(t, [Off EXCEPT !.pc = "wait", !.code = Len(codes) + 1,
                                         !.deadline = clock + TTL, !.next = clock])
      <3> DEFINE r == [Off EXCEPT !.pc = "wait", !.code = Len(codes) + 1,
                                  !.deadline = clock + TTL, !.next = clock]
      <3>1. r.pc = "wait" /\ r.token = NoToken /\ r.code = Len(codes) + 1
        BY DEF Off
      <3>2. term'[t] = r /\ creds' = creds
        BY <1>2, <1>8, <2>2 DEF StartDeviceAuth
      <3> HIDE DEF r
      <3> QED
        BY <2>2, <3>1, <3>2 DEF ClientMoves, Waiting
    <2> QED
      BY <1>8, <2>1, <2>2 DEF StartDeviceAuth
  <1>9. CASE StartFailed(t) \/ PollRefused(t) \/ PollGone(t) \/ GiveUp(t)
    BY <1>4, <1>9 DEF StartFailed, PollRefused, PollGone, GiveUp
  <1>10. CASE PollPending(t)
    <2> DEFINE r == [term[t] EXCEPT !.pc = "wait", !.next = clock + Interval]
    <2>1. r.pc = "wait" /\ r.token = term[t].token /\ r.code = term[t].code
      BY <1>2 DEF Clients
    <2>2. term'[t] = r /\ creds' = creds /\ term[t].pc = "wait"
      BY <1>2, <1>10 DEF PollPending, KeepWaiting, Polling, At
    <2> HIDE DEF r
    <2> QED
      BY <2>1, <2>2 DEF ClientMoves, Waiting
  <1>11. CASE PollRead(t)
    <2>1. PICK s \in RowsOfCode(term[t].code) :
            /\ s.token # NoToken
            /\ SetTerm(t, [term[t] EXCEPT !.pc = "answer", !.token = s.token])
      BY <1>11 DEF PollRead
    <2> DEFINE r == [term[t] EXCEPT !.pc = "answer", !.token = s.token]
    <2>2. r.pc = "answer" /\ r.token = s.token /\ r.code = term[t].code
      BY <1>2 DEF Clients
    <2>3. term'[t] = r /\ creds' = creds /\ term[t].pc = "wait"
      BY <1>2, <1>11, <2>1 DEF PollRead, Polling, At
    <2> HIDE DEF r
    <2> QED
      BY <2>1, <2>2, <2>3 DEF ClientMoves, Waiting
  <1>12. CASE PollAnswered(t) \/ PollDropped(t)
    <2>1. CASE SetTerm(t, [term[t] EXCEPT !.pc = "token"])
      <3> DEFINE r == [term[t] EXCEPT !.pc = "token"]
      <3>1. r.pc = "token" /\ r.token = term[t].token /\ r.code = term[t].code
        BY <1>2 DEF Clients
      <3>2. term'[t] = r /\ creds' = creds /\ term[t].pc \in Waiting
        BY <1>2, <1>12, <2>1 DEF PollAnswered, PollDropped, Polling, At, Waiting
      <3> HIDE DEF r
      <3> QED
        BY <3>1, <3>2 DEF ClientMoves, Waiting
    <2>2. CASE SetTerm(t, [term[t] EXCEPT !.pc = "wait", !.token = NoToken,
                                          !.next = clock + Interval])
      <3> DEFINE r == [term[t] EXCEPT !.pc = "wait", !.token = NoToken,
                                      !.next = clock + Interval]
      <3>1. r.pc = "wait" /\ r.token = NoToken /\ r.code = term[t].code
        BY <1>2 DEF Clients
      <3>2. term'[t] = r /\ creds' = creds /\ term[t].pc \in Waiting
        BY <1>2, <1>12, <2>2 DEF PollAnswered, PollDropped, Polling, At, Waiting
      <3> HIDE DEF r
      <3> QED
        BY <3>1, <3>2 DEF ClientMoves, Waiting
    <2> QED
      BY <1>12, <2>1, <2>2 DEF PollAnswered, PollDropped
  <1>13. CASE Validate(t)
    <2>1. CASE Fail(t, "invalid") /\ creds' = creds
      BY <1>4, <2>1
    <2>2. CASE /\ Authorized(term[t].token) /\ SetCreds(t, term[t].token)
               /\ SetTerm(t, [Off EXCEPT !.pc = "in", !.token = term[t].token])
      <3> DEFINE r == [Off EXCEPT !.pc = "in", !.token = term[t].token]
      <3>1. r.pc = "in" /\ r.token = term[t].token
        BY DEF Off
      <3>2. term'[t] = r /\ creds'[t] = term[t].token /\ term[t].token # NoToken
        BY <1>2, <2>2 DEF Authorized, Live
      <3> HIDE DEF r
      <3> QED
        BY <3>1, <3>2 DEF ClientMoves, Waiting
    <2> QED
      BY <1>13, <2>1, <2>2 DEF Validate
  <1>14. CASE TerminalLogout(t)
    <2>0. creds' = [creds EXCEPT ![t] = NoToken] /\ term[t].pc = "in"
      BY <1>14, Zenon DEF TerminalLogout, SetCreds, At
    <2>1. creds'[t] = NoToken /\ term[t].pc = "in"
      BY <2>0 DEF TypeInv
    <2>2. CASE term' = term
      BY <2>1, <2>2 DEF ClientMoves, Waiting
    <2>3. CASE SetTerm(t, Off)
      BY <1>2, <1>3, <2>1, <2>3 DEF ClientMoves, Waiting
    <2> QED
      BY <1>14, <2>2, <2>3 DEF TerminalLogout, SetTerm
  <1>15. CASE Quit(t)
    <2>1. term'[t] = Off /\ creds'[t] = creds[t]
      BY <1>2, <1>15 DEF Quit
    <2> QED
      BY <1>3, <2>1 DEF ClientMoves, Waiting
  <1> QED
    BY <1>1, <1>5, <1>6, <1>7, <1>8, <1>9, <1>10, <1>11, <1>12, <1>13, <1>14, <1>15
    DEF TerminalStep, LoginStep

\* A browser's page and cookie.
Reads(b) ==
  /\ page'[b].token = cookie[b] /\ cookie[b] # NoToken /\ RowsOf(cookie[b]) # {}
  /\ UNCHANGED <<sessions, issued, loggedOut, overlapped>>

BrowserMoves(b) ==
  /\ \/ page'[b] = page[b]
     \/ page'[b].op # "bind" /\ page'[b].token \in {NoToken, page[b].token}
     \/ Reads(b)
  /\ \/ cookie'[b] \in {NoToken, cookie[b]}
     \/ Issuing /\ cookie'[b] = Len(issued) + 1

LEMMA BrowserStepMoves ==
  ASSUME TypeInv, NEW b \in Browsers, BrowserStep(b)
  PROVE  /\ \A d \in Browsers : d # b => page'[d] = page[d] /\ cookie'[d] = cookie[d]
         /\ BrowserMoves(b)
  <1>1. \A d \in Browsers : d # b => page'[d] = page[d] /\ cookie'[d] = cookie[d]
    BY DEF TypeInv, BrowserStep, SignupCheck, SignupCreate, SignupIssue, SignupLost, LogIn, LogOut,
       ApproveRead, ApproveBind, SetPage, SetCookie
  <1> SUFFICES BrowserMoves(b)
    BY <1>1
  <1>2. page[b] \in Pages /\ (\A p : SetPage(b, p) => page'[b] = p)
        /\ \A tok : SetCookie(b, tok) => cookie'[b] = tok
    BY DEF TypeInv, SetPage, SetCookie
  <1>3. NoPage.op # "bind" /\ NoPage.token = NoToken
    BY DEF NoPage
  <1>4. ASSUME NEW n \in Names, NEW e \in Emails, SignupCheck(b, n, e) PROVE BrowserMoves(b)
    <2> DEFINE p == [NoPage EXCEPT !.op = "create", !.name = n, !.email = e]
    <2>1. p.op = "create" /\ p.token = NoToken
      BY DEF NoPage
    <2>2. page'[b] = p /\ cookie'[b] = NoToken
      BY <1>2, <1>4 DEF SignupCheck
    <2> HIDE DEF p
    <2> QED
      BY <2>1, <2>2 DEF BrowserMoves
  <1>5. CASE SignupCreate(b)
    <2> DEFINE p == [page[b] EXCEPT !.op = "issue"]
    <2>1. p.op = "issue" /\ p.token = page[b].token
      BY <1>2 DEF Pages
    <2>2. page'[b] \in {p, NoPage} /\ cookie' = cookie
      BY <1>2, <1>5 DEF SignupCreate
    <2> HIDE DEF p
    <2> QED
      BY <1>3, <2>1, <2>2 DEF BrowserMoves
  <1>6. CASE SignupIssue(b)
    <2>1. page[b].name \in AnyName
      BY <1>2 DEF Pages
    <2>2. Issuing
      BY <1>6, <2>1, TypeIssue DEF SignupIssue, IssueSession, Issuing, Inserted
    <2> QED
      BY <1>2, <1>3, <1>6, <2>2 DEF SignupIssue, BrowserMoves
  <1>7. CASE SignupLost(b) \/ ApproveBind(b)
    BY <1>2, <1>3, <1>7 DEF SignupLost, ApproveBind, BrowserMoves
  <1>8. ASSUME NEW u \in users, LogIn(b, u) PROVE BrowserMoves(b)
    <2>1. u.name \in AnyName
      BY DEF TypeInv
    <2>2. Issuing
      BY <1>8, <2>1, TypeIssue DEF LogIn, IssueSession, Issuing, Inserted
    <2> QED
      BY <1>2, <1>8, <2>2 DEF LogIn, BrowserMoves
  <1>9. CASE LogOut(b)
    BY <1>2, <1>9 DEF LogOut, BrowserMoves
  <1>10. ASSUME NEW c \in DOMAIN codes, ApproveRead(b, c) PROVE BrowserMoves(b)
    <2>1. PICK s \in RowsOf(cookie[b]) :
            SetPage(b, [NoPage EXCEPT !.op = "bind", !.code = c, !.token = cookie[b],
                          !.name = issued[cookie[b]].user, !.expires = s.expires])
      BY <1>10 DEF ApproveRead
    <2> DEFINE p == [NoPage EXCEPT !.op = "bind", !.code = c, !.token = cookie[b],
                       !.name = issued[cookie[b]].user, !.expires = s.expires]
    <2>2. p.token = cookie[b]
      BY DEF NoPage
    <2>3. page'[b] = p /\ cookie' = cookie /\ cookie[b] # NoToken
      BY <1>2, <1>10, <2>1 DEF ApproveRead, LoggedIn, Live
    <2> HIDE DEF p
    <2> QED
      BY <1>10, <2>1, <2>2, <2>3 DEF ApproveRead, Reads, BrowserMoves, tables, history
  <1> QED
    BY <1>4, <1>5, <1>6, <1>7, <1>8, <1>9, <1>10 DEF BrowserStep

-----------------------------------------------------------------------------
(* Tokens.  Every token anybody holds has been issued, so that a new one   *)
(* is new; an approval that is about to bind a token read a row of it.     *)

TokenInv ==
  /\ \A s \in sessions : s.token <= Len(issued)
  /\ \A b \in Browsers : cookie[b] <= Len(issued) /\ page[b].token <= Len(issued)
  /\ \A t \in Terminals :
       /\ term[t].token <= Len(issued) /\ creds[t] <= Len(issued)
       /\ term[t].pc = "in" => term[t].token # NoToken

LEMMA TokenStep == TypeInv /\ CodeInv /\ TokenInv /\ [Next]_vars => TokenInv'
  <1> SUFFICES ASSUME TypeInv, CodeInv, TokenInv, [Next]_vars PROVE TokenInv'
    OBVIOUS
  <1>0. Len(issued) \in Nat /\ \A s \in sessions : s.token \in Nat
    BY LenProperties DEF TypeInv, Rows
  <1>1. Len(issued') \in Nat /\ Len(issued) <= Len(issued')
        /\ \A s \in sessions' : s.token <= Len(issued')
    <2>1. CASE Deleting
      BY <1>0, <2>1 DEF Deleting, TokenInv
    <2>2. CASE Issuing
      <3>1. PICK n, e : Inserted(Session(NoCode, Len(issued) + 1, n, e))
        BY <2>2 DEF Issuing
      <3>2. Session(NoCode, Len(issued) + 1, n, e).token = Len(issued) + 1
        BY DEF Session
      <3>3. \A s \in sessions : s.token <= Len(issued)
        BY DEF TokenInv
      <3> QED
        BY <1>0, <2>2, <3>1, <3>2, <3>3 DEF Issuing, Inserted
    <2>3. CASE Starting
      <3>1. PICK e : Inserted(Session(Len(codes) + 1, NoToken, NoName, e))
        BY <2>3 DEF Starting
      <3>2. Session(Len(codes) + 1, NoToken, NoName, e).token = 0
        BY DEF Session, NoToken
      <3>3. \A s \in sessions : s.token <= Len(issued)
        BY DEF TokenInv
      <3> QED
        BY <1>0, <2>3, <3>1, <3>2, <3>3 DEF Starting, Inserted
    <2>4. ASSUME NEW b \in Browsers, ApproveBind(b)
          PROVE  Len(issued') = Len(issued) /\ \A s \in sessions' : s.token <= Len(issued)
      <3>1. \A r \in sessions' : r \in sessions \/ r.token = page[b].token
        BY <2>4, BindKeepsCodes
      <3> QED
        BY <2>4, <3>1 DEF ApproveBind, TokenInv
    <2> QED
      BY <1>0, <2>1, <2>2, <2>3, <2>4, SessionsStep
  <1>2. \A b \in Browsers : cookie'[b] <= Len(issued') /\ page'[b].token <= Len(issued')
    <2>0. \A b \in Browsers : cookie[b] \in Nat /\ page[b].token \in Nat
                              /\ cookie[b] <= Len(issued) /\ page[b].token <= Len(issued)
      BY DEF TypeInv, Pages, TokenInv
    <2>1. CASE UNCHANGED <<cookie, page>>
      BY <1>0, <1>1, <2>0, <2>1
    <2>2. ASSUME NEW b \in Browsers, BrowserStep(b), NEW d \in Browsers
          PROVE  cookie'[d] <= Len(issued') /\ page'[d].token <= Len(issued')
      <3>1. CASE d # b
        BY <1>0, <1>1, <2>0, <2>2, <3>1, BrowserStepMoves
      <3>2. CASE d = b
        <4>1. BrowserMoves(b)
          BY <2>2, BrowserStepMoves
        <4>2. page'[b].token \in {page[b].token, NoToken, cookie[b]}
          BY <4>1 DEF BrowserMoves, Reads
        <4>3. cookie'[b] \in {NoToken, cookie[b]} \/ cookie'[b] = Len(issued')
          BY <4>1 DEF BrowserMoves, Issuing
        <4> QED
          BY <1>0, <1>1, <2>0, <3>2, <4>2, <4>3 DEF NoToken
      <3> QED
        BY <3>1, <3>2
    <2>3. ASSUME NEW t \in Terminals, TerminalStep(t) PROVE UNCHANGED <<cookie, page>>
      BY <2>3 DEF TerminalStep, LoginStep, Boot, CachedOk, CachedFailed, StartDeviceAuth,
         StartFailed, PollRefused, PollGone, PollPending, PollRead, PollAnswered, PollDropped,
         GiveUp, Validate, TerminalLogout, Quit
    <2> QED
      BY <2>1, <2>2, <2>3 DEF Next, Tick, vars, clients
  <1>3. \A t \in Terminals :
          /\ term'[t].token <= Len(issued') /\ creds'[t] <= Len(issued')
          /\ term'[t].pc = "in" => term'[t].token # NoToken
    <2>0. \A t \in Terminals :
            /\ term[t].token \in Nat /\ creds[t] \in Nat
            /\ term[t].token <= Len(issued) /\ creds[t] <= Len(issued)
            /\ term[t].pc = "in" => term[t].token # NoToken
      BY DEF TypeInv, Clients, TokenInv
    <2>1. CASE UNCHANGED <<term, creds>>
      BY <1>0, <1>1, <2>0, <2>1
    <2>2. ASSUME NEW t \in Terminals, TerminalStep(t), NEW u \in Terminals
          PROVE  /\ term'[u].token <= Len(issued') /\ creds'[u] <= Len(issued')
                 /\ term'[u].pc = "in" => term'[u].token # NoToken
      <3>1. CASE u # t
        BY <1>0, <1>1, <2>0, <2>2, <3>1, ClientStep
      <3>2. CASE u = t
        <4>1. ClientMoves(t)
          BY <2>2, ClientStep
        <4>2. term'[t].token \in {NoToken, term[t].token, creds[t]}
              \/ \E s \in sessions : term'[t].token = s.token
          BY <4>1 DEF ClientMoves, RowsOfCode
        <4>3. creds'[t] \in {NoToken, creds[t], term[t].token}
              /\ (term'[t].pc = "in" => term'[t].token # NoToken)
          BY <2>0, <4>1 DEF ClientMoves
        <4>4. \A s \in sessions : s.token <= Len(issued)
          BY DEF TokenInv
        <4> QED
          BY <1>0, <1>1, <2>0, <3>2, <4>2, <4>3, <4>4 DEF NoToken
      <3> QED
        BY <3>1, <3>2
    <2>3. ASSUME NEW b \in Browsers, BrowserStep(b) PROVE UNCHANGED <<term, creds>>
      BY <2>3 DEF BrowserStep, SignupCheck, SignupCreate, SignupIssue, SignupLost, LogIn, LogOut,
         ApproveRead, ApproveBind
    <2> QED
      BY <2>1, <2>2, <2>3 DEF Next, Tick, vars, clients
  <1> QED
    BY <1>1, <1>2, <1>3 DEF TokenInv

LEMMA TokenAlways == Spec => []TokenInv
  <1>1. Init => TokenInv
    <2> SUFFICES ASSUME Init PROVE TokenInv
      OBVIOUS
    <2>1. Len(issued) = 0 /\ NoPage.token = 0 /\ Off.token = 0 /\ Off.pc = "off"
      BY DEF Init, NoPage, Off, NoToken
    <2> QED
      BY <2>1 DEF Init, TokenInv, NoToken
  <1> QED
    BY <1>1, TokenStep, TypeAlways, CodeAlways, PTL DEF Spec

LogoutInv ==
  /\ \A tok \in loggedOut : tok \in Nat /\ tok # NoToken /\ tok <= Len(issued)
  /\ LoggedOutIsOut
  /\ \A b \in Browsers :
       page[b].op = "bind" =>
         page[b].token # NoToken /\ page[b].token \notin loggedOut \ overlapped

LEMMA LogoutStep ==
  ASSUME LogoutInv, NEW tok \in Nat, tok # NoToken, tok <= Len(issued), Logout(tok),
         UNCHANGED <<page, issued>>
  PROVE  LogoutInv'
  <1>1. \A b \in Browsers : page[b].op = "bind" /\ page[b].token = tok => tok \in overlapped'
    BY DEF Logout
  <1>2. LoggedOutIsOut'
    BY DEF Logout, Revoked, LogoutInv, LoggedOutIsOut, RowsOf
  <1>3. loggedOut' = loggedOut \cup {tok} /\ overlapped \subseteq overlapped'
    BY DEF Logout
  <1> QED
    BY <1>1, <1>2, <1>3 DEF LogoutInv

\* Who logs out holds the token he logs out.
LEMMA WhoLogsOut ==
  ASSUME TypeInv, TokenInv, [Next]_vars
  PROVE  \/ UNCHANGED <<loggedOut, overlapped>>
         \/ \E tok \in Nat : /\ tok # NoToken /\ tok <= Len(issued) /\ Logout(tok)
                             /\ UNCHANGED <<page, issued>>
  <1>1. ASSUME NEW b \in Browsers, LogOut(b)
        PROVE  \E tok \in Nat : /\ tok # NoToken /\ tok <= Len(issued) /\ Logout(tok)
                                /\ UNCHANGED <<page, issued>>
    <2>1. cookie[b] \in Nat /\ cookie[b] <= Len(issued)
      BY DEF TypeInv, TokenInv
    <2> QED
      BY <1>1, <2>1 DEF LogOut
  <1>2. ASSUME NEW t \in Terminals, TerminalLogout(t)
        PROVE  \/ UNCHANGED <<loggedOut, overlapped>>
               \/ \E tok \in Nat : /\ tok # NoToken /\ tok <= Len(issued) /\ Logout(tok)
                                   /\ UNCHANGED <<page, issued>>
    <2>1. term[t].token \in Nat /\ term[t].token <= Len(issued)
          /\ (term[t].pc = "in" => term[t].token # NoToken)
      BY DEF TypeInv, Clients, TokenInv
    <2> QED
      BY <1>2, <2>1 DEF TerminalLogout, At, history
  <1>3. ASSUME NEW b \in Browsers, BrowserStep(b), ~LogOut(b)
        PROVE  UNCHANGED <<loggedOut, overlapped>>
    BY <1>3 DEF BrowserStep, SignupCheck, SignupCreate, SignupIssue, SignupLost, LogIn,
       ApproveRead, ApproveBind, history
  <1>4. ASSUME NEW t \in Terminals, TerminalStep(t), ~TerminalLogout(t)
        PROVE  UNCHANGED <<loggedOut, overlapped>>
    BY <1>4 DEF TerminalStep, LoginStep, Boot, CachedOk, CachedFailed, StartDeviceAuth,
       StartFailed, PollRefused, PollGone, PollPending, PollRead, PollAnswered, PollDropped,
       GiveUp, Validate, Quit, history
  <1> QED
    BY <1>1, <1>2, <1>3, <1>4 DEF Next, Tick, vars, history

LEMMA LogoutNext ==
  TypeInv /\ CodeInv /\ TokenInv /\ LogoutInv /\ [Next]_vars => LogoutInv'
  <1> SUFFICES ASSUME TypeInv, CodeInv, TokenInv, LogoutInv, [Next]_vars,
                      UNCHANGED <<loggedOut, overlapped>>
               PROVE  LogoutInv'
    BY WhoLogsOut, LogoutStep
  <1>0. Len(issued) \in Nat
    BY LenProperties DEF TypeInv
  <1>1. \A s \in sessions' : s.token \notin loggedOut \ overlapped
    <2>0. \A s \in sessions : s.token \notin loggedOut \ overlapped
      BY DEF LogoutInv, LoggedOutIsOut, RowsOf
    <2>1. CASE Deleting
      BY <2>0, <2>1 DEF Deleting
    <2>2. CASE Issuing
      <3>1. PICK n, e : Inserted(Session(NoCode, Len(issued) + 1, n, e))
        BY <2>2 DEF Issuing
      <3>2. Session(NoCode, Len(issued) + 1, n, e).token = Len(issued) + 1
        BY DEF Session
      <3>3. Len(issued) + 1 \notin loggedOut
        BY <1>0 DEF LogoutInv
      <3> QED
        BY <2>0, <3>1, <3>2, <3>3 DEF Inserted
    <2>3. CASE Starting
      <3>1. PICK e : Inserted(Session(Len(codes) + 1, NoToken, NoName, e))
        BY <2>3 DEF Starting
      <3>2. Session(Len(codes) + 1, NoToken, NoName, e).token = NoToken
        BY DEF Session
      <3>3. NoToken \notin loggedOut
        BY DEF LogoutInv
      <3> QED
        BY <2>0, <3>1, <3>2, <3>3 DEF Inserted
    <2>4. ASSUME NEW b \in Browsers, ApproveBind(b)
          PROVE  \A s \in sessions' : s.token \notin loggedOut \ overlapped
      <3>1. \A r \in sessions' : r \in sessions \/ r.token = page[b].token
        BY <2>4, BindKeepsCodes
      <3>2. page[b].token \notin loggedOut \ overlapped
        BY <2>4 DEF ApproveBind, LogoutInv
      <3> QED
        BY <2>0, <3>1, <3>2
    <2> QED
      BY <2>1, <2>2, <2>3, <2>4, SessionsStep
  <1>2. LoggedOutIsOut'
    BY <1>1 DEF LoggedOutIsOut, RowsOf
  <1>3. \A tok \in loggedOut' : tok \in Nat /\ tok # NoToken /\ tok <= Len(issued')
    <2>1. issued' = issued \/ Len(issued') = Len(issued) + 1
      BY SessionsStep DEF Deleting, Issuing, Starting, ApproveBind
    <2> QED
      BY <1>0, <2>1 DEF LogoutInv
  <1>4. ASSUME NEW d \in Browsers, page'[d].op = "bind"
        PROVE  page'[d].token # NoToken /\ page'[d].token \notin loggedOut \ overlapped
    <2>0. page[d].op = "bind" =>
            page[d].token # NoToken /\ page[d].token \notin loggedOut \ overlapped
      BY DEF LogoutInv
    <2>1. CASE page' = page
      BY <1>4, <2>0, <2>1
    <2>2. ASSUME NEW b \in Browsers, BrowserStep(b)
          PROVE  page'[d] = page[d] \/ Reads(d)
      BY <1>4, <2>2, BrowserStepMoves DEF BrowserMoves
    <2>3. CASE Reads(d)
      BY <2>3 DEF Reads, LogoutInv, LoggedOutIsOut
    <2>4. ASSUME NEW t \in Terminals, TerminalStep(t) PROVE page' = page
      BY <2>4 DEF TerminalStep, LoginStep, Boot, CachedOk, CachedFailed, StartDeviceAuth,
         StartFailed, PollRefused, PollGone, PollPending, PollRead, PollAnswered, PollDropped,
         GiveUp, Validate, TerminalLogout, Quit
    <2> QED
      BY <1>4, <2>0, <2>1, <2>2, <2>3, <2>4 DEF Next, Tick, vars, clients
  <1> QED
    BY <1>2, <1>3, <1>4 DEF LogoutInv

\* After a logout no row carries the token: a later approval cannot have read
\* it, a new token is another one.
THEOREM LoggedOutHolds == Spec => []LoggedOutIsOut
  <1>1. Init => LogoutInv
    BY DEF Init, LogoutInv, LoggedOutIsOut, NoPage
  <1>2. LogoutInv => LoggedOutIsOut
    BY DEF LogoutInv
  <1> QED
    BY <1>1, <1>2, LogoutNext, TypeAlways, CodeAlways, TokenAlways, PTL DEF Spec

-----------------------------------------------------------------------------
(* Approvals.  A bound row names an approval; a client that polls asks for *)
(* a code it started, so the token it reads was approved for it.           *)

BoundByApproval ==
  \A s \in sessions : s.code # NoCode /\ s.token # NoToken => <<s.code, s.token>> \in approved
OwnCode(t) == term[t].code \in DOMAIN codes /\ codes[term[t].code] = t
ApprovedFor(t, tok) == \E c \in DOMAIN codes : codes[c] = t /\ <<c, tok>> \in approved

ApprovedInv ==
  /\ BoundByApproval
  /\ \A t \in Terminals :
       /\ term[t].pc \in Waiting => OwnCode(t)
       /\ term[t].token # NoToken => ApprovedFor(t, term[t].token)
       /\ creds[t] # NoToken => ApprovedFor(t, creds[t])

\* The same after the step.
StillApprovedFor(t, tok) == \E c \in DOMAIN codes' : codes'[c] = t /\ <<c, tok>> \in approved'

\* Codes and approvals are only added.
LEMMA CodesGrow ==
  ASSUME TypeInv, [Next]_vars
  PROVE  /\ codes' = codes \/ \E t \in Terminals : codes' = Append(codes, t)
         /\ approved \subseteq approved'
  <1>1. ASSUME NEW b \in Browsers, BrowserStep(b) PROVE codes' = codes /\ approved \subseteq approved'
    BY <1>1 DEF BrowserStep, SignupCheck, SignupCreate, SignupIssue, SignupLost, LogIn, LogOut,
       Logout, ApproveRead, ApproveBind, tables, history
  <1>2. ASSUME NEW t \in Terminals, TerminalStep(t)
        PROVE  (codes' = codes \/ codes' = Append(codes, t)) /\ approved' = approved
    BY <1>2 DEF TerminalStep, LoginStep, Boot, CachedOk, CachedFailed, StartDeviceAuth,
       StartFailed, PollRefused, PollGone, PollPending, PollRead, PollAnswered, PollDropped,
       GiveUp, Validate, TerminalLogout, Logout, Quit, tables, history
  <1> QED
    BY <1>1, <1>2 DEF Next, Tick, vars, tables, history

LEMMA CodesKept ==
  ASSUME TypeInv, [Next]_vars, NEW c \in DOMAIN codes
  PROVE  c \in DOMAIN codes' /\ codes'[c] = codes[c]
  <1>1. codes \in Seq(Terminals)
    BY DEF TypeInv
  <1>2. ASSUME NEW t \in Terminals, codes' = Append(codes, t)
        PROVE  c \in DOMAIN codes' /\ codes'[c] = codes[c]
    BY <1>1, <1>2, LenProperties, AppendProperties
  <1> QED
    BY <1>2, CodesGrow

LEMMA ApprovalsKept ==
  ASSUME TypeInv, [Next]_vars, NEW t, NEW tok, ApprovedFor(t, tok)
  PROVE  StillApprovedFor(t, tok)
  <1>1. PICK c \in DOMAIN codes : codes[c] = t /\ <<c, tok>> \in approved
    BY DEF ApprovedFor
  <1> QED
    BY <1>1, CodesGrow, CodesKept DEF StillApprovedFor

LEMMA BoundStep ==
  ASSUME TypeInv, CodeInv, ApprovedInv, [Next]_vars
  PROVE  BoundByApproval'
  <1>0. BoundByApproval /\ approved \subseteq approved'
    BY CodesGrow DEF ApprovedInv
  <1>1. CASE Deleting
    BY <1>0, <1>1 DEF Deleting, BoundByApproval
  <1>2. CASE Issuing
    <2>1. PICK n, e : Inserted(Session(NoCode, Len(issued) + 1, n, e))
      BY <1>2 DEF Issuing
    <2>2. Session(NoCode, Len(issued) + 1, n, e).code = NoCode
      BY DEF Session
    <2> QED
      BY <1>0, <2>1, <2>2 DEF Inserted, BoundByApproval
  <1>3. CASE Starting
    <2>1. PICK e : Inserted(Session(Len(codes) + 1, NoToken, NoName, e))
      BY <1>3 DEF Starting
    <2>2. Session(Len(codes) + 1, NoToken, NoName, e).token = NoToken
      BY DEF Session
    <2> QED
      BY <1>0, <2>1, <2>2 DEF Inserted, BoundByApproval
  <1>4. ASSUME NEW b \in Browsers, ApproveBind(b) PROVE BoundByApproval'
    <2> DEFINE p == page[b]
    <2>1. \A s \in Bindable(p.code) : Bound(s, p).code = p.code /\ Bound(s, p).token = p.token
      BY DEF Bound, Session, Bindable
    <2>2. Bindable(p.code) # {} => <<p.code, p.token>> \in approved'
      BY <1>4 DEF ApproveBind
    <2>3. \A r \in sessions' :
            r \in sessions \/ \E s \in Bindable(p.code) : r = Bound(s, p)
      BY <1>4 DEF ApproveBind
    <2> HIDE DEF p
    <2> QED
      BY <1>0, <2>1, <2>2, <2>3 DEF BoundByApproval
  <1> QED
    BY <1>1, <1>2, <1>3, <1>4, SessionsStep

LEMMA ApprovedStep ==
  TypeInv /\ CodeInv /\ ApprovedInv /\ [Next]_vars => ApprovedInv'
  <1> SUFFICES ASSUME TypeInv, CodeInv, ApprovedInv, [Next]_vars, NEW u \in Terminals
               PROVE  /\ term'[u].pc \in Waiting => OwnCode(u)'
                      /\ term'[u].token # NoToken => StillApprovedFor(u, term'[u].token)
                      /\ creds'[u] # NoToken => StillApprovedFor(u, creds'[u])
    BY BoundStep DEF ApprovedInv, ApprovedFor, StillApprovedFor
  <1>0. /\ term[u].pc \in Waiting => OwnCode(u)
        /\ term[u].token # NoToken => ApprovedFor(u, term[u].token)
        /\ creds[u] # NoToken => ApprovedFor(u, creds[u])
    BY DEF ApprovedInv
  <1>1. CASE term'[u] = term[u] /\ creds'[u] = creds[u]
    <2>1. OwnCode(u) => OwnCode(u)'
      BY <1>1, CodesKept DEF OwnCode
    <2> QED
      BY <1>0, <1>1, <2>1, ApprovalsKept
  <1>2. CASE TerminalStep(u)
    <2>1. ClientMoves(u)
      BY <1>2, ClientStep
    <2>2. term'[u].pc \in Waiting => OwnCode(u)'
      <3>1. CASE term[u].pc \in Waiting /\ term'[u].code = term[u].code
        BY <1>0, <3>1, CodesKept DEF OwnCode
      <3>2. CASE codes' = Append(codes, u) /\ term'[u].code = Len(codes) + 1
        <4>1. codes \in Seq(Terminals)
          BY DEF TypeInv
        <4> QED
          BY <3>2, <4>1, LenProperties, AppendProperties DEF OwnCode
      <3> QED
        BY <2>1, <3>1, <3>2 DEF ClientMoves
    <2>3. ASSUME NEW s \in RowsOfCode(term[u].code), term[u].pc = "wait", s.token # NoToken
          PROVE  ApprovedFor(u, s.token)
      <3>1. OwnCode(u) /\ s.code = term[u].code /\ s \in sessions
        BY <1>0, <2>3 DEF Waiting, RowsOfCode
      <3>2. s.code # NoCode
        BY <3>1, LenProperties DEF OwnCode, NoCode, TypeInv
      <3>3. <<s.code, s.token>> \in approved
        BY <2>3, <3>1, <3>2 DEF ApprovedInv, BoundByApproval
      <3> QED
        BY <3>1, <3>3 DEF OwnCode, ApprovedFor
    <2>4. term'[u].token # NoToken => ApprovedFor(u, term'[u].token)
      BY <1>0, <2>1, <2>3 DEF ClientMoves
    <2>5. creds'[u] # NoToken => ApprovedFor(u, creds'[u])
      BY <1>0, <2>1 DEF ClientMoves
    <2>6. \A tok : ApprovedFor(u, tok) => StillApprovedFor(u, tok)
      BY ApprovalsKept
    <2> QED
      BY <2>2, <2>4, <2>5, <2>6
  <1>3. ASSUME NEW t \in Terminals, TerminalStep(t), t # u
        PROVE  term'[u] = term[u] /\ creds'[u] = creds[u]
    BY <1>3, ClientStep
  <1>4. ASSUME NEW b \in Browsers, BrowserStep(b) PROVE term' = term /\ creds' = creds
    BY <1>4 DEF BrowserStep, SignupCheck, SignupCreate, SignupIssue, SignupLost, LogIn, LogOut,
       ApproveRead, ApproveBind
  <1> QED
    BY <1>1, <1>2, <1>3, <1>4 DEF Next, Tick, vars, clients

\* A token that a terminal holds or keeps in its file was approved for a code
\* this terminal started.
THEOREM TokenWasApprovedHolds == Spec => []TokenWasApproved
  <1>1. Init => ApprovedInv
    <2>1. Off.pc = "off" /\ Off.token = NoToken
      BY DEF Off
    <2> QED
      BY <2>1 DEF Init, ApprovedInv, BoundByApproval, Waiting
  <1>2. TypeInv /\ ApprovedInv => TokenWasApproved
    BY DEF TypeInv, ApprovedInv, ApprovedFor, TokenWasApproved
  <1> QED
    BY <1>1, <1>2, ApprovedStep, TypeAlways, CodeAlways, PTL DEF Spec

-----------------------------------------------------------------------------
(* Users.  A page that is about to bind a token names the token's user, as *)
(* tokens are never signed anew.                                           *)

UserInv ==
  /\ RowsNameTheirUser
  /\ \A b \in Browsers :
       page[b].op = "bind" =>
         page[b].token # NoToken /\ page[b].name = issued[page[b].token].user

LEMMA IssuedKept ==
  ASSUME TypeInv, [Next]_vars
  PROVE  \A i \in 1..Len(issued) : issued'[i] = issued[i]
  <1>1. issued \in Seq([user : AnyName, expires : Moments])
    BY DEF TypeInv
  <1>2. ASSUME NEW n \in AnyName, IssueSession(n)
        PROVE  \A i \in 1..Len(issued) : issued'[i] = issued[i]
    <2> DEFINE jwt == [user |-> n, expires |-> clock + SessionTTL]
    <2>1. jwt \in [user : AnyName, expires : Moments] /\ issued' = Append(issued, jwt)
      BY <1>2, MomentsOf DEF IssueSession, TypeInv
    <2> HIDE DEF jwt
    <2> QED
      BY <1>1, <2>1, AppendProperties
  <1>3. ASSUME NEW b \in Browsers, BrowserStep(b)
        PROVE  issued' = issued \/ \E n \in AnyName : IssueSession(n)
    <2>1. page[b].name \in AnyName /\ \A u \in users : u.name \in AnyName
      BY DEF TypeInv, Pages
    <2> QED
      BY <1>3, <2>1 DEF BrowserStep, SignupCheck, SignupCreate, SignupIssue, SignupLost, LogIn,
         LogOut, ApproveRead, ApproveBind, tables
  <1>4. ASSUME NEW t \in Terminals, TerminalStep(t) PROVE issued' = issued
    BY <1>4 DEF TerminalStep, LoginStep, Boot, CachedOk, CachedFailed, StartDeviceAuth,
       StartFailed, PollRefused, PollGone, PollPending, PollRead, PollAnswered, PollDropped,
       GiveUp, Validate, TerminalLogout, Quit, tables
  <1> QED
    BY <1>2, <1>3, <1>4 DEF Next, Tick, vars, tables

\* The rows after a step that bind a token.
LEMMA UserRows ==
  ASSUME TypeInv, TokenInv, CodeInv, UserInv, [Next]_vars PROVE RowsNameTheirUser'
  <1>0. Len(issued) \in Nat /\ \A s \in sessions : s.token \in Nat /\ s.token <= Len(issued)
    BY LenProperties DEF TypeInv, TokenInv, Rows
  <1>1. \A s \in sessions : s.token # NoToken => s.user = issued'[s.token].user
    <2>1. \A s \in sessions : s.token # NoToken => s.token \in 1..Len(issued)
      BY <1>0 DEF NoToken
    <2> QED
      BY <2>1, IssuedKept DEF UserInv, RowsNameTheirUser
  <1>2. CASE Deleting
    BY <1>1, <1>2 DEF Deleting, RowsNameTheirUser
  <1>3. CASE Starting
    <2>1. PICK e : Inserted(Session(Len(codes) + 1, NoToken, NoName, e))
      BY <1>3 DEF Starting
    <2>2. Session(Len(codes) + 1, NoToken, NoName, e).token = NoToken
      BY DEF Session
    <2> QED
      BY <1>1, <2>1, <2>2 DEF Inserted, RowsNameTheirUser
  <1>4. ASSUME NEW b \in Browsers, ApproveBind(b) PROVE RowsNameTheirUser'
    <2>1. /\ issued' = issued /\ page[b].op = "bind"
          /\ sessions' = (sessions \ Bindable(page[b].code)) \cup
               {Bound(s, page[b]) : s \in Bindable(page[b].code)}
      BY <1>4 DEF ApproveBind
    <2>2. \A s : Bound(s, page[b]).token = page[b].token /\ Bound(s, page[b]).user = page[b].name
      BY DEF Bound, Session
    <2>3. page[b].name = issued[page[b].token].user
      BY <2>1 DEF UserInv
    <2> QED
      BY <1>1, <2>1, <2>2, <2>3 DEF RowsNameTheirUser
  <1>5. ASSUME NEW n \in AnyName, IssueSession(n) PROVE RowsNameTheirUser'
    <2> DEFINE jwt == [user |-> n, expires |-> clock + SessionTTL]
               row == Session(NoCode, Len(issued) + 1, n, clock + SessionTTL)
    <2>1. jwt \in [user : AnyName, expires : Moments] /\ jwt.user = n
          /\ issued' = Append(issued, jwt) /\ sessions' = sessions \cup {row}
          /\ issued \in Seq([user : AnyName, expires : Moments])
      BY <1>5, MomentsOf DEF IssueSession, TypeInv
    <2>2. row.token = Len(issued) + 1 /\ row.user = n
      BY DEF Session
    <2> HIDE DEF jwt, row
    <2>3. issued'[Len(issued) + 1] = jwt
      BY <2>1, AppendProperties
    <2> QED
      BY <1>1, <2>1, <2>2, <2>3 DEF RowsNameTheirUser
  <1>6. Issuing => \E n \in AnyName : IssueSession(n)
    <2>1. ASSUME NEW b \in Browsers, BrowserStep(b)
          PROVE  issued' = issued \/ \E n \in AnyName : IssueSession(n)
      <3>1. page[b].name \in AnyName /\ \A u \in users : u.name \in AnyName
        BY DEF TypeInv, Pages
      <3> QED
        BY <2>1, <3>1 DEF BrowserStep, SignupCheck, SignupCreate, SignupIssue, SignupLost, LogIn,
           LogOut, ApproveRead, ApproveBind, tables
    <2>2. ASSUME NEW t \in Terminals, TerminalStep(t) PROVE issued' = issued
      BY <2>2 DEF TerminalStep, LoginStep, Boot, CachedOk, CachedFailed, StartDeviceAuth,
         StartFailed, PollRefused, PollGone, PollPending, PollRead, PollAnswered, PollDropped,
         GiveUp, Validate, TerminalLogout, Quit, tables
    <2>3. Issuing => issued' # issued
      BY <1>0 DEF Issuing
    <2> QED
      BY <2>1, <2>2, <2>3 DEF Next, Tick, vars, tables
  <1> QED
    BY <1>2, <1>3, <1>4, <1>5, <1>6, SessionsStep

LEMMA UserStep == TypeInv /\ CodeInv /\ TokenInv /\ UserInv /\ [Next]_vars => UserInv'
  <1> SUFFICES ASSUME TypeInv, CodeInv, TokenInv, UserInv, [Next]_vars, NEW d \in Browsers,
                      page'[d].op = "bind"
               PROVE  page'[d].token # NoToken /\ page'[d].name = issued'[page'[d].token].user
    BY UserRows DEF UserInv
  <1>0. /\ Len(issued) \in Nat /\ \A b \in Browsers : page[b].token \in Nat /\ cookie[b] \in Nat
        /\ \A b \in Browsers : page[b].token <= Len(issued) /\ cookie[b] <= Len(issued)
    BY LenProperties DEF TypeInv, TokenInv, Pages
  <1>1. CASE page'[d] = page[d]
    <2>1. page[d].token # NoToken /\ page[d].name = issued[page[d].token].user
      BY <1>1 DEF UserInv
    <2>2. page[d].token \in 1..Len(issued)
      BY <1>0, <2>1 DEF NoToken
    <2> QED
      BY <1>1, <2>1, <2>2, IssuedKept
  <1>2. ASSUME NEW c \in DOMAIN codes, ApproveRead(d, c)
        PROVE  page'[d].token # NoToken /\ page'[d].name = issued'[page'[d].token].user
    <2>1. PICK s \in RowsOf(cookie[d]) :
            SetPage(d, [NoPage EXCEPT !.op = "bind", !.code = c, !.token = cookie[d],
                          !.name = issued[cookie[d]].user, !.expires = s.expires])
      BY <1>2 DEF ApproveRead
    <2> DEFINE p == [NoPage EXCEPT !.op = "bind", !.code = c, !.token = cookie[d],
                       !.name = issued[cookie[d]].user, !.expires = s.expires]
    <2>2. p.token = cookie[d] /\ p.name = issued[cookie[d]].user
      BY DEF NoPage
    <2>3. page'[d] = p
      BY <2>1 DEF SetPage, TypeInv
    <2>4. cookie[d] # NoToken /\ issued' = issued
      BY <1>2 DEF ApproveRead, LoggedIn, Live, tables
    <2> HIDE DEF p
    <2> QED
      BY <2>2, <2>3, <2>4
  <1>3. ASSUME NEW b \in Browsers, BrowserStep(b)
        PROVE  page'[d] = page[d] \/ \E c \in DOMAIN codes : ApproveRead(d, c)
    <2>1. CASE d # b
      BY <1>3, <2>1, BrowserStepMoves
    <2>2. CASE d = b /\ ~\E c \in DOMAIN codes : ApproveRead(b, c)
      <3>1. page[b] \in Pages /\ \A p : SetPage(b, p) => page'[b] = p
        BY DEF TypeInv, SetPage
      <3>2. ASSUME NEW n \in Names, NEW e \in Emails, SignupCheck(b, n, e) PROVE FALSE
        <4>1. page'[b] = [NoPage EXCEPT !.op = "create", !.name = n, !.email = e]
          BY <3>1, <3>2 DEF SignupCheck
        <4>2. page'[b].op = "create"
          BY <4>1 DEF NoPage
        <4> QED
          BY <2>2, <4>2
      <3>3. CASE SignupCreate(b)
        <4>1. page'[b] \in {NoPage, [page[b] EXCEPT !.op = "issue"]}
          BY <3>1, <3>3 DEF SignupCreate
        <4>2. page'[b].op \in {"idle", "issue"}
          BY <3>1, <4>1 DEF NoPage, Pages
        <4> QED
          BY <2>2, <4>2
      <3>4. CASE SignupIssue(b) \/ SignupLost(b) \/ ApproveBind(b)
        <4>1. page'[b] = NoPage
          BY <3>1, <3>4 DEF SignupIssue, SignupLost, ApproveBind
        <4> QED
          BY <2>2, <4>1 DEF NoPage
      <3>5. CASE LogOut(b) \/ \E u \in users : LogIn(b, u)
        BY <2>2, <3>5 DEF LogOut, LogIn
      <3> QED
        BY <1>3, <2>2, <3>2, <3>3, <3>4, <3>5 DEF BrowserStep
    <2> QED
      BY <2>1, <2>2
  <1>4. ASSUME NEW t \in Terminals, TerminalStep(t) PROVE page' = page
    BY <1>4 DEF TerminalStep, LoginStep, Boot, CachedOk, CachedFailed, StartDeviceAuth,
       StartFailed, PollRefused, PollGone, PollPending, PollRead, PollAnswered, PollDropped,
       GiveUp, Validate, TerminalLogout, Quit
  <1> QED
    BY <1>1, <1>2, <1>3, <1>4 DEF Next, Tick, vars, clients

\* However sign-ups, log-ins, logouts and approvals interleave, a row with a token
\* names the user the token was signed for (svc/auth.go:197).
THEOREM RowsNameTheirUserHolds == Spec => []RowsNameTheirUser
  <1>1. Init => UserInv
    BY DEF Init, UserInv, RowsNameTheirUser, NoPage
  <1>2. UserInv => RowsNameTheirUser
    BY DEF UserInv
  <1> QED
    BY <1>1, <1>2, UserStep, TypeAlways, CodeAlways, TokenAlways, PTL DEF Spec

-----------------------------------------------------------------------------
(* Types in full: what the wide types leave open is that a token is only   *)
(* ever signed for an account, by the page that has just created it or by  *)
(* a log-in.                                                               *)

HasAccount(n) == \E u \in users : u.name = n

AccountInv ==
  /\ users \subseteq [name: Names, email: Emails]
  /\ \A b \in Browsers :
       /\ page[b].op = "create" => page[b].name \in Names /\ page[b].email \in Emails
       /\ page[b].op = "issue" => HasAccount(page[b].name)
  /\ \A i \in DOMAIN issued : HasAccount(issued[i].user)
  /\ Len(issued) <= MaxTokens /\ Len(codes) <= MaxCodes

\* What a step does to a page, a table and the tokens, as far as it matters here.
Filled(p) == p.op = "create" => p.name \in Names /\ p.email \in Emails
SignedFor(n) ==
  /\ HasAccount(n) /\ Len(issued) < MaxTokens
  /\ issued' = Append(issued, [user |-> n, expires |-> clock + SessionTTL])

LEMMA AccountBrowser ==
  ASSUME TypeInv, AccountInv, NEW b \in Browsers, BrowserStep(b)
  PROVE  /\ users \subseteq users' /\ users' \subseteq [name: Names, email: Emails]
         /\ \A d \in Browsers : d # b => page'[d] = page[d]
         /\ Filled(page'[b]) /\ (page'[b].op = "issue" => HasAccount(page[b].name)')
         /\ codes' = codes
         /\ issued' = issued \/ \E n \in AnyName : SignedFor(n)
  <1>0. page[b] \in Pages /\ (\A p : SetPage(b, p) => page'[b] = p)
        /\ page[b].name \in AnyName /\ \A u \in users : u.name \in AnyName
    BY DEF TypeInv, SetPage, Pages
  <1>1. \A d \in Browsers : d # b => page'[d] = page[d]
    BY BrowserStepMoves
  <1>2. NoPage.op = "idle"
    BY DEF NoPage
  <1>3. ASSUME NEW n \in Names, NEW e \in Emails, SignupCheck(b, n, e)
        PROVE  Filled(page'[b]) /\ page'[b].op # "issue" /\ UNCHANGED <<users, codes, issued>>
    <2> DEFINE p == [NoPage EXCEPT !.op = "create", !.name = n, !.email = e]
    <2>1. p.op = "create" /\ p.name = n /\ p.email = e
      BY DEF NoPage
    <2>2. page'[b] = p
      BY <1>0, <1>3 DEF SignupCheck
    <2> HIDE DEF p
    <2> QED
      BY <1>3, <2>1, <2>2 DEF SignupCheck, Filled, tables
  <1>4. ASSUME SignupCreate(b)
        PROVE  /\ users \subseteq users' /\ users' \subseteq [name: Names, email: Emails]
               /\ Filled(page'[b]) /\ (page'[b].op = "issue" => HasAccount(page[b].name)')
               /\ UNCHANGED <<codes, issued>>
    <2> DEFINE p == [page[b] EXCEPT !.op = "issue"]
               new == [name |-> page[b].name, email |-> page[b].email]
    <2>1. p.op = "issue" /\ p.name = page[b].name
      BY <1>0 DEF Pages
    <2>2. new \in [name: Names, email: Emails] /\ new.name = page[b].name
      BY <1>4 DEF AccountInv, SignupCreate
    <2>3. \/ page'[b] = NoPage /\ users' = users
          \/ page'[b] = p /\ users' = users \cup {new}
      BY <1>0, <1>4 DEF SignupCreate
    <2> HIDE DEF p, new
    <2> QED
      BY <1>2, <1>4, <2>1, <2>2, <2>3 DEF SignupCreate, AccountInv, Filled, HasAccount
  <1>5. ASSUME SignupIssue(b)
        PROVE  /\ page'[b] = NoPage /\ UNCHANGED <<users, codes>> /\ SignedFor(page[b].name)
    BY <1>0, <1>5 DEF SignupIssue, IssueSession, SignedFor, AccountInv
  <1>6. ASSUME NEW u \in users, LogIn(b, u)
        PROVE  UNCHANGED <<page, users, codes>> /\ SignedFor(u.name)
    BY <1>6 DEF LogIn, IssueSession, SignedFor, HasAccount
  <1>7. ASSUME LogOut(b) PROVE UNCHANGED <<page, users, codes, issued>>
    BY <1>7 DEF LogOut
  <1>8. ASSUME SignupLost(b) \/ ApproveBind(b)
        PROVE  page'[b] = NoPage /\ UNCHANGED <<users, codes, issued>>
    BY <1>0, <1>8 DEF SignupLost, ApproveBind, tables
  <1>9. ASSUME NEW c \in DOMAIN codes, ApproveRead(b, c)
        PROVE  page'[b].op = "bind" /\ UNCHANGED <<users, codes, issued>>
    <2>1. PICK s \in RowsOf(cookie[b]) :
            SetPage(b, [NoPage EXCEPT !.op = "bind", !.code = c, !.token = cookie[b],
                          !.name = issued[cookie[b]].user, !.expires = s.expires])
      BY <1>9 DEF ApproveRead
    <2> DEFINE p == [NoPage EXCEPT !.op = "bind", !.code = c, !.token = cookie[b],
                       !.name = issued[cookie[b]].user, !.expires = s.expires]
    <2>2. p.op = "bind"
      BY DEF NoPage
    <2>3. page'[b] = p
      BY <1>0, <2>1
    <2> HIDE DEF p
    <2> QED
      BY <1>9, <2>2, <2>3 DEF ApproveRead, tables
  <1>10. /\ users \subseteq [name: Names, email: Emails]
         /\ Filled(page[b]) /\ (page[b].op = "issue" => HasAccount(page[b].name))
         /\ Filled(NoPage)
    BY <1>2 DEF AccountInv, Filled
  <1> QED
    BY <1>0, <1>1, <1>2, <1>3, <1>4, <1>5, <1>6, <1>7, <1>8, <1>9, <1>10
    DEF BrowserStep, Filled, HasAccount

LEMMA AccountTerminal ==
  ASSUME TypeInv, AccountInv, NEW t \in Terminals, TerminalStep(t)
  PROVE  UNCHANGED <<users, page, issued>> /\ Len(codes') <= MaxCodes
  <1>1. UNCHANGED <<users, page, issued>>
    BY DEF TerminalStep, LoginStep, Boot, CachedOk, CachedFailed, StartDeviceAuth, StartFailed,
       PollRefused, PollGone, PollPending, PollRead, PollAnswered, PollDropped, GiveUp, Validate,
       TerminalLogout, Quit, tables
  <1>2. CASE StartDeviceAuth(t)
    <2>1. codes \in Seq(Terminals) /\ Len(codes) \in Nat /\ Len(codes) < MaxCodes
      BY <1>2, LenProperties DEF TypeInv, StartDeviceAuth
    <2>2. codes' = codes \/ codes' = Append(codes, t)
      BY <1>2 DEF StartDeviceAuth
    <2>3. Len(codes') = Len(codes) \/ Len(codes') = Len(codes) + 1
      BY <2>1, <2>2, AppendProperties
    <2> QED
      BY <1>1, <2>1, <2>3, LoginConstantsOK
  <1>3. CASE ~StartDeviceAuth(t)
    <2>1. codes' = codes
      BY <1>3 DEF TerminalStep, LoginStep, Boot, CachedOk, CachedFailed, StartFailed,
         PollRefused, PollGone, PollPending, PollRead, PollAnswered, PollDropped, GiveUp,
         Validate, TerminalLogout, Quit, tables
    <2> QED
      BY <1>1, <2>1 DEF AccountInv
  <1> QED
    BY <1>2, <1>3

LEMMA AccountNext == TypeInv /\ AccountInv /\ [Next]_vars => AccountInv'
  <1> SUFFICES ASSUME TypeInv, AccountInv, [Next]_vars PROVE AccountInv'
    OBVIOUS
  <1>1. ASSUME UNCHANGED <<users, page, issued>>, Len(codes') <= MaxCodes PROVE AccountInv'
    BY <1>1 DEF AccountInv, HasAccount
  <1>2. CASE Tick \/ UNCHANGED vars
    BY <1>1, <1>2 DEF Tick, vars, tables, clients, AccountInv
  <1>3. ASSUME NEW t \in Terminals, TerminalStep(t) PROVE AccountInv'
    BY <1>1, <1>3, AccountTerminal
  <1>4. ASSUME NEW b \in Browsers, BrowserStep(b) PROVE AccountInv'
    <2>1. /\ users \subseteq users' /\ users' \subseteq [name: Names, email: Emails]
          /\ \A d \in Browsers : d # b => page'[d] = page[d]
          /\ Filled(page'[b]) /\ (page'[b].op = "issue" => HasAccount(page[b].name)')
          /\ codes' = codes
          /\ issued' = issued \/ \E n \in AnyName : SignedFor(n)
      BY <1>4, AccountBrowser
    <2>2. \A n : HasAccount(n) => HasAccount(n)'
      BY <2>1 DEF HasAccount
    <2>3. \A d \in Browsers :
            /\ page'[d].op = "create" => page'[d].name \in Names /\ page'[d].email \in Emails
            /\ page'[d].op = "issue" => HasAccount(page[d].name)'
      BY <2>1, <2>2 DEF AccountInv, Filled
    <2>4. Len(issued') <= MaxTokens /\ \A i \in DOMAIN issued' : HasAccount(issued[i].user)'
      <3>1. CASE issued' = issued
        BY <2>2, <3>1 DEF AccountInv
      <3>2. ASSUME NEW n \in AnyName, SignedFor(n)
            PROVE  Len(issued') <= MaxTokens /\ \A i \in DOMAIN issued' : HasAccount(issued[i].user)'
        <4> DEFINE jwt == [user |-> n, expires |-> clock + SessionTTL]
        <4>1. issued \in Seq([user : AnyName, expires : Moments])
              /\ jwt \in [user : AnyName, expires : Moments]
          BY MomentsOf DEF TypeInv
        <4>2. issued' = Append(issued, jwt) /\ Len(issued) < MaxTokens /\ HasAccount(n)
          BY <3>2 DEF SignedFor
        <4>3. jwt.user = n
          OBVIOUS
        <4> HIDE DEF jwt, Moments
        <4>4. /\ Len(issued') = Len(issued) + 1 /\ Len(issued) \in Nat
              /\ DOMAIN issued' = 1..(Len(issued) + 1) /\ DOMAIN issued = 1..Len(issued)
              /\ \A i \in 1..Len(issued) : issued'[i] = issued[i]
              /\ issued'[Len(issued) + 1] = jwt
          BY <4>1, <4>2, AppendProperties, LenProperties
        <4>5. ASSUME NEW i \in DOMAIN issued' PROVE HasAccount(issued[i].user)'
          <5>1. CASE i \in 1..Len(issued)
            BY <2>2, <4>4, <5>1 DEF AccountInv
          <5>2. CASE i = Len(issued) + 1
            BY <2>2, <4>2, <4>3, <4>4, <5>2
          <5> QED
            BY <4>4, <5>1, <5>2
        <4> QED
          BY <4>2, <4>4, <4>5, LoginConstantsOK
      <3> QED
        BY <2>1, <3>1, <3>2
    <2> QED
      BY <2>1, <2>3, <2>4 DEF AccountInv
  <1> QED
    BY <1>2, <1>3, <1>4 DEF Next

\* Every token is signed for an account that exists, every row, cookie, client
\* and credentials file holds a token that was issued, and no account has a name
\* or an address nobody typed (svc/auth.go:60-135).
THEOREM TypeCorrect == Spec => []TypeOK
  <1>1. Init => AccountInv
    BY LoginConstantsOK DEF Init, AccountInv, NoPage
  <1>2. TypeInv /\ CodeInv /\ TokenInv /\ AccountInv => TypeOK
    <2> SUFFICES ASSUME TypeInv, CodeInv, TokenInv, AccountInv PROVE TypeOK
      OBVIOUS
    <2>1. Moments \subseteq Nat
      BY LoginConstantsOK DEF Moments
    <2>2. Len(issued) \in Nat /\ Len(codes) \in Nat
      BY LenProperties DEF TypeInv
    <2>3. ASSUME NEW s \in sessions
          PROVE  s.code \in 0..Len(codes) /\ s.token \in 0..Len(issued) /\ s.expires \in Nat
      <3>1. s.code \in Nat /\ s.token \in Nat /\ s.expires \in Moments
        BY DEF TypeInv, Rows
      <3>2. s.code <= Len(codes) /\ s.token <= Len(issued)
        BY DEF CodeInv, TokenInv
      <3>3. s.expires \in Nat
        BY <2>1, <3>1
      <3> QED
        BY <2>2, <3>1, <3>2, <3>3
    <2>4. \A b \in Browsers : cookie[b] \in 0..Len(issued)
      BY <2>2 DEF TypeInv, TokenInv
    <2>5. ASSUME NEW t \in Terminals
          PROVE  creds[t] \in 0..Len(issued) /\ term[t].token \in 0..Len(issued)
      <3>1. creds[t] \in Nat /\ term[t].token \in Nat
        BY DEF TypeInv, Clients
      <3>2. creds[t] <= Len(issued) /\ term[t].token <= Len(issued)
        BY DEF TokenInv
      <3> QED
        BY <2>2, <3>1, <3>2
    <2> QED
      BY <2>3, <2>4, <2>5 DEF TypeOK, AccountInv, TypeInv, HasAccount
  <1> QED
    BY <1>1, <1>2, AccountNext, TypeAlways, CodeAlways, TokenAlways, PTL DEF Spec
=============================================================================
