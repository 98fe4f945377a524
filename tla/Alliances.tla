------------------------------ MODULE Alliances ------------------------------
(***************************************************************************)
(* Alliances and their members (svc/alliance.go over store/alliances.go).  *)
(* Founding is one transaction, the checks before it and those of a join   *)
(* or a departure are statements of their own: the UNIQUE constraints on   *)
(* tag, name and alliance_members.user_id decide races.  Nothing in the    *)
(* code deletes an alliance or hands its leadership over.                  *)
(***************************************************************************)
EXTENDS AllianceState, FiniteSets

CONSTANTS Users, Handlers, Tags, Titles, MaxAlliances

vars == <<alliances, members, req, departed>>

MembersOf(a) == {m \in members : m.alliance = a}
Affiliated(u) == \E m \in members : m.user = u

TypeOK ==
  /\ alliances \in Seq([tag: Tags, name: Titles, founder: Users])
  /\ members \subseteq [alliance: DOMAIN alliances, user: Users, role: {"leader", "member"}]
  /\ departed \subseteq (DOMAIN alliances) \X Users
  /\ \A h \in Handlers :
       /\ req[h].op \in {"idle", "create", "join", "count", "remove"}
       /\ req[h].op \in {"join", "count", "remove"} => req[h].id \in DOMAIN alliances

Init ==
  /\ alliances = <<>> /\ members = {} /\ departed = {}
  /\ req = [h \in Handlers |-> Free]

\* A new member of a: departures under way are no longer alone with it.
Witnessed(a, r) == [h \in Handlers |->
  IF r[h].op \in {"count", "remove"} /\ r[h].id = a THEN [r[h] EXCEPT !.alone = FALSE] ELSE r[h]]

\* A request of a logged-in user reaches its service.
Accept(h, r) == req[h] = Free /\ req' = [req EXCEPT ![h] = r]

\* Create: unaffiliated, and the tag is free.
CreateCheck(h, u, t, n) ==
  /\ ~Affiliated(u)
  /\ \A a \in DOMAIN alliances : alliances[a].tag # t
  /\ Len(alliances) < MaxAlliances
  /\ Accept(h, [Free EXCEPT !.op = "create", !.user = u, !.tag = t, !.name = n])
  /\ UNCHANGED <<alliances, members, departed>>

\* A UNIQUE constraint refuses the alliance row or the founder's member row.
CreateConflict(r) ==
  \/ \E a \in DOMAIN alliances : alliances[a].tag = r.tag \/ alliances[a].name = r.name
  \/ Affiliated(r.user)

\* The alliance rows after CreateAlliance commits or rolls back.
FoundedApart(r) ==
  IF \E a \in DOMAIN alliances : alliances[a].tag = r.tag \/ alliances[a].name = r.name
  THEN alliances
  ELSE Append(alliances, [tag |-> r.tag, name |-> r.name, founder |-> r.user])
Founded(r) ==
  IF CreateConflict(r) THEN alliances
  ELSE Append(alliances, [tag |-> r.tag, name |-> r.name, founder |-> r.user])

\* CreateAlliance, the alliance and its leader in one transaction.
CreateInsert(h) ==
  LET r == req[h] IN
  /\ r.op = "create"
  /\ Len(alliances) < MaxAlliances
  /\ alliances' = Founded(r)
  /\ members' = IF CreateConflict(r) THEN members
                ELSE members \cup
                  {[alliance |-> Len(alliances) + 1, user |-> r.user, role |-> "leader"]}
  /\ req' = [req EXCEPT ![h] = Free]
  /\ UNCHANGED departed

\* Join: unaffiliated (a member of it already is answered success).
JoinCheck(h, u, a) ==
  /\ ~Affiliated(u)
  /\ Accept(h, [Free EXCEPT !.op = "join", !.user = u, !.id = a])
  /\ UNCHANGED <<alliances, members, departed>>

\* UNIQUE (user_id) of alliance_members.
AlreadyIn(r) == \E m \in MembersOf(r.id) : m.user = r.user
JoinConflict(r) == Affiliated(r.user)

\* AddAllianceMember, or the constraint's error.
JoinInsert(h) ==
  LET r == req[h] IN
  /\ r.op = "join"
  /\ IF JoinConflict(r)
     THEN members' = members /\ req' = [req EXCEPT ![h] = Free]
     ELSE /\ members' = members \cup {[alliance |-> r.id, user |-> r.user, role |-> "member"]}
          /\ req' = Witnessed(r.id, [req EXCEPT ![h] = Free])
  /\ UNCHANGED <<alliances, departed>>

\* Leave: the caller is a member; a founder's departure counts the members.
LeaveCheck(h, u, a) ==
  /\ \E m \in MembersOf(a) : m.user = u
  /\ Accept(h, [Free EXCEPT !.user = u, !.id = a,
                            !.op = IF Founder(a) = u THEN "count" ELSE "remove"])
  /\ UNCHANGED <<alliances, members, departed>>

FewRemain(a) == Cardinality(MembersOf(a)) > 2
OthersRemain(a) == Cardinality(MembersOf(a)) > 1

LeaveCount(h) ==
  /\ req[h].op = "count"
  /\ req' = IF OthersRemain(req[h].id)
            THEN [req EXCEPT ![h] = Free]
            ELSE [req EXCEPT ![h].op = "remove"]
  /\ UNCHANGED <<alliances, members, departed>>

\* RemoveAllianceMember.
LeaveRemove(h) ==
  LET r == req[h] IN
  /\ r.op = "remove"
  /\ members' = {m \in members : ~(m.alliance = r.id /\ m.user = r.user)}
  /\ departed' = IF Founder(r.id) = r.user THEN departed \cup {<<r.id, r.user>>} ELSE departed
  /\ req' = [req EXCEPT ![h] = Free]
  /\ UNCHANGED alliances

\* The request is cancelled between two statements.
Cancelled(h) ==
  /\ req[h] # Free
  /\ req' = [req EXCEPT ![h] = Free]
  /\ UNCHANGED <<alliances, members, departed>>

Next ==
  \/ \E h \in Handlers, u \in Users :
       \/ \E t \in Tags, n \in Titles : CreateCheck(h, u, t, n)
       \/ \E a \in DOMAIN alliances : JoinCheck(h, u, a) \/ LeaveCheck(h, u, a)
  \/ \E h \in Handlers :
       CreateInsert(h) \/ JoinInsert(h) \/ LeaveCount(h) \/ LeaveRemove(h) \/ Cancelled(h)

Spec == Init /\ [][Next]_vars
=============================================================================
