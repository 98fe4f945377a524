---------------------------- MODULE AllianceState ----------------------------
(***************************************************************************)
(* The tables alliances and alliance_members with the requests under way,  *)
(* and what the service promises of them (svc/alliance.go).  Alliances has *)
(* the statements that change them.                                        *)
(***************************************************************************)
EXTENDS Integers, Sequences

VARIABLES
  alliances,   \* table alliances: [tag, name, founder]; an id is an index
  members,     \* table alliance_members: [alliance, user, role]
  req,         \* the request each handler works on
  departed     \* history: <<alliance, founder>> after the founder's departure

None == "none"
Free == [op |-> "idle", user |-> None, id |-> 0, tag |-> None, name |-> None, alone |-> TRUE]

Founder(a) == alliances[a].founder

\* One user is in at most one alliance (svc/alliance.go:17), although a join
\* and a founding of the same user check it before either writes.
OneAlliance == \A m, k \in members : m.user = k.user => m = k

\* An alliance exists with its founder as leader until the founder departs: a
\* founding that fails half-way, or loses a race, leaves no alliance behind.
FoundedWhole ==
  \A a \in DOMAIN alliances :
    \/ [alliance |-> a, user |-> Founder(a), role |-> "leader"] \in members
    \/ <<a, Founder(a)>> \in departed

\* The founder never walks out on members (svc/alliance.go:135 "cannot leave
\* while other members remain"), unless one of them joined during the very
\* request: count and removal are two statements.
FounderLeavesNobody ==
  [][\A h \in DOMAIN req :
       LET r == req[h] IN
       /\ r.op = "remove" /\ r.alone /\ Founder(r.id) = r.user
       /\ req'[h] = Free /\ members' # members
       => \A m \in members' : m.alliance # r.id]_<<alliances, members, req>>
=============================================================================
