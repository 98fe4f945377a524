--------------------------- MODULE AlliancesProofs ---------------------------
(***************************************************************************)
(* Alliances for any number of users, requests, tags and names: who is a   *)
(* member, and that no alliance is without its founder but by departure.   *)
(***************************************************************************)
EXTENDS Alliances, TLAPS, FiniteSetTheorems, SequenceTheorems

Ops == {"idle", "create", "join", "count", "remove"}
Request ==
  [op: Ops, user: Users \cup {None}, id: Nat,
   tag: Tags \cup {None}, name: Titles \cup {None}, alone: BOOLEAN]

\* What a request remembers between its statements: a user who asked, a tag and
\* a name to found with, an alliance that exists.
RequestsOK ==
  /\ req \in [Handlers -> Request]
  /\ \A h \in Handlers :
       /\ req[h].op # "idle" => req[h].user \in Users
       /\ req[h].op = "create" => req[h].tag \in Tags /\ req[h].name \in Titles
       /\ req[h].op \in {"join", "count", "remove"} => req[h].id \in DOMAIN alliances

TablesOK ==
  /\ alliances \in Seq([tag: Tags, name: Titles, founder: Users])
  /\ members \subseteq [alliance: DOMAIN alliances, user: Users, role: {"leader", "member"}]
  /\ departed \subseteq (DOMAIN alliances) \X Users

Inv == TablesOK /\ RequestsOK /\ OneAlliance /\ FoundedWhole

\* A handler without work holds a request too, the empty one.
LEMMA FreeRequest == Free \in Request /\ Free.op = "idle"
  BY DEF Free, Ops, Request

LEMMA InvType == Inv => TypeOK
  BY DEF Inv, TablesOK, RequestsOK, TypeOK, Ops, Request

LEMMA InitInv == Init => Inv
  BY FreeRequest DEF Init, Inv, TablesOK, RequestsOK, OneAlliance, FoundedWhole

\* A step that writes neither table and one request.
LEMMA RequestOnly ==
  ASSUME Inv, NEW h \in Handlers,
         NEW r \in Request,
         r.op # "idle" => r.user \in Users,
         r.op = "create" => r.tag \in Tags /\ r.name \in Titles,
         r.op \in {"join", "count", "remove"} => r.id \in DOMAIN alliances,
         req' = [req EXCEPT ![h] = r],
         UNCHANGED <<alliances, members, departed>>
  PROVE  Inv'
  <1>1. TablesOK' /\ OneAlliance' /\ FoundedWhole'
    BY DEF Inv, TablesOK, OneAlliance, FoundedWhole, Founder
  <1>2. RequestsOK'
    BY DEF Inv, RequestsOK
  <1> QED
    BY <1>1, <1>2 DEF Inv

LEMMA CheckInv ==
  ASSUME Inv, NEW h \in Handlers, NEW u \in Users,
         \/ \E t \in Tags, n \in Titles : CreateCheck(h, u, t, n)
         \/ \E a \in DOMAIN alliances : JoinCheck(h, u, a) \/ LeaveCheck(h, u, a)
  PROVE  Inv'
  <1>0. \A a \in DOMAIN alliances : a \in Nat
    <2>1. alliances \in Seq([tag: Tags, name: Titles, founder: Users])
      BY DEF Inv, TablesOK
    <2>2. DOMAIN alliances = 1..Len(alliances) /\ Len(alliances) \in Nat
      BY <2>1, LenProperties
    <2> QED
      BY <2>2
  <1>1. ASSUME NEW t \in Tags, NEW n \in Titles, CreateCheck(h, u, t, n) PROVE Inv'
    <2> DEFINE r == [Free EXCEPT !.op = "create", !.user = u, !.tag = t, !.name = n]
    <2>2. r \in Request /\ r.op = "create" /\ r.user = u /\ r.tag = t /\ r.name = n
      BY DEF Free, Ops, Request
    <2>3. req' = [req EXCEPT ![h] = r] /\ UNCHANGED <<alliances, members, departed>>
      BY <1>1 DEF CreateCheck, Accept
    <2> HIDE DEF r
    <2> QED
      BY <2>2, <2>3, RequestOnly
  <1>2. ASSUME NEW a \in DOMAIN alliances, JoinCheck(h, u, a) PROVE Inv'
    <2> DEFINE r == [Free EXCEPT !.op = "join", !.user = u, !.id = a]
    <2>2. r \in Request /\ r.op = "join" /\ r.user = u /\ r.id = a
      BY <1>0 DEF Free, Ops, Request
    <2>3. req' = [req EXCEPT ![h] = r] /\ UNCHANGED <<alliances, members, departed>>
      BY <1>2 DEF JoinCheck, Accept
    <2> HIDE DEF r
    <2> QED
      BY <2>2, <2>3, RequestOnly
  <1>3. ASSUME NEW a \in DOMAIN alliances, LeaveCheck(h, u, a) PROVE Inv'
    <2> DEFINE r == [Free EXCEPT !.user = u, !.id = a,
                                 !.op = IF Founder(a) = u THEN "count" ELSE "remove"]
    <2>1. r.op \in {"count", "remove"} /\ r.user = u /\ r.id = a
          /\ r \in Request
      BY <1>0 DEF Free, Ops, Request
    <2>2. req' = [req EXCEPT ![h] = r] /\ UNCHANGED <<alliances, members, departed>>
      BY <1>3 DEF LeaveCheck, Accept
    <2> HIDE DEF r
    <2> QED
      BY <2>1, <2>2, RequestOnly
  <1> QED
    BY <1>1, <1>2, <1>3

\* The founding: both rows, or neither when a constraint refuses one.
LEMMA CreateInsertInv == ASSUME Inv, NEW h \in Handlers, CreateInsert(h) PROVE Inv'
  <1> DEFINE r == req[h]
             row == [tag |-> r.tag, name |-> r.name, founder |-> r.user]
             leader == [alliance |-> Len(alliances) + 1, user |-> r.user, role |-> "leader"]
  <1>1. r.op = "create" /\ r.user \in Users /\ r.tag \in Tags /\ r.name \in Titles
    BY DEF CreateInsert, Inv, RequestsOK
  <1>2. req' = [req EXCEPT ![h] = Free] /\ departed' = departed
    BY DEF CreateInsert
  <1>3. CASE CreateConflict(r)
    <2>1. alliances' = alliances /\ members' = members
      BY <1>3 DEF CreateInsert, Founded
    <2> QED
      BY <1>2, <2>1, FreeRequest, RequestOnly
  <1>4. CASE ~CreateConflict(r)
    <2>1. alliances' = Append(alliances, row) /\ members' = members \cup {leader}
      BY <1>4 DEF CreateInsert, Founded
    <2>2. alliances \in Seq([tag: Tags, name: Titles, founder: Users])
      BY DEF Inv, TablesOK
    <2>3. /\ alliances' \in Seq([tag: Tags, name: Titles, founder: Users])
          /\ DOMAIN alliances = 1..Len(alliances) /\ Len(alliances) \in Nat
          /\ DOMAIN alliances' = 1..(Len(alliances) + 1)
          /\ \A a \in DOMAIN alliances : alliances'[a] = alliances[a]
          /\ alliances'[Len(alliances) + 1] = row
      BY <1>1, <2>1, <2>2
    <2>4. TablesOK'
      BY <1>1, <1>2, <2>1, <2>3 DEF Inv, TablesOK
    <2>5. RequestsOK'
      BY <1>2, <2>3, FreeRequest DEF Inv, RequestsOK
    <2>6. OneAlliance'
      BY <1>4, <2>1 DEF Inv, OneAlliance, CreateConflict, Affiliated
    <2>7. FoundedWhole'
      BY <1>2, <2>1, <2>3 DEF Inv, FoundedWhole, Founder
    <2> QED
      BY <2>4, <2>5, <2>6, <2>7 DEF Inv
  <1> QED
    BY <1>3, <1>4

\* The rows of the members and the founders' departures change, no alliance.
LEMMA RosterInv ==
  ASSUME Inv, alliances' = alliances, TablesOK', OneAlliance', FoundedWhole',
         req' \in [Handlers -> Request],
         \A h \in Handlers : req'[h].op = "idle" \/
           /\ req'[h].op = req[h].op /\ req'[h].user = req[h].user /\ req'[h].id = req[h].id
           /\ req'[h].tag = req[h].tag /\ req'[h].name = req[h].name
  PROVE  Inv'
  BY DEF Inv, RequestsOK

LEMMA JoinInsertInv == ASSUME Inv, NEW h \in Handlers, JoinInsert(h) PROVE Inv'
  <1> DEFINE r == req[h]
             row == [alliance |-> r.id, user |-> r.user, role |-> "member"]
  <1>1. r.op = "join" /\ r.user \in Users /\ r.id \in DOMAIN alliances
    BY DEF JoinInsert, Inv, RequestsOK
  <1>2. CASE JoinConflict(r)
    BY <1>2, FreeRequest, RequestOnly DEF JoinInsert
  <1>3. CASE ~JoinConflict(r)
    <2>1. members' = members \cup {row} /\ UNCHANGED <<alliances, departed>>
      BY <1>3 DEF JoinInsert
    <2>2. TablesOK'
      BY <1>1, <2>1 DEF Inv, TablesOK
    <2>3. OneAlliance'
      BY <1>3, <2>1 DEF Inv, OneAlliance, JoinConflict, Affiliated
    <2>4. FoundedWhole'
      BY <2>1 DEF Inv, FoundedWhole, Founder
    <2> DEFINE q == [req EXCEPT ![h] = Free]
    <2>5. q \in [Handlers -> Request]
          /\ \A g \in Handlers : q[g].op = "idle" \/ q[g] = req[g]
      BY FreeRequest DEF Inv, RequestsOK
    <2>6. req' = Witnessed(r.id, q)
      BY <1>3 DEF JoinInsert
    <2> HIDE DEF q
    <2>7. /\ req' \in [Handlers -> Request]
          /\ \A g \in Handlers : req'[g].op = "idle" \/
               /\ req'[g].op = req[g].op /\ req'[g].user = req[g].user
               /\ req'[g].id = req[g].id /\ req'[g].tag = req[g].tag
               /\ req'[g].name = req[g].name
      BY <2>5, <2>6 DEF Witnessed, Request
    <2> QED
      BY <2>1, <2>2, <2>3, <2>4, <2>7, RosterInv
  <1> QED
    BY <1>2, <1>3

LEMMA LeaveCountInv == ASSUME Inv, NEW h \in Handlers, LeaveCount(h) PROVE Inv'
  <1> DEFINE r == [req[h] EXCEPT !.op = "remove"]
  <1>1. req[h].op = "count" /\ req[h].user \in Users /\ req[h].id \in DOMAIN alliances
        /\ req[h] \in Request
    BY DEF LeaveCount, Inv, RequestsOK
  <1>2. UNCHANGED <<alliances, members, departed>>
        /\ (req' = [req EXCEPT ![h] = Free] \/ req' = [req EXCEPT ![h] = r])
    <2>1. [req EXCEPT ![h].op = "remove"] = [req EXCEPT ![h] = r]
      BY DEF Inv, RequestsOK
    <2> QED
      BY <2>1 DEF LeaveCount
  <1>3. CASE req' = [req EXCEPT ![h] = Free]
    BY <1>2, <1>3, FreeRequest, RequestOnly
  <1>4. CASE req' = [req EXCEPT ![h] = r]
    <2>1. r.op = "remove" /\ r.user \in Users /\ r.id \in DOMAIN alliances
          /\ r \in Request
      BY <1>1 DEF Ops, Request
    <2> HIDE DEF r
    <2> QED
      BY <1>2, <1>4, <2>1, RequestOnly
  <1> QED
    BY <1>2, <1>3, <1>4

\* Only the founder's own departure removes the leader's row.
LEMMA LeaveRemoveInv == ASSUME Inv, NEW h \in Handlers, LeaveRemove(h) PROVE Inv'
  <1> DEFINE r == req[h]
  <1>1. r.op = "remove" /\ r.user \in Users /\ r.id \in DOMAIN alliances
    BY DEF LeaveRemove, Inv, RequestsOK
  <1>2. /\ members' = {m \in members : ~(m.alliance = r.id /\ m.user = r.user)}
        /\ departed' = IF Founder(r.id) = r.user
                       THEN departed \cup {<<r.id, r.user>>} ELSE departed
        /\ req' = [req EXCEPT ![h] = Free] /\ alliances' = alliances
    BY DEF LeaveRemove
  <1>3. TablesOK'
    BY <1>1, <1>2 DEF Inv, TablesOK
  <1>4. OneAlliance'
    BY <1>2 DEF Inv, OneAlliance
  <1>5. FoundedWhole'
    <2> SUFFICES ASSUME NEW a \in DOMAIN alliances
                 PROVE  \/ [alliance |-> a, user |-> Founder(a), role |-> "leader"] \in members'
                        \/ <<a, Founder(a)>> \in departed'
      BY <1>2 DEF FoundedWhole, Founder
    <2>1. \/ [alliance |-> a, user |-> Founder(a), role |-> "leader"] \in members
          \/ <<a, Founder(a)>> \in departed
      BY DEF Inv, FoundedWhole
    <2>2. departed \subseteq departed'
      BY <1>2
    <2>3. CASE a = r.id /\ Founder(a) = r.user
      BY <1>2, <2>3
    <2>4. CASE ~(a = r.id /\ Founder(a) = r.user)
      BY <1>2, <2>1, <2>2, <2>4
    <2> QED
      BY <2>3, <2>4
  <1>6. /\ req' \in [Handlers -> Request]
        /\ \A g \in Handlers : req'[g].op = "idle" \/ req'[g] = req[g]
    BY <1>2, FreeRequest DEF Inv, RequestsOK
  <1> QED
    BY <1>2, <1>3, <1>4, <1>5, <1>6, RosterInv

LEMMA NextInv == Inv /\ [Next]_vars => Inv'
  <1> SUFFICES ASSUME Inv, [Next]_vars PROVE Inv'
    OBVIOUS
  <1>1. CASE UNCHANGED vars
    BY <1>1 DEF vars, Inv, TablesOK, RequestsOK, OneAlliance, FoundedWhole, Founder
  <1>2. ASSUME NEW h \in Handlers, Cancelled(h) PROVE Inv'
    BY <1>2, FreeRequest, RequestOnly DEF Cancelled
  <1> QED
    BY <1>1, <1>2, CheckInv, CreateInsertInv, JoinInsertInv, LeaveCountInv, LeaveRemoveInv
       DEF Next

LEMMA Always == Spec => []Inv
  BY InitInv, NextInv, PTL DEF Spec

\* Member rows and requests between two statements name alliances that exist and
\* were founded, whoever leaves or is cancelled meanwhile (svc/alliance.go).
THEOREM TypeCorrect == Spec => []TypeOK
  BY InvType, Always, PTL

\* One user is in at most one alliance, however joins and foundings that checked
\* before either wrote overlap.
THEOREM OneAllianceHolds == Spec => []OneAlliance
  <1>1. Inv => OneAlliance
    BY DEF Inv
  <1> QED
    BY <1>1, Always, PTL

\* An alliance keeps its founder as leader until the founder's departure.
THEOREM FoundedWholeHolds == Spec => []FoundedWhole
  <1>1. Inv => FoundedWhole
    BY DEF Inv
  <1> QED
    BY <1>1, Always, PTL

-----------------------------------------------------------------------------
(* Departures.                                                             *)

\* A founder about to be removed, with nobody having joined since the request
\* began, is the last member.
Last(h) ==
  req[h].op = "remove" /\ req[h].alone /\ Founder(req[h].id) = req[h].user
  => \A m, k \in members : m.alliance = req[h].id /\ k.alliance = req[h].id => m = k

LeaveInv == Inv /\ IsFiniteSet(members) /\ \A h \in Handlers : Last(h)

LEMMA LeaveInit == Init => LeaveInv
  BY InitInv, FreeRequest, FS_EmptySet DEF LeaveInv, Last, Init

LEMMA AtMostOne ==
  ASSUME NEW S, IsFiniteSet(S), ~(Cardinality(S) > 1)
  PROVE  \A m, k \in S : m = k
  <1>1. Cardinality(S) = 0 \/ Cardinality(S) = 1
    BY FS_CardinalityType
  <1>2. CASE Cardinality(S) = 0
    BY <1>2, FS_EmptySet
  <1>3. CASE Cardinality(S) = 1
    <2>1. PICK x : S = {x}
      BY <1>3, FS_Singleton
    <2> QED
      BY <2>1
  <1> QED
    BY <1>1, <1>2, <1>3

\* A step without a new member leaves every departure's members alone; one that
\* begins a removal is not the founder's, or has counted.
LEMMA NoArrival ==
  ASSUME LeaveInv, Inv', members' \in SUBSET members,
         \A a \in DOMAIN alliances : alliances'[a].founder = alliances[a].founder,
         \A h \in Handlers :
           \/ req'[h] = req[h]
           \/ req'[h].op # "remove"
           \/ alliances'[req'[h].id].founder # req'[h].user
           \/ ~(Cardinality(MembersOf(req[h].id)) > 1) /\ req'[h].id = req[h].id
  PROVE  LeaveInv'
  <1>1. IsFiniteSet(members)' /\ members' \subseteq members
    BY FS_Subset DEF LeaveInv
  <1>2. ASSUME NEW h \in Handlers PROVE Last(h)'
    <2>1. CASE req'[h] = req[h]
      <3>1. req[h].op = "remove" =>
              alliances'[req[h].id].founder = alliances[req[h].id].founder
        BY DEF LeaveInv, Inv, RequestsOK
      <3>2. Last(h)
        BY DEF LeaveInv
      <3> QED
        BY <1>1, <2>1, <3>1, <3>2 DEF Last, Founder
    <2>2. CASE req'[h].op # "remove"
      BY <2>2 DEF Last
    <2>3. CASE alliances'[req'[h].id].founder # req'[h].user
      BY <2>3 DEF Last, Founder
    <2>4. CASE ~(Cardinality(MembersOf(req[h].id)) > 1) /\ req'[h].id = req[h].id
      <3>1. IsFiniteSet(MembersOf(req[h].id))
        BY FS_Subset DEF LeaveInv, MembersOf
      <3>2. \A m, k \in MembersOf(req[h].id) : m = k
        BY <2>4, <3>1, AtMostOne
      <3> QED
        BY <1>1, <2>4, <3>2 DEF Last, MembersOf
    <2> QED
      BY <2>1, <2>2, <2>3, <2>4
  <1> QED
    BY <1>1, <1>2 DEF LeaveInv

\* A founding that succeeds adds a member to an alliance nobody can be leaving.
LEMMA CreateInsertLast == ASSUME LeaveInv, NEW h \in Handlers, CreateInsert(h) PROVE LeaveInv'
  <1> DEFINE r == req[h]
             row == [tag |-> r.tag, name |-> r.name, founder |-> r.user]
             leader == [alliance |-> Len(alliances) + 1, user |-> r.user, role |-> "leader"]
  <1>1. Inv'
    BY CreateInsertInv DEF LeaveInv
  <1>2. req' = [req EXCEPT ![h] = Free] /\ req \in [Handlers -> Request]
    BY DEF CreateInsert, LeaveInv, Inv, RequestsOK
  <1>3. CASE CreateConflict(r)
    <2>1. alliances' = alliances /\ members' = members
      BY <1>3 DEF CreateInsert, Founded
    <2> QED
      BY <1>1, <1>2, <2>1, FreeRequest, NoArrival
  <1>4. CASE ~CreateConflict(r)
    <2>1. alliances' = Append(alliances, row) /\ members' = members \cup {leader}
      BY <1>4 DEF CreateInsert, Founded
    <2>2. alliances \in Seq([tag: Tags, name: Titles, founder: Users])
      BY DEF LeaveInv, Inv, TablesOK
    <2>3. /\ DOMAIN alliances = 1..Len(alliances) /\ Len(alliances) \in Nat
          /\ \A a \in DOMAIN alliances : alliances'[a] = alliances[a]
      BY <2>1, <2>2
    <2>4. IsFiniteSet(members')
      BY <2>1, FS_AddElement DEF LeaveInv
    <2>5. ASSUME NEW g \in Handlers PROVE Last(g)'
      <3>1. CASE g = h
        BY <1>2, <3>1, FreeRequest DEF Last
      <3>2. CASE g # h
        <4>1. req'[g] = req[g] /\ Last(g)
          BY <1>2, <3>2 DEF LeaveInv
        <4>2. req[g].op = "remove" =>
                /\ req[g].id # Len(alliances) + 1
                /\ alliances'[req[g].id] = alliances[req[g].id]
          BY <2>3 DEF LeaveInv, Inv, RequestsOK
        <4>3. \A m \in members' : req[g].op = "remove" /\ m.alliance = req[g].id => m \in members
          BY <2>1, <4>2
        <4> QED
          BY <4>1, <4>2, <4>3 DEF Last, Founder
      <3> QED
        BY <3>1, <3>2
    <2> QED
      BY <1>1, <2>4, <2>5 DEF LeaveInv
  <1> QED
    BY <1>3, <1>4

\* Whoever joins is witnessed by every departure from that alliance.
LEMMA JoinInsertLast == ASSUME LeaveInv, NEW h \in Handlers, JoinInsert(h) PROVE LeaveInv'
  <1> DEFINE r == req[h]
             row == [alliance |-> r.id, user |-> r.user, role |-> "member"]
             q == [req EXCEPT ![h] = Free]
  <1>1. Inv'
    BY JoinInsertInv DEF LeaveInv
  <1>2. req \in [Handlers -> Request] /\ alliances' = alliances
    BY DEF JoinInsert, LeaveInv, Inv, RequestsOK
  <1>3. CASE JoinConflict(r)
    BY <1>1, <1>2, <1>3, FreeRequest, NoArrival DEF JoinInsert
  <1>4. CASE ~JoinConflict(r)
    <2>1. members' = members \cup {row} /\ req' = Witnessed(r.id, q)
      BY <1>4 DEF JoinInsert
    <2>2. IsFiniteSet(members')
      BY <2>1, FS_AddElement DEF LeaveInv
    <2>3. ASSUME NEW g \in Handlers PROVE Last(g)'
      <3>1. q[g].op = "idle" \/ q[g] = req[g]
        BY <1>2, FreeRequest
      <3>2. q[g] \in Request
        BY <1>2, FreeRequest
      <3> HIDE DEF q
      <3>3. CASE q[g].op \in {"count", "remove"} /\ q[g].id = r.id
        <4>1. req'[g].alone = FALSE
          BY <2>1, <3>2, <3>3 DEF Witnessed, Request
        <4> QED
          BY <4>1 DEF Last
      <3>4. CASE ~(q[g].op \in {"count", "remove"} /\ q[g].id = r.id)
        <4>1. req'[g] = q[g]
          BY <2>1, <3>4 DEF Witnessed
        <4> QED
          BY <1>2, <2>1, <3>1, <3>4, <4>1 DEF Last, LeaveInv, Founder
      <3> QED
        BY <3>3, <3>4
    <2> QED
      BY <1>1, <2>2, <2>3 DEF LeaveInv
  <1> QED
    BY <1>3, <1>4

LEMMA LeaveStep == LeaveInv /\ [Next]_vars => LeaveInv'
  <1> SUFFICES ASSUME LeaveInv, [Next]_vars PROVE LeaveInv'
    OBVIOUS
  <1>0. Inv' /\ req \in [Handlers -> Request]
    BY NextInv DEF LeaveInv, Inv, RequestsOK
  <1>1. CASE UNCHANGED vars
    BY <1>0, <1>1, NoArrival DEF vars
  <1>2. ASSUME NEW h \in Handlers, NEW u \in Users, NEW t \in Tags, NEW n \in Titles,
               CreateCheck(h, u, t, n)
        PROVE  LeaveInv'
    BY <1>0, <1>2, NoArrival DEF CreateCheck, Accept, Free
  <1>3. ASSUME NEW h \in Handlers, NEW u \in Users, NEW a \in DOMAIN alliances,
               JoinCheck(h, u, a)
        PROVE  LeaveInv'
    BY <1>0, <1>3, NoArrival DEF JoinCheck, Accept, Free
  <1>4. ASSUME NEW h \in Handlers, NEW u \in Users, NEW a \in DOMAIN alliances,
               LeaveCheck(h, u, a)
        PROVE  LeaveInv'
    <2>1. \A g \in Handlers :
            \/ req'[g] = req[g]
            \/ req'[g].op = "count"
            \/ alliances[req'[g].id].founder # req'[g].user
      BY <1>0, <1>4 DEF LeaveCheck, Accept, Free, Founder
    <2> QED
      BY <1>0, <1>4, <2>1, NoArrival DEF LeaveCheck
  <1>5. ASSUME NEW h \in Handlers, LeaveCount(h) PROVE LeaveInv'
    <2>1. \A g \in Handlers :
            \/ req'[g] = req[g]
            \/ req'[g].op = "idle"
            \/ ~(Cardinality(MembersOf(req[g].id)) > 1) /\ req'[g].id = req[g].id
      BY <1>0, <1>5, FreeRequest DEF LeaveCount, OthersRemain, Request
    <2> QED
      BY <1>0, <1>5, <2>1, NoArrival DEF LeaveCount
  <1>6. ASSUME NEW h \in Handlers, LeaveRemove(h) \/ Cancelled(h) PROVE LeaveInv'
    <2>1. /\ alliances' = alliances /\ members' \in SUBSET members
          /\ req' = [req EXCEPT ![h] = Free]
      BY <1>6 DEF LeaveRemove, Cancelled
    <2> QED
      BY <1>0, <2>1, FreeRequest, NoArrival
  <1> QED
    BY <1>1, <1>2, <1>3, <1>4, <1>5, <1>6, CreateInsertLast, JoinInsertLast DEF Next

\* The founder never walks out on members that were there when the request
\* began: the count and the removal are two statements, but nothing but a join
\* in between, which the property excuses, makes the count stale.
THEOREM FounderLeavesHolds == Spec => FounderLeavesNobody
  <1> DEFINE Step ==
        \A h \in DOMAIN req :
          LET r == req[h] IN
          /\ r.op = "remove" /\ r.alone /\ Founder(r.id) = r.user
          /\ req'[h] = Free /\ members' # members
          => \A m \in members' : m.alliance # r.id
  <1>1. LeaveInv /\ [Next]_vars => [Step]_<<alliances, members, req>>
    <2> SUFFICES ASSUME LeaveInv, [Next]_vars, NEW h \in DOMAIN req,
                        req[h].op = "remove", req[h].alone, Founder(req[h].id) = req[h].user,
                        req'[h] = Free, members' # members
                 PROVE  \A m \in members' : m.alliance # req[h].id
      OBVIOUS
    <2>0. Next /\ h \in Handlers
      BY DEF vars, LeaveInv, Inv, RequestsOK
    <2>1. LeaveRemove(h)
      <3>1. req \in [Handlers -> Request] /\ Free.op = "idle" /\ req'[h] # req[h]
        BY FreeRequest DEF LeaveInv, Inv, RequestsOK
      <3>2. ASSUME NEW g \in Handlers, LeaveRemove(g) PROVE g = h
        BY <3>1, <3>2 DEF LeaveRemove
      <3>3. ASSUME NEW g \in Handlers, CreateInsert(g) PROVE FALSE
        BY <3>1, <3>3 DEF CreateInsert
      <3>4. ASSUME NEW g \in Handlers, JoinInsert(g) PROVE FALSE
        <4>1. g # h /\ req' = Witnessed(req[g].id, [req EXCEPT ![g] = Free])
          BY <3>4 DEF JoinInsert
        <4> QED
          BY <3>1, <4>1 DEF Witnessed, Request
      <3> QED
        BY <2>0, <3>2, <3>3, <3>4
        DEF Next, CreateCheck, JoinCheck, LeaveCheck, LeaveCount, Cancelled
    <2> QED
      BY <2>0, <2>1 DEF LeaveRemove, LeaveInv, Last
  <1> QED
    BY <1>1, LeaveInit, LeaveStep, PTL DEF Spec, FounderLeavesNobody
=============================================================================
