----------------------------- MODULE Homeworlds -----------------------------
(***************************************************************************)
(* How a player gets the first planet of a universe (svc/universe.go), and *)
(* how the terminal asks for it at every start (tui/repl.go).  A join      *)
(* looks the player's planets up without a lock and then tries random      *)
(* slots, each in a transaction of its own, until one is free.             *)
(***************************************************************************)
EXTENDS HomeworldState

CONSTANTS
  Users,
  Universes,    \* names of universes; the first start creates one
  Slots         \* slots of the temperate band, 4..12 of every system

Free == [user |-> "none", universe |-> NoUniverse, left |-> 0]

Taken(v, s) == \E p \in planets : p.universe = v /\ p.slot = s
Finish(h) == joins' = [joins EXCEPT ![h] = Free]

TypeOK ==
  /\ universes \subseteq Universes
  /\ planets \subseteq [universe: Universes, slot: Slots, owner: Users]
  /\ currentUniverse \in [Users -> Universes \cup {NoUniverse}]
  /\ \A h \in Handlers :
       joins[h] = Free \/ joins[h] \in [user: Users, universe: universes, left: 1..MaxAttempts]
  /\ terminal \in [Users -> {"off", "listed", "in", "failed"} \cup Handlers]

Init ==
  /\ universes = {} /\ planets = {}
  /\ currentUniverse = [u \in Users |-> NoUniverse]
  /\ joins = [h \in Handlers |-> Free]
  /\ terminal = [u \in Users |-> "off"]

\* EnsureDefaultUniverse at a server start or from the command line: looked up
\* by name, created when missing; the loser of a race gets the constraint's
\* error and creates nothing.
EnsureDefaultUniverse(v) ==
  /\ v \notin universes
  /\ universes' = universes \cup {v}
  /\ UNCHANGED <<planets, currentUniverse, joins, terminal>>

\* JoinUniverse up to its loop: ErrAlreadyInUniverse, or the loop begins.
Begin(h, u, v) ==
  /\ joins[h] = Free
  /\ v \in universes
  /\ Owned(u, v) = {}
  /\ joins' = [joins EXCEPT ![h] = [user |-> u, universe |-> v, left |-> MaxAttempts]]

JoinStart(h, u, v) ==
  /\ Begin(h, u, v)
  /\ UNCHANGED <<universes, planets, currentUniverse, terminal>>

\* The answer of handler h reaches the terminal that waits for it, if any.
Answer(h, ok) ==
  terminal' = [u \in Users |->
    IF terminal[u] # h THEN terminal[u] ELSE IF ok THEN "in" ELSE "failed"]

\* SetCurrentUniverse, in the transaction that founds the planet.
CurrentAnyway(r, s) == [currentUniverse EXCEPT ![r.user] = r.universe]
CurrentAfter(r, s) ==
  IF Taken(r.universe, s) THEN currentUniverse ELSE [currentUniverse EXCEPT ![r.user] = r.universe]

\* The loop's counter.
NotCounted(n) == n
Counted(n) == n - 1

\* One attempt: the planet and the user's current universe in one transaction,
\* or a unique violation on the slot and the next attempt, or ErrUniverseFull.
Attempt(h, s) ==
  LET r == joins[h] IN
  /\ r # Free
  /\ currentUniverse' = CurrentAfter(r, s)
  /\ IF ~Taken(r.universe, s)
     THEN /\ planets' = planets \cup {[universe |-> r.universe, slot |-> s, owner |-> r.user]}
          /\ Answer(h, TRUE) /\ Finish(h)
     ELSE /\ UNCHANGED planets
          /\ IF r.left > 1
             THEN joins' = [joins EXCEPT ![h].left = Counted(@)] /\ UNCHANGED terminal
             ELSE Answer(h, FALSE) /\ Finish(h)
  /\ UNCHANGED universes

\* Any other error, a cancelled request included: nothing is written.
AttemptFailed(h) ==
  /\ joins[h] # Free
  /\ Answer(h, FALSE)
  /\ Finish(h)
  /\ UNCHANGED <<universes, planets, currentUniverse>>

\* ensurePlanets: GET /planets, and a join of the first universe when there is
\* none.
ListPlanets(u) ==
  /\ terminal[u] = "off"
  /\ terminal' = [terminal EXCEPT ![u] =
       IF \E p \in planets : p.owner = u THEN "in"
       ELSE IF universes = {} THEN "failed" ELSE "listed"]
  /\ UNCHANGED <<universes, planets, currentUniverse, joins>>

TerminalJoin(h, u, v) ==
  /\ terminal[u] = "listed"
  /\ Begin(h, u, v)
  /\ terminal' = [terminal EXCEPT ![u] = h]
  /\ UNCHANGED <<universes, planets, currentUniverse>>

\* ErrAlreadyInUniverse: a join of another page or terminal came first.
TerminalRefused(u, v) ==
  /\ terminal[u] = "listed"
  /\ v \in universes /\ Owned(u, v) # {}
  /\ terminal' = [terminal EXCEPT ![u] = "failed"]
  /\ UNCHANGED <<universes, planets, currentUniverse, joins>>

\* The client gives up after its timeout, or the player quits, while the server
\* may still be working; the next start asks again.
TerminalQuit(u) ==
  /\ terminal[u] # "off"
  /\ terminal' = [terminal EXCEPT ![u] = "off"]
  /\ UNCHANGED <<universes, planets, currentUniverse, joins>>

Attempts(h) == \E s \in Slots : Attempt(h, s)
Work(h) == AttemptFailed(h) \/ Attempts(h)

Next ==
  \/ \E v \in Universes : EnsureDefaultUniverse(v)
  \/ \E h \in Handlers : Work(h)
  \/ \E h \in Handlers, u \in Users, v \in Universes :
       JoinStart(h, u, v) \/ TerminalJoin(h, u, v)
  \/ \E u \in Users : ListPlanets(u) \/ TerminalQuit(u)
  \/ \E u \in Users, v \in Universes : TerminalRefused(u, v)

Spec == Init /\ [][Next]_homeworldVars

\* A handler goroutine keeps attempting until its request is answered; no error
\* is owed to it.
Fairness == \A h \in Handlers : WF_homeworldVars(Attempts(h))
FairSpec == Spec /\ Fairness

(***************************************************************************)
(* Properties                                                              *)
(***************************************************************************)

\* In a full universe the retries end too, in ErrUniverseFull.
JoinEnds == \A h \in Handlers : joins[h] # Free ~> joins[h] = Free
=============================================================================
