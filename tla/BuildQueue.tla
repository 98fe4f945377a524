----------------------------- MODULE BuildQueue -----------------------------
(***************************************************************************)
(* The production queue of the game: BuildService, ShipyardService and     *)
(* ResearchService (internal/svc) enqueue, list and cancel rows of the     *)
(* build_queue table, ResourceService keeps the stockpile those rows are   *)
(* paid from, and queueSweep (internal/scheduler) applies due rows.        *)
(*                                                                         *)
(* Every handler is a PostgreSQL transaction at READ COMMITTED, split here *)
(* at its lock requests and at its unlocked reads.  A transaction's writes *)
(* are hidden from the others until it commits, so they are all made by    *)
(* its commit step; what the others can see earlier is its row locks.      *)
(* Statements that follow each other under one lock, and whose data nobody *)
(* else can change meanwhile, are one step.                                *)
(***************************************************************************)
EXTENDS Integers, Sequences, FiniteSets, Sums

CONSTANTS
  Planets,    \* planet rows
  Users,      \* accounts
  Owner,      \* planets.owner_user_id, as a function
  Keys,       \* item keys: buildings, ships, defenses and technologies
  QueueType,  \* the queue_type of each key
  Cost,       \* what one unit or level costs (one pool stands for all three)
  Duration,   \* build time in seconds
  Rate,       \* production of a planet per second
  Storage,    \* StorageCapacity of a planet
  StartMetal, \* stock of a new planet
  Cap,        \* game.BuildQueueMaxActive
  BatchSize,  \* batchSize of the scheduler
  Requests,   \* concurrent HTTP handlers
  Sweepers,   \* scheduler processes sharing the database
  NoTx,       \* "nobody holds this lock"
  MaxItems,   \* bound of the model: rows ever inserted
  Horizon     \* bound of the model: last second of the clock

Txs == Requests \cup Sweepers
Ids == 1..MaxItems
Times == 0..(Horizon + MaxItems * Horizon)

ASSUME ConstantsOK ==
  /\ Planets # {} /\ Keys # {}
  /\ Owner \in [Planets -> Users]
  /\ QueueType \in [Keys -> {"building", "research", "ship", "defense"}]
  /\ Cost \in [Keys -> Nat]
  /\ Duration \in [Keys -> 1..Horizon]
  /\ Rate \in Nat /\ Storage \in Nat /\ StartMetal \in Nat
  /\ Cap \in Nat /\ BatchSize \in Nat /\ MaxItems \in Nat /\ Horizon \in Nat
  /\ Requests \cap Sweepers = {}
  /\ NoTx \notin Txs

VARIABLES
  clock,      \* wall-clock seconds, the same for every process
  metal,      \* planets.resources_*
  updated,    \* planets.resources_last_updated_at
  level,      \* buildings, planet_ships and planet_defenses: per planet and key
  tech,       \* researches: per user and key
  queue,      \* the build_queue rows in id order
  planetLock, \* who holds FOR UPDATE (or wrote) a planet row
  rowLock,    \* who holds FOR UPDATE (or wrote) a build_queue row
  pc,         \* where each transaction is
  job,        \* the request's arguments: planet, key, build_queue row
  seen,       \* row ids a transaction has read and still works on
  purse,      \* the refreshed stockpile a transaction has read under its lock
  refunds     \* history: how often each row has been refunded

tables == <<metal, updated, level, tech, queue>>
locks == <<planetLock, rowLock>>
locals == <<pc, job, seen, purse>>
vars == <<clock, tables, locks, locals, refunds>>

Row == [planet : Planets, key : Keys, target : Nat, cost : Nat,
        start : Nat, finish : Nat, cancelled : BOOLEAN, applied : BOOLEAN]

PCs == {"idle", "locked", "checked", "cancelling", "marked", "crediting",
        "listed", "repairing", "claimed"}

NoJob == [planet |-> CHOOSE p \in Planets : TRUE,
          key |-> CHOOSE k \in Keys : TRUE,
          item |-> 0]

TypeOK ==
  /\ clock \in 0..Horizon
  /\ metal \in [Planets -> Nat]
  /\ updated \in [Planets -> 0..Horizon]
  /\ level \in [Planets -> [Keys -> Nat]]
  /\ tech \in [Users -> [Keys -> Nat]]
  /\ queue \in Seq(Row)
  /\ Len(queue) <= MaxItems
  /\ planetLock \in [Planets -> Txs \cup {NoTx}]
  /\ rowLock \in [Ids -> Txs \cup {NoTx}]
  /\ pc \in [Txs -> PCs]
  /\ job \in [Txs -> [planet : Planets, key : Keys, item : Ids \cup {0}]]
  /\ seen \in [Txs -> SUBSET Ids]
  /\ purse \in [Txs -> Nat]
  /\ refunds \in [Ids -> Nat]

-----------------------------------------------------------------------------
(* What the queries of internal/store/build_queue.go return.               *)

IsActive(i) == ~queue[i].cancelled /\ ~queue[i].applied
Active == {i \in DOMAIN queue : IsActive(i)}
ActiveOn(p) == {i \in Active : queue[i].planet = p}
TypeOf(i) == QueueType[queue[i].key]
ActiveResearch(u) ==
  {i \in Active : TypeOf(i) = "research" /\ Owner[queue[i].planet] = u}
Due == {i \in Active : queue[i].finish <= clock}

\* A building row whose level is already there (repairCompletedBuildingQueues).
AlreadyBuilt(i) ==
  /\ TypeOf(i) = "building"
  /\ level[queue[i].planet][queue[i].key] >= queue[i].target

\* A variant that does not chain.
IsTailUnchained(t, pending) == t = clock
\* t is the later of now and the last finish of the pending rows
\* (LatestActiveQueueFinish).
IsTail(t, pending) ==
  LET ends == {clock} \cup {queue[i].finish : i \in pending}
  IN t \in ends /\ \A e \in ends : e <= t

\* t is one above the level and every pending target of k on p.
IsNextLevel(t, p, k, pending) ==
  LET reached == {level[p][k]} \cup {queue[i].target :
                    i \in {j \in pending : queue[j].key = k}}
  IN t - 1 \in reached /\ \A n \in reached : n < t

Refreshed(p) ==
  IF clock - updated[p] < 1 THEN metal[p]
  ELSE LET full == metal[p] + Rate * (clock - updated[p])
       IN IF full > Storage THEN Storage ELSE full

\* The rows of S become applied, those of C cancelled.
Marked(S, C) ==
  [i \in DOMAIN queue |->
     [queue[i] EXCEPT !.applied = @ \/ i \in S, !.cancelled = @ \/ i \in C]]

-----------------------------------------------------------------------------
(* Locks and the end of a transaction.                                     *)

LockPlanet(t, p) ==
  /\ planetLock[p] = NoTx
  /\ planetLock' = [planetLock EXCEPT ![p] = t]

LockRows(t, S) ==
  /\ \A i \in S : rowLock[i] = NoTx
  /\ rowLock' = [i \in Ids |-> IF i \in S THEN t ELSE rowLock[i]]

Finish(t) ==
  /\ planetLock' = [p \in Planets |->
                      IF planetLock[p] = t THEN NoTx ELSE planetLock[p]]
  /\ rowLock' = [i \in Ids |-> IF rowLock[i] = t THEN NoTx ELSE rowLock[i]]
  /\ pc' = [pc EXCEPT ![t] = "idle"]
  /\ job' = [job EXCEPT ![t] = NoJob]
  /\ seen' = [seen EXCEPT ![t] = {}]
  /\ purse' = [purse EXCEPT ![t] = 0]

Goto(t, from, to) ==
  /\ pc[t] = from
  /\ pc' = [pc EXCEPT ![t] = to]

\* Any error return, a client that disconnects, a victim of PostgreSQL's
\* deadlock detection, a crashed process: InTx rolls back.
Rollback(t) ==
  /\ pc[t] # "idle"
  /\ Finish(t)
  /\ UNCHANGED <<clock, tables, refunds>>

-----------------------------------------------------------------------------
(* QueueBuilding, QueueShip, QueueDefense and ResearchService.Queue.       *)

\* A variant that reads the planet with GetPlanet instead.
QueueLockUnlocked(r, p, k) ==
  /\ Goto(r, "idle", "locked")
  /\ job' = [job EXCEPT ![r] = [planet |-> p, key |-> k, item |-> 0]]
  /\ purse' = [purse EXCEPT ![r] = Refreshed(p)]
  /\ UNCHANGED <<clock, tables, locks, seen, refunds>>

\* GetPlanetForUpdate, then RefreshInTx inside the transaction.
QueueLock(r, p, k) ==
  /\ Goto(r, "idle", "locked")
  /\ LockPlanet(r, p)
  /\ job' = [job EXCEPT ![r] = [planet |-> p, key |-> k, item |-> 0]]
  /\ purse' = [purse EXCEPT ![r] = Refreshed(p)]
  /\ UNCHANGED <<clock, tables, rowLock, seen, refunds>>

\* The rows of a snapshot that a building order repairs away; ships,
\* defenses and research leave them alone.
Repairable(k, S) ==
  IF QueueType[k] = "building" THEN {i \in S : AlreadyBuilt(i)} ELSE {}

\* The admission check: the cap of the planet's queue, or, for research, the
\* account's one slot.  The snapshot of pending rows is kept for the target.
QueueCheck(r) ==
  LET p == job[r].planet
      k == job[r].key
      pending == ActiveOn(p)
  IN /\ Goto(r, "locked", "checked")
     /\ IF QueueType[k] = "research" THEN ActiveResearch(Owner[p]) = {}
        ELSE Cardinality(pending \ Repairable(k, pending)) < Cap
     /\ seen' = [seen EXCEPT ![r] = pending]
     /\ UNCHANGED <<clock, tables, locks, job, purse, refunds>>

\* applyFirstSolarRescueCost lets the very first level of a plant that cannot
\* be afforded cost what is left (whether the planet is blacked out is data).
Prices(p, k, target, stock) ==
  {Cost[k]} \cup (IF /\ QueueType[k] = "building" /\ target = 1
                     /\ level[p][k] = 0 /\ stock < Cost[k]
                  THEN {stock} ELSE {})

IsTarget(t, p, k, pending) ==
  /\ QueueType[k] = "building" => IsNextLevel(t, p, k, pending)
  /\ QueueType[k] = "research" => t = tech[Owner[p]][k] + 1
  /\ QueueType[k] \in {"ship", "defense"} => t = 0

\* The affordability check, and a variant without it.
CanPayAnything(stock, price) == TRUE
CanPay(stock, price) == price <= stock

IsStart(t, k, pending) ==
  IF QueueType[k] = "research" THEN t = clock ELSE IsTail(t, pending)

\* Repair, debit, insert and commit.  The repairing UPDATEs wait for the locks
\* of the rows they touch.
QueueCommit(r) ==
  LET p == job[r].planet
      k == job[r].key
      done == Repairable(k, seen[r])
  IN /\ pc[r] = "checked"
     /\ Len(queue) < MaxItems
     /\ \A i \in done : rowLock[i] = NoTx
     /\ \E start \in Times, target \in 0..MaxItems :
          /\ IsStart(start, k, ActiveOn(p) \ done)
          /\ IsTarget(target, p, k, seen[r] \ done)
          /\ \E price \in Prices(p, k, target, purse[r]) :
               /\ CanPay(purse[r], price)
               /\ metal' = [metal EXCEPT ![p] = purse[r] - price]
               /\ queue' = Append(Marked(done, {}),
                             [planet |-> p, key |-> k, target |-> target,
                              cost |-> price, start |-> start,
                              finish |-> start + Duration[k],
                              cancelled |-> FALSE, applied |-> FALSE])
     /\ updated' = [updated EXCEPT ![p] = clock]
     /\ Finish(r)
     /\ UNCHANGED <<clock, level, tech, refunds>>

-----------------------------------------------------------------------------
(* BuildService.Cancel: GetQueueItem takes no lock, the UPDATE that marks  *)
(* the row does not look at applied or cancelled again.                    *)

CancelRead(r, i) ==
  /\ Goto(r, "idle", "cancelling")
  /\ i \in Active
  /\ job' = [job EXCEPT ![r] =
                [planet |-> queue[i].planet, key |-> queue[i].key, item |-> i]]
  /\ UNCHANGED <<clock, tables, locks, seen, purse, refunds>>

CancelMark(r) ==
  /\ Goto(r, "cancelling", "marked")
  /\ LockRows(r, {job[r].item})
  /\ UNCHANGED <<clock, tables, planetLock, job, seen, purse, refunds>>

CancelLock(r) ==
  /\ Goto(r, "marked", "crediting")
  /\ LockPlanet(r, job[r].planet)
  /\ purse' = [purse EXCEPT ![r] = Refreshed(job[r].planet)]
  /\ UNCHANGED <<clock, tables, rowLock, job, seen, refunds>>

CancelCommit(r) ==
  LET i == job[r].item
      p == job[r].planet
  IN /\ pc[r] = "crediting"
     /\ queue' = Marked({}, {i})
     /\ metal' = [metal EXCEPT ![p] = purse[r] + queue[i].cost]
     /\ updated' = [updated EXCEPT ![p] = clock]
     /\ refunds' = [refunds EXCEPT ![i] = @ + 1]
     /\ Finish(r)
     /\ UNCHANGED <<clock, level, tech>>

-----------------------------------------------------------------------------
(* PlanetQueues runs outside any transaction: rows, then levels, then one  *)
(* autocommitted UPDATE per repaired row.                                  *)

ListRows(r, p) ==
  /\ Goto(r, "idle", "listed")
  /\ ActiveOn(p) # {}
  /\ seen' = [seen EXCEPT ![r] = ActiveOn(p)]
  /\ UNCHANGED <<clock, tables, locks, job, purse, refunds>>

ListLevels(r) ==
  /\ Goto(r, "listed", "repairing")
  /\ seen' = [seen EXCEPT ![r] = {i \in @ : AlreadyBuilt(i)}]
  /\ UNCHANGED <<clock, tables, locks, job, purse, refunds>>

ListRepair(r) ==
  /\ pc[r] = "repairing"
  /\ \E i \in seen[r] :
       /\ rowLock[i] = NoTx
       /\ queue' = Marked({i}, {})
       /\ seen' = [seen EXCEPT ![r] = @ \ {i}]
  /\ UNCHANGED <<clock, metal, updated, level, tech, locks, pc, job, purse, refunds>>

ListDone(r) ==
  /\ pc[r] = "repairing"
  /\ seen[r] = {}
  /\ Finish(r)
  /\ UNCHANGED <<clock, tables, refunds>>

\* ResourceService.Refresh, a transaction of its own behind every planet view.
Refresh(p) ==
  /\ planetLock[p] = NoTx
  /\ clock - updated[p] >= 1
  /\ metal' = [metal EXCEPT ![p] = Refreshed(p)]
  /\ updated' = [updated EXCEPT ![p] = clock]
  /\ UNCHANGED <<clock, level, tech, queue, locks, locals, refunds>>

-----------------------------------------------------------------------------
(* queueSweep of one scheduler process.                                    *)

\* A variant that selects without FOR UPDATE.
SweepClaimUnlocked(s) ==
  /\ Goto(s, "idle", "claimed")
  /\ Due # {}
  /\ Cardinality(Due) <= BatchSize
  /\ seen' = [seen EXCEPT ![s] = Due]
  /\ UNCHANGED <<clock, tables, locks, job, purse, refunds>>

\* A variant that selects what has finished since the last tick.
SweepClaimFresh(s) ==
  LET free == {i \in Due : rowLock[i] = NoTx /\ queue[i].finish = clock}
  IN /\ Goto(s, "idle", "claimed")
     /\ \E batch \in SUBSET free :
          /\ batch # {} /\ Cardinality(batch) <= BatchSize
          /\ LockRows(s, batch)
          /\ seen' = [seen EXCEPT ![s] = batch]
     /\ UNCHANGED <<clock, tables, planetLock, job, purse, refunds>>

\* ListDueQueueItems: the BatchSize earliest due rows that nobody has locked.
SweepClaim(s) ==
  LET free == {i \in Due : rowLock[i] = NoTx}
  IN /\ Goto(s, "idle", "claimed")
     /\ \E batch \in SUBSET free :
          /\ batch # {}
          /\ Cardinality(batch) <= BatchSize
          /\ batch = free \/ Cardinality(batch) = BatchSize
          /\ \A i \in batch, j \in free \ batch : queue[i].finish <= queue[j].finish
          /\ LockRows(s, batch)
          /\ seen' = [seen EXCEPT ![s] = batch]
     /\ UNCHANGED <<clock, tables, planetLock, job, purse, refunds>>

\* Building rows whose planet s has yet to lock.
Unlocked(s) ==
  {i \in seen[s] : TypeOf(i) = "building" /\ planetLock[queue[i].planet] # s}

\* applyBuilding updates the planet row: rows are applied in finish order.
SweepLock(s) ==
  /\ pc[s] = "claimed"
  /\ \E i \in Unlocked(s) :
       /\ \A j \in Unlocked(s) : queue[i].finish <= queue[j].finish
       /\ LockPlanet(s, queue[i].planet)
  /\ UNCHANGED <<clock, tables, rowLock, locals, refunds>>

\* The rows of S that build key k on p, or for user u.
RowsFor(S, p, k) == {i \in S : queue[i].planet = p /\ queue[i].key = k}
RowsOfUser(S, u, k) == {i \in S : Owner[queue[i].planet] = u /\ queue[i].key = k}

\* applyOne and MarkQueueApplied of every row of the batch, and the commit.
SweepCommit(s) ==
  /\ pc[s] = "claimed"
  /\ Unlocked(s) = {}
  /\ level' = [p \in Planets |-> [k \in Keys |->
        IF QueueType[k] = "research" THEN level[p][k]
        ELSE level[p][k] + Cardinality(RowsFor(seen[s], p, k))]]
  /\ tech' = [u \in Users |-> [k \in Keys |->
        IF QueueType[k] = "research"
        THEN tech[u][k] + Cardinality(RowsOfUser(seen[s], u, k))
        ELSE tech[u][k]]]
  /\ queue' = Marked(seen[s], {})
  /\ Finish(s)
  /\ UNCHANGED <<clock, metal, updated, refunds>>

Tick ==
  /\ clock < Horizon
  /\ clock' = clock + 1
  /\ UNCHANGED <<tables, locks, locals, refunds>>

-----------------------------------------------------------------------------
Init ==
  /\ clock = 0
  /\ metal = [p \in Planets |-> StartMetal]
  /\ updated = [p \in Planets |-> 0]
  /\ level = [p \in Planets |-> [k \in Keys |-> 0]]
  /\ tech = [u \in Users |-> [k \in Keys |-> 0]]
  /\ queue = <<>>
  /\ planetLock = [p \in Planets |-> NoTx]
  /\ rowLock = [i \in Ids |-> NoTx]
  /\ pc = [t \in Txs |-> "idle"]
  /\ job = [t \in Txs |-> NoJob]
  /\ seen = [t \in Txs |-> {}]
  /\ purse = [t \in Txs |-> 0]
  /\ refunds = [i \in Ids |-> 0]

Request(r) ==
  \/ \E p \in Planets, k \in Keys : QueueLock(r, p, k)
  \/ QueueCheck(r)
  \/ QueueCommit(r)
  \/ \E i \in Ids : CancelRead(r, i)
  \/ CancelMark(r)
  \/ CancelLock(r)
  \/ CancelCommit(r)
  \/ \E p \in Planets : ListRows(r, p)
  \/ ListLevels(r)
  \/ ListRepair(r)
  \/ ListDone(r)

Sweep(s) == SweepClaim(s) \/ SweepLock(s) \/ SweepCommit(s)

Next ==
  \/ \E r \in Requests : Request(r)
  \/ \E s \in Sweepers : Sweep(s)
  \/ \E t \in Txs : Rollback(t)
  \/ \E p \in Planets : Refresh(p)
  \/ Tick

Spec == Init /\ [][Next]_vars

\* t waits for a lock that u holds.
WaitsFor(t, u) ==
  \/ pc[t] = "marked" /\ planetLock[job[t].planet] = u
  \/ pc[t] = "cancelling" /\ rowLock[job[t].item] = u
  \/ pc[t] = "checked" /\ \E i \in Repairable(job[t].key, seen[t]) : rowLock[i] = u
  \/ pc[t] = "claimed" /\ \E i \in Unlocked(t) : planetLock[queue[i].planet] = u

\* t is on a cycle of lock waits: PostgreSQL aborts one of its members.
Deadlocked(t) ==
  \E S \in SUBSET {u \in Txs : \E v \in Txs : WaitsFor(u, v)} :
    /\ t \in S
    /\ \E blocker \in [S -> S] :
         /\ \A u \in S : WaitsFor(u, blocker[u])
         /\ {blocker[u] : u \in S} = S

(***************************************************************************)
(* Fairness.  A scheduler ticks for as long as its process lives, and each *)
(* tick takes what it finds free: SKIP LOCKED never queues for a row, so   *)
(* the claim is only weakly fair and may find a row locked at every tick.  *)
(* Who does wait for a lock is in a FIFO queue of the database and gets it *)
(* though it is taken again and again (strong fairness).  The detector     *)
(* breaks a cycle of waits by aborting whom it likes, a sweep for ever if  *)
(* need be, but does not spare a handler for ever.  A sweep is otherwise   *)
(* rolled back (crash, lost connection) only finitely often, and so is a   *)
(* cancel that has marked its row: players who cancel and hang up at every *)
(* tick could keep a row locked for good.  Any other handler may fail for  *)
(* ever.  Nothing obliges a player to do anything or time to pass.         *)
(***************************************************************************)
\* A handler that has begun goes on, or returns its error.
Handle(r) ==
  \/ QueueCheck(r) \/ QueueCommit(r)
  \/ CancelMark(r) \/ CancelLock(r) \/ CancelCommit(r)
  \/ ListLevels(r) \/ ListRepair(r) \/ ListDone(r)
  \/ pc[r] \in {"locked", "checked"} /\ Rollback(r)

Fairness ==
  /\ \A s \in Sweepers :
       WF_vars(SweepClaim(s)) /\ SF_vars(SweepLock(s)) /\ WF_vars(SweepCommit(s))
  /\ \A r \in Requests : SF_vars(Handle(r)) /\ SF_vars(Deadlocked(r) /\ Rollback(r))
  /\ <>[][\A s \in Sweepers : Rollback(s) => Deadlocked(s)]_vars
  /\ <>[][\A r \in Requests : pc[r] \in {"marked", "crediting"} => ~Rollback(r)]_vars

FairSpec == Spec /\ Fairness

-----------------------------------------------------------------------------
(* Properties.                                                             *)

\* A planet never has more than BuildQueueMaxActive unresolved building, ship
\* and defense orders, however many handlers count the queue at once
\* (build.go:79, shipyard.go:65, shipyard.go:188).
QueueCapped ==
  \A p \in Planets :
    Cardinality({i \in ActiveOn(p) : TypeOf(i) # "research"}) <= Cap

\* A planet builds one thing at a time: the intervals of two unresolved orders
\* that are not research never overlap (build.go:110-121, shipyard.go:104-119).
QueueIsSerial ==
  \A p \in Planets : \A i, j \in ActiveOn(p) :
    i # j /\ "research" \notin {TypeOf(i), TypeOf(j)} =>
      queue[i].finish <= queue[j].start \/ queue[j].finish <= queue[i].start

\* Two unresolved upgrades of one building never promise the same level
\* (build.go:82-90).
TargetsDistinct ==
  \A p \in Planets : \A i, j \in ActiveOn(p) :
    /\ TypeOf(i) = "building" /\ queue[i].key = queue[j].key
    /\ queue[i].target = queue[j].target
    => i = j

\* The research slot holds among the orders paid by one planet
\* (research.go:76-83 under the lock of research.go:57).
OneResearchPerPlanet ==
  \A p \in Planets : \A i, j \in ActiveOn(p) :
    TypeOf(i) = "research" /\ TypeOf(j) = "research" => i = j

\* What each order of planet p has cost, and what its refunds have paid back.
PaidOn(p) ==
  [i \in Ids |-> IF i \in DOMAIN queue /\ queue[i].planet = p THEN queue[i].cost ELSE 0]
RefundedOn(p) == [i \in Ids |-> PaidOn(p)[i] * refunds[i]]

\* Handlers and production never create resources: what a planet has and what
\* its orders have cost is at most its starting stock, its production so far
\* and its refunds (a lost debit or a window credited twice would exceed it;
\* resources.go:31-33).
NoFreeResources ==
  \A p \in Planets :
    metal[p] + Sum(PaidOn(p), Ids)
      <= StartMetal + Rate * updated[p] + Sum(RefundedOn(p), Ids)

\* A level or a unit is only ever added for an order that is unresolved at
\* that moment, and that the same step resolves: several schedulers, retried
\* batches and cancellations never apply one order twice
\* (scheduler.go:61-63, build_queue.go:155-166).
GainsAreOrders ==
  [][\A p \in Planets, k \in Keys :
       LET resolved == {i \in RowsFor(ActiveOn(p), p, k) : queue'[i].applied}
       IN level'[p][k] # level[p][k] =>
            level'[p][k] - level[p][k] <= Cardinality(resolved)]_vars

\* Every order that has become due is applied or cancelled in the end
\* (scheduler.go:36-37).
DueOrdersResolve == \A i \in Ids : (i \in Due) ~> (i \notin Active)

\* Cancel pays a refund only for an item that has not been applied
\* (build.go:226-227) nor cancelled (build.go:241).
RefundOnlyActive ==
  [][\A i \in Ids : refunds'[i] # refunds[i] => i \in Active]_vars

\* Only one research may run at a time per user (build_queue.go:134-135,
\* research.go:76).
OneResearchPerUser ==
  \A u \in Users : Cardinality(ActiveResearch(u)) <= 1
=============================================================================
