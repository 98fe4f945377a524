------------------------------- MODULE Fleets -------------------------------
(***************************************************************************)
(* Fleets in flight: FleetService.Dispatch and Recall (internal/svc), and  *)
(* the arrival and return sweeps of the scheduler (internal/scheduler).    *)
(*                                                                         *)
(* A transaction keeps its uncommitted rows in its draft: a row is in the  *)
(* draft of t exactly while t holds its lock, and the commit copies it to  *)
(* the table.  A statement that fails aborts the whole PostgreSQL          *)
(* transaction, whatever the Go code does with the error.                  *)
(***************************************************************************)
EXTENDS Integers, Sequences, FiniteSets, Sums

CONSTANTS
  Planets,    \* planet rows
  Owner,      \* planets.owner_user_id, as a function
  Missions,   \* the missions players use
  NoPlanet,   \* target_planet_id of a fleet sent to an empty slot
  Untouched,  \* a row that is not in a draft
  Flights,    \* possible one-way flight times, in seconds
  Fuel,       \* fuel of a flight
  Capacity,   \* cargo capacity of one ship
  Rate,       \* production of a planet per second
  Storage,    \* StorageCapacity of a planet
  StartMetal, \* stock of a planet in the initial state
  StartShips, \* ships of a planet in the initial state
  BatchSize,  \* batchSize of the scheduler
  Requests,   \* concurrent HTTP handlers
  Sweepers,   \* scheduler processes sharing the database
  MaxFleets,  \* bound of the model: fleets ever dispatched
  Horizon     \* bound of the model: last second of the clock

Txs == Requests \cup Sweepers
Ids == 1..MaxFleets
AllMissions == {"attack", "transport", "deploy", "colonize", "espionage", "recycle"}

ASSUME FleetConstantsOK ==
  /\ Missions \subseteq AllMissions
  /\ IsFiniteSet(Planets) /\ NoPlanet \notin Planets
  /\ Flights \subseteq Nat \ {0}
  /\ Fuel \in Nat /\ Capacity \in Nat /\ Rate \in Nat /\ Storage \in Nat
  /\ StartMetal \in Nat /\ StartShips \in Nat
  /\ BatchSize \in Nat /\ MaxFleets \in Nat /\ Horizon \in Nat
  /\ Requests \cap Sweepers = {}

VARIABLES
  clock,  \* wall-clock seconds
  planet, \* per planet: resources, their timestamp and planet_ships
  fleet,  \* the fleets rows with their fleet_ships, in id order
  pc,     \* where each transaction is
  draft,  \* rows a transaction has locked, as it sees and will write them
  todo,   \* fleets of its batch a sweep has yet to handle
  job,    \* the fleet a Recall has read, and when
  lost    \* history: ships destroyed so far

vars == <<clock, planet, fleet, pc, draft, todo, job, lost>>

PlanetRow == [metal : Nat, updated : 0..Horizon, ships : Nat]

FleetRow ==
  [origin : Planets, target : Planets \cup {NoPlanet}, mission : AllMissions,
   status : {"outbound", "returning", "returned", "deleted"},
   departure : Nat, arrival : Nat, return : Nat,
   cargo : Nat, ships : Nat, arrived : BOOLEAN, home : BOOLEAN]

\* A row is never the null that stands for no row.
ASSUME UntouchedIsNoRow == Untouched \notin PlanetRow \cup FleetRow

Blank == [planets |-> [p \in Planets |-> Untouched],
          fleets |-> [i \in Ids |-> Untouched], lost |-> 0]

NoJob == [fleet |-> 0, now |-> 0]

TypeOK ==
  /\ clock \in 0..Horizon
  /\ planet \in [Planets -> PlanetRow]
  /\ fleet \in Seq(FleetRow) /\ Len(fleet) <= MaxFleets
  /\ pc \in [Txs -> {"idle", "dispatching", "recalling", "arrivals", "returns", "aborted"}]
  /\ draft \in [Txs -> [planets : [Planets -> PlanetRow \cup {Untouched}],
                        fleets : [Ids -> FleetRow \cup {Untouched}],
                        lost : Nat]]
  /\ todo \in [Txs -> SUBSET Ids]
  /\ job \in [Txs -> [fleet : Ids \cup {0}, now : 0..Horizon]]
  /\ lost \in Nat

-----------------------------------------------------------------------------
(* Rows, locks and the end of a transaction.                               *)

\* Nobody but t has row i (or planet p) locked.
FleetFree(t, i) == \A u \in Txs \ {t} : draft[u].fleets[i] = Untouched
PlanetFree(t, p) == \A u \in Txs \ {t} : draft[u].planets[p] = Untouched

\* What t reads of a planet: its own writes, else the committed row.
PlanetSeen(t, p) ==
  IF draft[t].planets[p] = Untouched THEN planet[p] ELSE draft[t].planets[p]

\* refreshTx: production since the last update, capped at the storage.
Refreshed(row) ==
  LET full == row.metal + Rate * (clock - row.updated)
  IN IF clock - row.updated < 1 THEN row
     ELSE [row EXCEPT !.metal = IF full > Storage THEN Storage ELSE full,
                      !.updated = clock]

\* UpdatePlanetResources with the cargo added, when there is any.
Credit(row, n) ==
  IF n > 0 THEN [row EXCEPT !.metal = @ + n, !.updated = clock] ELSE row

Finish(t) ==
  /\ pc' = [pc EXCEPT ![t] = "idle"]
  /\ draft' = [draft EXCEPT ![t] = Blank]
  /\ todo' = [todo EXCEPT ![t] = {}]
  /\ job' = [job EXCEPT ![t] = NoJob]

\* InTx rolls back: an error return, a disconnect, a deadlock victim, a crash.
Rollback(t) ==
  /\ pc[t] # "idle"
  /\ Finish(t)
  /\ UNCHANGED <<clock, planet, fleet, lost>>

-----------------------------------------------------------------------------
(* Dispatch.                                                               *)

\* GetPlanetForUpdate and RefreshInTx.
DispatchLock(r, p) ==
  /\ pc[r] = "idle"
  /\ PlanetFree(r, p)
  /\ pc' = [pc EXCEPT ![r] = "dispatching"]
  /\ draft' = [draft EXCEPT ![r].planets[p] = Refreshed(planet[p])]
  /\ UNCHANGED <<clock, planet, fleet, todo, job, lost>>

\* The checks on the order, and a variant that forgets the ships.
AffordsCargoOnly(row, ships, cargo) ==
  cargo <= ships * Capacity /\ cargo + Fuel <= row.metal
Affords(row, ships, cargo) ==
  /\ ships <= row.ships
  /\ cargo <= ships * Capacity
  /\ cargo + Fuel <= row.metal

\* Debit, insert and commit.  The foreign key on target_planet_id share-locks
\* the target, so the insert waits for whoever has it FOR UPDATE; the time of
\* departure was read before, at some time since the refresh.
DispatchCommit(r) ==
  /\ pc[r] = "dispatching"
  /\ Len(fleet) < MaxFleets
  /\ \E p \in Planets, target \in Planets \cup {NoPlanet}, mission \in Missions,
        ships \in 1..StartShips, cargo \in 0..StartMetal, flight \in Flights :
       LET row == draft[r].planets[p]
       IN row # Untouched /\ \E now \in row.updated..clock :
          /\ target # p
          /\ target \in Planets => PlanetFree(r, target)
          /\ Affords(row, ships, cargo)
          /\ planet' = [planet EXCEPT ![p] =
               [metal |-> row.metal - cargo - Fuel, updated |-> now,
                ships |-> row.ships - ships]]
          /\ fleet' = Append(fleet,
               [origin |-> p, target |-> target, mission |-> mission,
                status |-> "outbound", departure |-> now,
                arrival |-> now + flight, return |-> 0, cargo |-> cargo,
                ships |-> ships, arrived |-> FALSE, home |-> FALSE])
  /\ Finish(r)
  /\ UNCHANGED <<clock, lost>>

-----------------------------------------------------------------------------
(* Recall reads the fleet and the time without a lock; its two UPDATEs wait *)
(* for the row but do not look at the status again.                        *)

RecallRead(r, i) ==
  /\ pc[r] = "idle"
  /\ i \in DOMAIN fleet
  /\ fleet[i].status = "outbound"
  /\ pc' = [pc EXCEPT ![r] = "recalling"]
  /\ job' = [job EXCEPT ![r] = [fleet |-> i, now |-> clock]]
  /\ UNCHANGED <<clock, planet, fleet, draft, todo, lost>>

\* SetFleetStatus, SetFleetReturn, commit; a deleted row is ErrNotFound.
RecallCommit(r) ==
  LET i == job[r].fleet
      now == job[r].now
  IN /\ pc[r] = "recalling"
     /\ FleetFree(r, i)
     /\ fleet[i].status # "deleted"
     /\ fleet' = [fleet EXCEPT ![i].status = "returning",
                               ![i].return = now + (now - fleet[i].departure)]
     /\ Finish(r)
     /\ UNCHANGED <<clock, planet, lost>>

-----------------------------------------------------------------------------
(* The sweeps claim a batch of due rows and handle them in time order.     *)

\* A variant without the test of the status.
DueArrivalsAny ==
  {i \in DOMAIN fleet : ~fleet[i].arrived /\ fleet[i].arrival <= clock}
DueArrivals ==
  {i \in DOMAIN fleet : /\ fleet[i].status = "outbound" /\ ~fleet[i].arrived
                        /\ fleet[i].arrival <= clock}
DueReturns ==
  {i \in DOMAIN fleet : /\ fleet[i].status = "returning" /\ ~fleet[i].home
                        /\ fleet[i].return <= clock}

\* The time a sweep orders its fleets by.
DueAt(sweep, i) == IF sweep = "arrivals" THEN fleet[i].arrival ELSE fleet[i].return

\* A variant that selects without FOR UPDATE.
ClaimUnlocked(s, sweep, due) ==
  /\ pc[s] = "idle"
  /\ due # {} /\ Cardinality(due) <= BatchSize
  /\ todo' = [todo EXCEPT ![s] = due]
  /\ draft' = [draft EXCEPT ![s].fleets =
                 [i \in Ids |-> IF i \in due THEN fleet[i] ELSE Untouched]]
  /\ pc' = [pc EXCEPT ![s] = sweep]
  /\ UNCHANGED <<clock, planet, fleet, job, lost>>

\* FOR UPDATE SKIP LOCKED, ORDER BY, LIMIT batchSize.
Claim(s, sweep, due) ==
  LET free == {i \in due : FleetFree(s, i)}
  IN /\ pc[s] = "idle"
     /\ \E batch \in SUBSET free :
          /\ batch # {}
          /\ Cardinality(batch) <= BatchSize
          /\ batch = free \/ Cardinality(batch) = BatchSize
          /\ \A i \in batch, j \in free \ batch : DueAt(sweep, i) <= DueAt(sweep, j)
          /\ todo' = [todo EXCEPT ![s] = batch]
          /\ draft' = [draft EXCEPT ![s].fleets =
                         [i \in Ids |-> IF i \in batch THEN fleet[i] ELSE Untouched]]
     /\ pc' = [pc EXCEPT ![s] = sweep]
     /\ UNCHANGED <<clock, planet, fleet, job, lost>>

ClaimArrivals(s) == Claim(s, "arrivals", DueArrivals)

\* A variant that takes only fleets whose mission was carried out, and the sweep.
ClaimReturnsArrived(s) ==
  Claim(s, "returns", {i \in DueReturns : fleet[i].arrived})
ClaimReturns(s) == Claim(s, "returns", DueReturns)

\* i is the fleet s handles next.
IsNext(s, i) == i \in todo[s] /\ \A j \in todo[s] : DueAt(pc[s], i) <= DueAt(pc[s], j)

\* s has handled fleet i, which becomes f.
Handle(s, i, f) ==
  /\ draft' = [draft EXCEPT ![s].fleets[i] = f]
  /\ todo' = [todo EXCEPT ![s] = @ \ {i}]
  /\ UNCHANGED <<clock, planet, fleet, pc, job, lost>>

\* The same, with the planet it locked becoming row and n ships destroyed.
HandleAt(s, i, f, p, row, n) ==
  /\ PlanetFree(s, p)
  /\ draft' = [draft EXCEPT ![s].fleets[i] = f,
                            ![s].planets[p] = row,
                            ![s].lost = @ + n]
  /\ todo' = [todo EXCEPT ![s] = @ \ {i}]
  /\ UNCHANGED <<clock, planet, fleet, pc, job, lost>>

\* markAttackReturning.
TurnedAround(f) ==
  [f EXCEPT !.arrived = TRUE, !.status = "returning",
            !.return = clock + (clock - f.departure)]
Deleted(f) == [f EXCEPT !.status = "deleted"]

\* Missions that end without touching a planet: no planet at the target, a
\* recycler, a colony ship whose slot is taken or not allowed.
TurnAround(s, i) ==
  LET f == draft[s].fleets[i]
  IN /\ pc[s] = "arrivals" /\ IsNext(s, i)
     /\ \/ f.mission \in {"attack", "transport", "deploy", "espionage"} /\ f.target = NoPlanet
        \/ f.mission \in {"recycle", "colonize"}
     /\ Handle(s, i, TurnedAround(f))

\* An undefended target: loot half of its stock, as far as it fits.
Loot(f, row) ==
  LET room == f.ships * Capacity - f.cargo
      half == row.metal \div 2
  IN IF room < half THEN room ELSE half

\* resolveAttack without losses of the attacker: a win over a planet without
\* units, or a draw (SimulateCombat sees the defenders undamaged).
Attack(s, i) ==
  LET f == draft[s].fleets[i]
      row == Refreshed(PlanetSeen(s, f.target))
  IN /\ pc[s] = "arrivals" /\ IsNext(s, i)
     /\ f.mission = "attack" /\ f.target # NoPlanet
     /\ \/ /\ row.ships = 0
           /\ HandleAt(s, i, [TurnedAround(f) EXCEPT !.cargo = f.cargo + Loot(f, row)], f.target,
                       [row EXCEPT !.metal = @ - Loot(f, row), !.updated = clock], 0)
        \/ \E killed \in 0..row.ships :
             HandleAt(s, i, TurnedAround(f), f.target,
                      [row EXCEPT !.ships = @ - killed], killed)

\* resolveTransport, also of a deploy to somebody else's planet, and a variant
\* that leaves the cargo aboard.
TransportKeeping(s, i) ==
  LET f == draft[s].fleets[i]
      row == Refreshed(PlanetSeen(s, f.target))
  IN /\ pc[s] = "arrivals" /\ IsNext(s, i)
     /\ f.target # NoPlanet /\ f.mission = "transport"
     /\ HandleAt(s, i, TurnedAround(f), f.target, Credit(row, f.cargo), 0)

Transport(s, i) ==
  LET f == draft[s].fleets[i]
      row == Refreshed(PlanetSeen(s, f.target))
  IN /\ pc[s] = "arrivals" /\ IsNext(s, i)
     /\ f.target # NoPlanet
     /\ \/ f.mission = "transport"
        \/ f.mission = "deploy" /\ Owner[f.target] # Owner[f.origin]
     /\ HandleAt(s, i, [TurnedAround(f) EXCEPT !.cargo = 0], f.target, Credit(row, f.cargo), 0)

\* resolveDeploy to a planet of the same player.
Deploy(s, i) ==
  LET f == draft[s].fleets[i]
      row == Refreshed(PlanetSeen(s, f.target))
  IN /\ pc[s] = "arrivals" /\ IsNext(s, i)
     /\ f.mission = "deploy" /\ f.target # NoPlanet
     /\ Owner[f.target] = Owner[f.origin]
     /\ HandleAt(s, i, Deleted(f), f.target,
                 [Credit(row, f.cargo) EXCEPT !.ships = @ + f.ships], 0)

\* resolveEspionage: the probes come home, or are caught and destroyed.
Espionage(s, i) ==
  LET f == draft[s].fleets[i]
      row == Refreshed(PlanetSeen(s, f.target))
  IN /\ pc[s] = "arrivals" /\ IsNext(s, i)
     /\ f.mission = "espionage" /\ f.target # NoPlanet
     /\ \/ HandleAt(s, i, TurnedAround(f), f.target, row, 0)
        \/ HandleAt(s, i, Deleted(f), f.target, row, f.ships)

\* A handler that forgets MarkReturnProcessed.
ReturnUnmarked(s, i) ==
  LET f == draft[s].fleets[i]
      row == Refreshed(PlanetSeen(s, f.origin))
  IN /\ pc[s] = "returns" /\ IsNext(s, i)
     /\ HandleAt(s, i, f, f.origin,
                 [Credit(row, f.cargo) EXCEPT !.ships = @ + f.ships], 0)

\* handleReturn.
Return(s, i) ==
  LET f == draft[s].fleets[i]
      row == Refreshed(PlanetSeen(s, f.origin))
  IN /\ pc[s] = "returns" /\ IsNext(s, i)
     /\ HandleAt(s, i, [f EXCEPT !.home = TRUE, !.status = "returned"], f.origin,
                 [Credit(row, f.cargo) EXCEPT !.ships = @ + f.ships], 0)

\* A statement of the handler fails: the upsert of an attacker's losses has no
\* unique constraint to conflict with, the code of a colony is longer than its
\* column.  The loop goes on to the next fleet, but in an aborted transaction:
\* all later statements fail and the COMMIT rolls back, the whole batch with it.
SweepFail(s) ==
  /\ pc[s] = "arrivals"
  /\ \E i \in todo[s] :
       LET f == draft[s].fleets[i]
       IN /\ IsNext(s, i)
          /\ \/ /\ f.mission = "attack" /\ f.target # NoPlanet
                /\ PlanetFree(s, f.target)
             \/ f.mission = "colonize" /\ f.target = NoPlanet
  /\ pc' = [pc EXCEPT ![s] = "aborted"]
  /\ UNCHANGED <<clock, planet, fleet, draft, todo, job, lost>>

SweepAbort(s) == pc[s] = "aborted" /\ Rollback(s)

SweepCommit(s) ==
  /\ pc[s] \in {"arrivals", "returns"}
  /\ todo[s] = {}
  /\ planet' = [p \in Planets |->
       IF draft[s].planets[p] = Untouched THEN planet[p] ELSE draft[s].planets[p]]
  /\ fleet' = [i \in DOMAIN fleet |->
       IF draft[s].fleets[i] = Untouched THEN fleet[i] ELSE draft[s].fleets[i]]
  /\ lost' = lost + draft[s].lost
  /\ Finish(s)
  /\ UNCHANGED clock

\* ResourceService.Refresh behind every planet view.
RefreshPlanet(p) ==
  /\ \A t \in Txs : draft[t].planets[p] = Untouched
  /\ clock - planet[p].updated >= 1
  /\ planet' = [planet EXCEPT ![p] = Refreshed(@)]
  /\ UNCHANGED <<clock, fleet, pc, draft, todo, job, lost>>

Tick ==
  /\ clock < Horizon
  /\ clock' = clock + 1
  /\ UNCHANGED <<planet, fleet, pc, draft, todo, job, lost>>

-----------------------------------------------------------------------------
Init ==
  /\ clock = 0
  /\ planet = [p \in Planets |-> [metal |-> StartMetal, updated |-> 0, ships |-> StartShips]]
  /\ fleet = <<>>
  /\ pc = [t \in Txs |-> "idle"]
  /\ draft = [t \in Txs |-> Blank]
  /\ todo = [t \in Txs |-> {}]
  /\ job = [t \in Txs |-> NoJob]
  /\ lost = 0

Request(r) ==
  \/ \E p \in Planets : DispatchLock(r, p)
  \/ DispatchCommit(r)
  \/ \E i \in Ids : RecallRead(r, i)
  \/ RecallCommit(r)

HandleOne(s) ==
  \E i \in Ids :
    \/ TurnAround(s, i) \/ Attack(s, i) \/ Transport(s, i)
    \/ Deploy(s, i) \/ Espionage(s, i) \/ Return(s, i)

Sweep(s) ==
  \/ ClaimArrivals(s) \/ ClaimReturns(s) \/ HandleOne(s)
  \/ SweepFail(s) \/ SweepAbort(s) \/ SweepCommit(s)

Next ==
  \/ \E r \in Requests : Request(r)
  \/ \E s \in Sweepers : Sweep(s)
  \/ \E t \in Txs : Rollback(t)
  \/ \E p \in Planets : RefreshPlanet(p)
  \/ Tick

Spec == Init /\ [][Next]_vars

(***************************************************************************)
(* Fairness.  A scheduler ticks while its process lives and takes what it  *)
(* finds free (SKIP LOCKED queues for nothing), a handler that has begun   *)
(* ends with its commit or its error, the lock queues of the database are  *)
(* FIFO (strong fairness where a lock is waited for), and the process, the *)
(* connection or the deadlock detector kills a sweep finitely often.       *)
(* Nothing obliges a player to act or time to pass.                        *)
(***************************************************************************)
EndRequest(r) == DispatchCommit(r) \/ RecallCommit(r) \/ (r \in Requests /\ Rollback(r))

Fairness ==
  /\ \A s \in Sweepers :
       /\ WF_vars(ClaimArrivals(s)) /\ WF_vars(ClaimReturns(s))
       /\ SF_vars(HandleOne(s)) /\ WF_vars(SweepFail(s) \/ HandleOne(s))
       /\ WF_vars(SweepAbort(s)) /\ WF_vars(SweepCommit(s))
  /\ \A r \in Requests : WF_vars(EndRequest(r))
  /\ <>[][\A s \in Sweepers : pc[s] \in {"arrivals", "returns"} => ~Rollback(s)]_vars

FairSpec == Spec /\ Fairness

-----------------------------------------------------------------------------
(* Properties.                                                             *)

\* A fleet in the air: its ships and cargo are nowhere else.
Flying(i) ==
  /\ i \in DOMAIN fleet
  /\ fleet[i].status \in {"outbound", "returning"}
  /\ ~fleet[i].home

\* Ships and fleets implement the ledger: a fleet takes off once with ships of
\* its planet and settles once, batch by batch, whatever the sweeps, recalls
\* and rollbacks do; no ship is duplicated or forgotten (scheduler.go:56-61,
\* fleet.go:13-15 of the scheduler).
Ledger == INSTANCE FleetLedger WITH
  docked <- [p \in Planets |-> planet[p].ships],
  flying <- [i \in Ids |-> IF Flying(i) THEN fleet[i].ships ELSE 0],
  launched <- DOMAIN fleet,
  scrapped <- lost
LedgerSpec == Ledger!Spec

\* Flights create no resources: stocks and cargo in the air never exceed what
\* the planets started with and produced (a cargo delivered twice, or loot
\* credited and not debited, would).
NoFreeCargo ==
  Sum([p \in Planets |-> planet[p].metal], Planets)
    + Sum([i \in Ids |-> IF Flying(i) THEN fleet[i].cargo ELSE 0], Ids)
    <= Sum([p \in Planets |-> StartMetal + Rate * planet[p].updated], Planets)

\* A recalled fleet never carries its mission out: the scheduler skips it
\* (svc/fleet.go:288-290).
RecalledNeverArrives ==
  [][\A i \in DOMAIN fleet :
       fleet[i].status # "outbound" => fleet'[i].arrived = fleet[i].arrived]_vars

\* Every fleet whose arrival or return is due is handled in the end
\* (scheduler.go:36-37, scheduler/fleet.go:3-13).
DueFleetsMove ==
  \A i \in Ids : /\ i \in DueArrivals ~> i \notin DueArrivals
                 /\ i \in DueReturns ~> i \notin DueReturns

\* A fleet that fails is skipped and does not keep the others of its batch
\* from being handled (scheduler/fleet.go:15-18).
OthersArrive ==
  \A i \in Ids : (i \in DueArrivals /\ fleet[i].mission = "transport")
                   ~> i \notin DueArrivals

\* Recall turns an outbound fleet around (svc/fleet.go:288-290), never one
\* that has come home.
RecallOnlyOutbound ==
  [][\A i \in DOMAIN fleet :
       fleet[i].status # "returning" /\ fleet'[i].status = "returning"
         => fleet[i].status = "outbound"]_vars
=============================================================================
