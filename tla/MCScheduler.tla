---------------------------- MODULE MCScheduler ----------------------------
(***************************************************************************)
(* What the scheduler owes, of its build queue and of its fleets.  Neither *)
(* sweep waits for the other's rows here: a behaviour is one of the queue  *)
(* or one of the fleets, and the tables of the other stay empty.           *)
(***************************************************************************)
EXTENDS MCBuildQueue

CONSTANTS NoPlanet, Untouched

VARIABLES
  part,                                                    \* "queue" or "fleets"
  hour, planet, fleet, step, draft, todo, recall, lost     \* Fleets

\* Two planets of one player, a ship on each, to be deployed and recalled.
Ports == {p1, p2}
PortOwner == [p \in Ports |-> u1]
Deployments == {"deploy"}
OneSecond == {1}
Callers == {r1}

FL == INSTANCE Fleets WITH
  Planets <- Ports, Owner <- PortOwner, Missions <- Deployments, Flights <- OneSecond,
  Fuel <- 0, Capacity <- 1, Rate <- 0, Storage <- 2, StartMetal <- 0, StartShips <- 1,
  BatchSize <- 1, Requests <- Callers, MaxFleets <- 2, Horizon <- 1,
  clock <- hour, pc <- step, job <- recall

fleetVars == <<hour, planet, fleet, step, draft, todo, recall, lost>>
schedulerVars == <<part, vars, fleetVars>>

SchedulerInit == part \in {"queue", "fleets"} /\ Init /\ FL!Init

SchedulerNext ==
  \/ part = "queue" /\ Next /\ UNCHANGED <<part, fleetVars>>
  \/ part = "fleets" /\ FL!Next /\ UNCHANGED <<part, vars>>

\* The fairness of the one that runs.
SchedulerFairness ==
  \/ part = "queue" /\ Fairness
  \/ part = "fleets" /\ FL!Fairness

SchedulerSpec == SchedulerInit /\ [][SchedulerNext]_schedulerVars /\ SchedulerFairness

\* Every fleet whose arrival or return is due is handled in the end
\* (scheduler.go:36-37, scheduler/fleet.go:3-13).
DueFleetsMove == FL!DueFleetsMove
=============================================================================
