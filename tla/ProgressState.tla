---------------------------- MODULE ProgressState ----------------------------
(* The levels a player has reached on his first planet, what they unlock and *)
(* afford, and what the tables of the game promise.  Progress has the steps. *)
EXTENDS Catalog

CONSTANT StorageGoal   \* bound on the levels of the three stores

\* As far as the table of StorageCapacity goes; below 9, some prices never fit.
ASSUME StorageGoalAssumption == StorageGoal \in 9..13

VARIABLE level   \* planet_buildings and researches

Items == Buildings \cup Techs
Stores == {"metal_storage", "crystal_storage", "deuterium_tank"}
Producible == DOMAIN ShipPrerequisites \cup DOMAIN DefensePrerequisites

Asked == UNION {Requires(y) : y \in Items \cup Producible}

\* Worth another level: it has none yet, or somebody asks for more.
Sought(x) ==
  IF x \in Stores THEN level[x] < StorageGoal
  ELSE level[x] = 0 \/ \E r \in Asked : r[1] = x /\ level[x] < r[2]

\* CheckBuildingPrereqs, CheckResearchPrereqs, CheckShipPrereqs and
\* CheckDefensePrereqs: nothing is missing.
Unlocked(x) == \A r \in Requires(x) : level[r[1]] >= r[2]

UnitCost(x) ==
  IF x \in DOMAIN ShipStats THEN ShipStats[x].cost ELSE DefenseStats[x].cost

\* The stockpile never grows past its stores (svc/resources.go).
Fits(cost) ==
  /\ cost[1] <= StorageCapacity(level["metal_storage"])
  /\ cost[2] <= StorageCapacity(level["crystal_storage"])
  /\ cost[3] <= StorageCapacity(level["deuterium_tank"])

\* The tables let a player begin the next level.
Buildable(x) == Unlocked(x) /\ Fits(LevelCost(x, level[x] + 1))

CanAdvance(x) == Sought(x) /\ Buildable(x)

(***************************************************************************)
(* Properties                                                              *)
(***************************************************************************)

\* No dead end in the tables: when nothing is left to advance, every building,
\* research, hull and defence is unlocked, at every level somebody asks for, and its
\* cost fits into stores that could themselves be built before.
EverythingReachable ==
  (\A x \in Items : ~CanAdvance(x)) =>
    /\ \A x \in Items : ~Sought(x)
    /\ \A u \in Producible : Unlocked(u) /\ Fits(UnitCost(u))

\* The tree the client draws (game/tech_tree.go:9) agrees with the
\* prerequisites: a research is never begun before the parent it hangs from.
ParentFirst ==
  \A t \in DOMAIN TechTreeParent : level[t] > 0 => level[TechTreeParent[t]] > 0
=============================================================================
