------------------------------- MODULE Economy -------------------------------
(***************************************************************************)
(* Lazy production on one planet (svc/resources.go, game/production.go):   *)
(* nothing runs every hour; whoever reads or writes the stockpile first    *)
(* credits the window since the last time, at the rates of the levels it   *)
(* finds.  Levels are raised by the scheduler's sweep.                     *)
(*                                                                         *)
(* The clock counts half seconds, as an update within a second of the last *)
(* credits nothing.  Rates are whole units per hour, rounded down where    *)
(* the code keeps a float, and amounts what one unit per hour yields in    *)
(* half a second.  One order is unresolved at a time; how orders queue up  *)
(* and race is the subject of BuildQueue.                                  *)
(***************************************************************************)
EXTENDS PlanetSettings

CONSTANTS
  Horizon,   \* bound on the clock, in hours
  Moments    \* bound on the half seconds looked at in each hour

VARIABLES
  clock,
  level,      \* planet_buildings and researches
  stock,      \* planets.metal, crystal, deuterium
  updated,    \* planets.resources_last_updated_at
  purse,      \* what the order that holds the planet's lock read, and up to when
  order,      \* the unresolved order: [item, due], or None
  produced    \* what the levels in force yielded moment by moment, less what was paid

vars == <<clock, level, stock, updated, purse, order, produced>>

Second == 2
Hour == 3600 * Second

Resources == 1..3
Units(n) == Hour * n
None == [item |-> "none", due |-> 0]
NoPurse == [item |-> "none", stock |-> <<0, 0, 0>>, upto |-> 0]
AtLeast0(x) == IF x < 0 THEN 0 ELSE x
AtMost(bound, x) == IF x > bound THEN bound ELSE x

TypeOK ==
  /\ clock \in Nat /\ updated \in 0..clock
  /\ level \in [Buildings \cup Techs -> Nat]
  /\ stock \in [Resources -> Nat] /\ produced \in [Resources -> Int]
  /\ order = None \/ order.item \in Orders
  /\ purse = NoPurse \/ (/\ purse.item \in Orders /\ purse.stock \in [Resources -> Nat]
                         /\ purse.upto \in updated..clock)

-----------------------------------------------------------------------------
(* ComputePlanetProduction.                                                *)

\* b^n, with a recursion that can be reasoned about.
Power(b, n) == LET p[k \in Nat] == IF k = 0 THEN 1 ELSE b * p[k - 1] IN p[n]

\* a * l * 1.1^l, rounded down or up.
Grown(a, l) == (a * l * Power(11, l)) \div Power(10, l)
GrownUp(a, l) == -((-(a * l * Power(11, l))) \div Power(10, l))

MineEnergyCoeff ==
  [metal_mine |-> 10, crystal_mine |-> 10, deuterium_synthesizer |-> 20]

\* Thousandths per hour, with plasma technology and the slot or the cold.
MetalMineProduction ==
  Grown((30 * Speed * (100 + level["plasma"]) * (100 + PositionBonus[1])) \div 10,
        level["metal_mine"])
CrystalMineProduction ==
  Grown((20 * Speed * (10000 + 66 * level["plasma"]) * (100 + PositionBonus[2])) \div 1000,
        level["crystal_mine"])
DeuteriumSynthesizerProduction ==
  Grown((10 * Speed * (10000 + 33 * level["plasma"]) * (1360 - 4 * AvgTemp)) \div 10000,
        level["deuterium_synthesizer"])
Base == <<30000 * Speed, 15000 * Speed, 0>>

ActiveCrawlers ==
  AtMost(8 * (level["metal_mine"] + level["crystal_mine"] + level["deuterium_synthesizer"]),
         level["crawler"])

EnergyConsumed ==
  LET Use(m) == GrownUp(MineEnergyCoeff[m], level[m])
  IN Use("metal_mine") + Use("crystal_mine") + Use("deuterium_synthesizer")
     + 50 * ActiveCrawlers

SolarSatelliteOutput == AtLeast0((AvgTemp + 160) \div 6) * level["solar_satellite"]
FusionReactorOutput ==
  LET l == level["fusion_reactor"]
  IN (30 * l * Power(105 + level["energy"], l)) \div Power(100, l)
FusionDeutConsumption == GrownUp(10 * Speed, level["fusion_reactor"])

EnergyProduced ==
  Grown(20, level["solar_plant"]) + SolarSatelliteOutput + FusionReactorOutput

\* A mine's output under a shortage of energy, with the crawlers at work.
Powered(gross) ==
  LET net == IF EnergyConsumed > EnergyProduced
             THEN (gross * EnergyProduced) \div EnergyConsumed ELSE gross
  IN (net * (5000 + ActiveCrawlers)) \div 5000

PerHour ==
  <<(Base[1] + Powered(MetalMineProduction)) \div 1000,
    (Base[2] + Powered(CrystalMineProduction)) \div 1000,
    AtLeast0((Base[3] + Powered(DeuteriumSynthesizerProduction)) \div 1000 - FusionDeutConsumption)>>

-----------------------------------------------------------------------------

StoreCapacity ==
  LET Of(s) == Units(StorageCapacity(level[s]))
  IN <<Of("metal_storage"), Of("crystal_storage"), Of("deuterium_tank")>>

\* The stockpile some moments later at the present rates, full stores included.
After(s, moments) == [r \in Resources |-> AtMost(StoreCapacity[r], s[r] + moments * PerHour[r])]

\* refreshTx: nothing is credited within a second of the last update.
Fresh == clock - updated < Second
Refreshed == IF Fresh THEN stock ELSE After(stock, clock - updated)

\* The start of a homeworld.
Init ==
  /\ clock = 0 /\ updated = 0
  /\ level = [x \in Buildings \cup Techs |-> 0]
  /\ stock = <<Units(500), Units(500), 0>> /\ produced = stock
  /\ purse = NoPurse /\ order = None

\* Half a second, or an hour in which no order is being carried through.
Tick ==
  \E moments \in {1, Hour} :
    /\ IF moments = 1 THEN clock % Hour < Moments ELSE purse = NoPurse
    /\ clock < Horizon * Hour
    /\ clock' = clock + moments
    /\ produced' = After(produced, moments)
    /\ UNCHANGED <<level, stock, updated, purse, order>>

\* A variant that forgets the timestamp of what it has credited.
RefreshAgain ==
  /\ purse = NoPurse /\ ~Fresh
  /\ stock' = Refreshed
  /\ UNCHANGED <<clock, level, updated, purse, order, produced>>

\* Somebody looks at the planet, or a fleet arrives.
Refresh ==
  /\ purse = NoPurse /\ ~Fresh
  /\ stock' = Refreshed
  /\ updated' = clock
  /\ UNCHANGED <<clock, level, purse, order, produced>>

\* QueueBuilding and Queue of a technology lock the planet and refresh it, in
\* the transaction that pays: nobody sees the refreshed row before it commits.
OrderBegin(x) ==
  /\ purse = NoPurse
  /\ purse' = [item |-> x, stock |-> Refreshed, upto |-> IF Fresh THEN updated ELSE clock]
  /\ UNCHANGED <<clock, level, stock, updated, order, produced>>

\* applyFirstSolarRescueCost: a blacked-out planet pays what metal it has left.
Price(x, held) ==
  LET cost == LevelCost(x, level[x] + 1)
      rescued == /\ x = "solar_plant" /\ level[x] = 0
                 /\ held[2] >= cost[2] /\ held[3] >= cost[3] /\ held[1] < cost[1]
                 /\ EnergyProduced <= 0 /\ EnergyConsumed > 0
  IN IF rescued THEN [cost EXCEPT ![1] = held[1]] ELSE cost

\* Check and debit, at a later now than the refresh.  The row is due a second
\* later or whenever its duration, or a late sweep, takes it.
OrderPay ==
  LET x == purse.item
      held == [r \in Resources |-> purse.stock[r] \div Hour]
      price == Price(x, held)
  IN /\ purse # NoPurse /\ order = None
     /\ level[x] < MaxLevel
     /\ \A r \in Requires(x) : level[r[1]] >= r[2]
     /\ \A r \in Resources : price[r] <= held[r]
     /\ stock' = [r \in Resources |-> purse.stock[r] - Units(price[r])]
     /\ produced' = [r \in Resources |-> produced[r] - Units(price[r])]
     /\ updated' = clock
     /\ order' = [item |-> x, due |-> clock + Second]
     /\ purse' = NoPurse
     /\ UNCHANGED <<clock, level>>

\* An order that is refused, or fails at any statement, rolls its refresh back.
OrderFail ==
  /\ purse # NoPurse
  /\ purse' = NoPurse
  /\ UNCHANGED <<clock, level, stock, updated, order, produced>>

\* applyBuilding and applyResearch: the level alone, without the planet's lock.
Sweep ==
  /\ order # None /\ order.due <= clock
  /\ level' = [level EXCEPT ![order.item] = @ + 1]
  /\ order' = None
  /\ UNCHANGED <<clock, stock, updated, purse, produced>>

Next == Tick \/ Refresh \/ OrderPay \/ OrderFail \/ Sweep \/ \E x \in Orders : OrderBegin(x)

Spec == Init /\ [][Next]_vars

(***************************************************************************)
(* Properties                                                              *)
(***************************************************************************)

\* What the planet would hold if its open window were credited now.
Owed == After(stock, clock - updated)

\* Neither the planet nor the order that holds its lock has more than was yielded.
NotMore ==
  /\ \A r \in Resources : Owed[r] <= produced[r]
  /\ purse # NoPurse => \A r \in Resources : purse.stock[r] <= produced[r]

Overcredits == NotMore /\ level' = level /\ ~NotMore'

\* However the looks at a planet and the orders paid from it fall between the
\* moments, no window is credited twice ("can't double-credit the same window",
\* svc/resources.go:24): nobody comes to hold more than the levels in force
\* yielded, but in a step that raises a level.
NobodyOvercredited == [][~Overcredits]_vars

\* However seldom the stockpile is looked at, a window is credited at the rates
\* that were in force while it passed (svc/resources.go:13-16: every call that
\* reads or writes "first applies the production formula for the window").
WindowsAtTheirRate == updated = clock => stock = produced
=============================================================================
