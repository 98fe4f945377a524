------------------------------- MODULE Catalog -------------------------------
(***************************************************************************)
(* The tables of game/constants.go: costs, prerequisites and the combat    *)
(* profiles of hulls and defences.  A cost is <<metal, crystal, deuterium>>; *)
(* a growth factor a fraction; a prerequisite <<item, level>>, the item    *)
(* being a building or a research ("research_lab" stands for LabLevel and  *)
(* "shipyard" for ShipyardLevel).                                          *)
(***************************************************************************)
EXTENDS Integers

BuildingCosts ==
  [metal_mine |-> <<60, 15, 0>>, crystal_mine |-> <<48, 24, 0>>,
   deuterium_synthesizer |-> <<225, 75, 0>>, solar_plant |-> <<75, 30, 0>>,
   fusion_reactor |-> <<900, 360, 180>>, solar_satellite |-> <<0, 2000, 500>>,
   crawler |-> <<2000, 2000, 1000>>, robotics_factory |-> <<400, 120, 200>>,
   shipyard |-> <<400, 200, 100>>, research_lab |-> <<200, 400, 200>>,
   metal_storage |-> <<1000, 0, 0>>, crystal_storage |-> <<1000, 500, 0>>,
   deuterium_tank |-> <<1000, 1000, 0>>, nanite_factory |-> <<1000000, 500000, 100000>>,
   missile_silo |-> <<20000, 20000, 1000>>, alliance_depot |-> <<20000, 40000, 0>>,
   terraformer |-> <<0, 50000, 100000>>]

Buildings == DOMAIN BuildingCosts

ResearchCosts ==
  [energy |-> <<0, 800, 400>>, laser |-> <<200, 100, 0>>, ion |-> <<1000, 300, 100>>,
   hyperspace |-> <<0, 4000, 2000>>, plasma |-> <<2000, 4000, 1000>>,
   computer |-> <<0, 400, 600>>, astrophysics |-> <<4000, 8000, 4000>>,
   espionage |-> <<200, 1000, 200>>, combustion_drive |-> <<400, 0, 600>>,
   impulse_drive |-> <<2000, 4000, 600>>, hyperspace_drive |-> <<10000, 20000, 6000>>,
   weapons |-> <<800, 200, 0>>, shielding |-> <<200, 600, 0>>, armour |-> <<1000, 0, 0>>]

Techs == DOMAIN ResearchCosts

\* The growth factors of both tables.
Factor(item) ==
  CASE item \in {"metal_mine", "deuterium_synthesizer", "solar_plant"} -> <<3, 2>>
    [] item = "crystal_mine" -> <<8, 5>>
    [] item = "fusion_reactor" -> <<9, 5>>
    [] item = "astrophysics" -> <<7, 4>>
    [] item \in {"solar_satellite", "crawler"} -> <<1, 1>>
    [] OTHER -> <<2, 1>>

\* BuildingLevelCost and ResearchLevelCost: base * factor^(target - 1), floored.
LevelCost(x, target) ==
  LET base == IF x \in Buildings THEN BuildingCosts[x] ELSE ResearchCosts[x]
      f == Factor(x)
      e == target - 1
  IN [i \in 1..3 |-> (base[i] * f[1]^e) \div f[2]^e]

TechPrerequisites ==
  [energy |-> {<<"research_lab", 1>>},
   laser |-> {<<"research_lab", 1>>, <<"energy", 2>>},
   ion |-> {<<"research_lab", 4>>, <<"energy", 4>>, <<"laser", 5>>},
   hyperspace |-> {<<"research_lab", 7>>, <<"energy", 5>>, <<"shielding", 5>>},
   plasma |-> {<<"research_lab", 4>>, <<"energy", 8>>, <<"laser", 10>>, <<"ion", 5>>},
   computer |-> {<<"research_lab", 1>>},
   astrophysics |-> {<<"research_lab", 3>>, <<"espionage", 4>>},
   espionage |-> {<<"research_lab", 3>>},
   combustion_drive |-> {<<"research_lab", 1>>, <<"energy", 1>>},
   impulse_drive |-> {<<"research_lab", 2>>, <<"energy", 1>>},
   hyperspace_drive |-> {<<"research_lab", 7>>, <<"energy", 5>>, <<"shielding", 5>>,
                         <<"hyperspace", 3>>},
   weapons |-> {<<"research_lab", 4>>},
   shielding |-> {<<"research_lab", 6>>, <<"energy", 3>>},
   armour |-> {<<"research_lab", 2>>}]

\* Buildings that are not in the map have no prerequisite.
BuildingPrerequisites(b) ==
  CASE b = "fusion_reactor" -> {<<"deuterium_synthesizer", 5>>, <<"energy", 3>>}
    [] b = "shipyard" -> {<<"robotics_factory", 2>>}
    [] b = "missile_silo" -> {<<"shipyard", 1>>}
    [] b = "nanite_factory" -> {<<"robotics_factory", 10>>, <<"computer", 10>>}
    [] b = "terraformer" -> {<<"nanite_factory", 1>>, <<"energy", 12>>}
    [] OTHER -> {}

ShipPrerequisites ==
  [small_cargo |-> {<<"shipyard", 2>>, <<"combustion_drive", 2>>},
   large_cargo |-> {<<"shipyard", 4>>, <<"combustion_drive", 6>>},
   light_fighter |-> {<<"shipyard", 1>>, <<"combustion_drive", 1>>},
   heavy_fighter |-> {<<"shipyard", 3>>, <<"armour", 2>>, <<"impulse_drive", 2>>},
   cruiser |-> {<<"shipyard", 5>>, <<"impulse_drive", 4>>, <<"ion", 2>>},
   battleship |-> {<<"shipyard", 7>>, <<"hyperspace_drive", 4>>},
   colony_ship |-> {<<"shipyard", 4>>, <<"impulse_drive", 3>>},
   recycler |-> {<<"shipyard", 4>>, <<"combustion_drive", 6>>, <<"shielding", 2>>},
   espionage_probe |-> {<<"shipyard", 3>>, <<"combustion_drive", 3>>, <<"espionage", 2>>},
   bomber |-> {<<"shipyard", 8>>, <<"impulse_drive", 6>>, <<"plasma", 5>>},
   destroyer |-> {<<"shipyard", 9>>, <<"hyperspace_drive", 6>>, <<"hyperspace", 5>>},
   battlecruiser |-> {<<"shipyard", 8>>, <<"hyperspace_drive", 5>>, <<"laser", 12>>,
                      <<"hyperspace", 5>>}]

DefensePrerequisites ==
  [rocket_launcher |-> {<<"shipyard", 1>>},
   light_laser |-> {<<"shipyard", 2>>, <<"energy", 1>>, <<"laser", 3>>},
   heavy_laser |-> {<<"shipyard", 4>>, <<"energy", 3>>, <<"laser", 6>>},
   gauss_cannon |-> {<<"shipyard", 6>>, <<"weapons", 3>>, <<"shielding", 1>>, <<"energy", 6>>},
   ion_cannon |-> {<<"shipyard", 4>>, <<"ion", 4>>},
   plasma_turret |-> {<<"shipyard", 8>>, <<"plasma", 7>>},
   small_shield_dome |-> {<<"shipyard", 1>>, <<"shielding", 2>>},
   large_shield_dome |-> {<<"shipyard", 6>>, <<"shielding", 6>>}]

Requires(x) ==
  IF x \in Buildings THEN BuildingPrerequisites(x)
  ELSE IF x \in Techs THEN TechPrerequisites[x]
  ELSE IF x \in DOMAIN ShipPrerequisites THEN ShipPrerequisites[x]
  ELSE DefensePrerequisites[x]

FlatCapacity(l) == 10000

\* StorageCapacity: 5000 * floor(2.5 * e^(20 * level / 33)).
StorageCapacity(l) ==
  5000 * <<2, 4, 8, 15, 28, 51, 94, 173, 318, 584, 1071, 1964, 3601, 6601>>[l + 1]

Profile(m, c, d, a, s, w) == [cost |-> <<m, c, d>>, armor |-> a, shield |-> s, weapon |-> w]

\* Speed, cargo and fuel are left out: flights are abstract in Fleets.
ShipStats ==
  [small_cargo |-> Profile(2000, 2000, 0, 4000, 10, 5),
   large_cargo |-> Profile(6000, 6000, 0, 12000, 25, 5),
   light_fighter |-> Profile(3000, 1000, 0, 4000, 10, 50),
   heavy_fighter |-> Profile(6000, 4000, 0, 10000, 25, 150),
   cruiser |-> Profile(20000, 7000, 2000, 27000, 50, 400),
   battleship |-> Profile(45000, 15000, 0, 60000, 200, 1000),
   colony_ship |-> Profile(10000, 20000, 10000, 30000, 100, 50),
   recycler |-> Profile(10000, 6000, 2000, 16000, 10, 1),
   espionage_probe |-> Profile(0, 1000, 0, 1000, 0, 0),
   bomber |-> Profile(50000, 25000, 15000, 75000, 500, 1000),
   destroyer |-> Profile(60000, 50000, 15000, 110000, 500, 2000),
   battlecruiser |-> Profile(30000, 40000, 15000, 70000, 400, 700)]

DefenseStats ==
  [rocket_launcher |-> Profile(2000, 0, 0, 2000, 20, 80),
   light_laser |-> Profile(1500, 500, 0, 2000, 25, 100),
   heavy_laser |-> Profile(6000, 2000, 0, 8000, 100, 250),
   gauss_cannon |-> Profile(20000, 15000, 2000, 35000, 200, 1100),
   ion_cannon |-> Profile(5000, 3000, 0, 8000, 500, 150),
   plasma_turret |-> Profile(50000, 50000, 30000, 100000, 300, 3000),
   small_shield_dome |-> Profile(10000, 10000, 0, 20000, 2000, 1),
   large_shield_dome |-> Profile(50000, 50000, 0, 100000, 10000, 1)]

\* With one research hung from a later one.
TechTreeMisdrawn ==
  [laser |-> "ion", ion |-> "laser", plasma |-> "ion", hyperspace |-> "energy",
   combustion_drive |-> "energy", impulse_drive |-> "energy", shielding |-> "energy",
   hyperspace_drive |-> "hyperspace", astrophysics |-> "espionage"]

\* TechTreeParent; the roots have none.
TechTreeParent ==
  [laser |-> "energy", ion |-> "laser", plasma |-> "ion", hyperspace |-> "energy",
   combustion_drive |-> "energy", impulse_drive |-> "energy", shielding |-> "energy",
   hyperspace_drive |-> "hyperspace", astrophysics |-> "espionage"]
=============================================================================
