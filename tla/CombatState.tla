---------------------------- MODULE CombatState ----------------------------
(* The units of a battle, the fire and the hit points of a side               *)
(* (game/fleet.go), and what one exchange of fire promises.  Combat has the   *)
(* steps of SimulateCombat.  Profiles are those of the catalog; a side is a   *)
(* function from the kinds that may take part to how many do.                 *)
EXTENDS Catalog, FiniteSets, Sums

CONSTANTS
  Fleets, Garrisons, Batteries,  \* the attackers, hulls and defences to try
  TechLevels,                    \* levels of the three combat technologies to try
  Short                          \* <<value, level>> whose product comes out one short

\* A side of the kinds of one table.
Side(f, table) ==
  /\ IsFiniteSet(DOMAIN f) /\ DOMAIN f \subseteq DOMAIN table
  /\ f \in [DOMAIN f -> Nat]

CombatTechs == [weapons: Nat, shielding: Nat, armour: Nat]

ASSUME CombatConstantsOK ==
  /\ \A f \in Fleets \cup Garrisons : Side(f, ShipStats)
  /\ \A f \in Batteries : Side(f, DefenseStats)
  /\ TechLevels \subseteq CombatTechs
  /\ Short \subseteq (Nat \ {0}) \X Nat

VARIABLES
  stage,          \* how far SimulateCombat has come
  sides,          \* its arguments: [atk, ships, defs, atkTech, defTech]
  atk,            \* attackerUnits, decremented in place
  ships, defs,    \* defenderShipUnits and defenderDefenseUnits
  pool,           \* defenderPool, the copy that is decremented
  atkDestroyed, defDestroyed,
  winner, debris

combatVars == <<stage, sides, atk, ships, defs, pool, atkDestroyed, defDestroyed, winner, debris>>

Stat(k) == IF k \in DOMAIN ShipStats THEN ShipStats[k] ELSE DefenseStats[k]

\* applyTechMods: ten percent per level, multiplied as floats and truncated; a
\* product that should be a whole number may come out just below it.
TechMod(x, level) ==
  (x * (10 + level)) \div 10 - (IF <<x, level>> \in Short THEN 1 ELSE 0)
Weapon(k, tech) == TechMod(Stat(k).weapon, tech.weapons)
HP(k, tech) == TechMod(Stat(k).shield, tech.shielding) + TechMod(Stat(k).armor, tech.armour)

totalAttack(side, tech) == Sum([k \in DOMAIN side |-> side[k] * Weapon(k, tech)], DOMAIN side)
totalHPPool(side, tech) == Sum([k \in DOMAIN side |-> side[k] * HP(k, tech)], DOMAIN side)

Join(f, g) == [k \in DOMAIN f \cup DOMAIN g |-> IF k \in DOMAIN f THEN f[k] ELSE g[k]]

\* Nobody loses more hit points than the other side can deal, whatever the mix
\* of hulls and defences the damage is spread over and however it is rounded.
NoOverkill ==
  stage = "done" =>
    /\ totalHPPool(defDestroyed, sides.defTech) <= totalAttack(sides.atk, sides.atkTech)
    /\ totalHPPool(atkDestroyed, sides.atkTech)
         <= totalAttack(Join(sides.ships, sides.defs), sides.defTech)
=============================================================================
